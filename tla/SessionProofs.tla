--------------------------- MODULE SessionProofs ---------------------------
(***************************************************************************)
(* Everything Session's runs check of a whole connection but its verdict   *)
(* on XTLS, for every run that Scenario's assumptions allow: any           *)
(* credentials, any input of the client cut anywhere, any answer of the    *)
(* server cut anywhere, any padding drawn, any interleaving. Spec implies  *)
(* []TypeOK, []AsAsked, []NothingHeldBack, []RefusedForCause, and          *)
(* PipesSpec, the two abstract pipes (at the end of the module). The       *)
(* codecs on the way, the recursive ones too, are understood first: hex,   *)
(* base64, the SOCKS5 and VLESS headers, and the Vision frames, each read  *)
(* back from what is written, in one read or in many.                      *)
(***************************************************************************)
EXTENDS Session, SequenceTheorems, WellFoundedInduction, FiniteSetTheorems, TLAPS

---------------------------------------------------------------------------
(***************************************************************************)
(* Natural numbers: least members, induction, recursion. What a recursive  *)
(* function is, is derived here from the equation that defines it.         *)
(***************************************************************************)
LessThan == {s \in Nat \X Nat : s[1] < s[2]}

LEMMA LessThanWellFounded == IsWellFoundedOn(LessThan, Nat)
  BY NatLessThanWellFounded DEF OpToRel, LessThan

LEMMA LeastNatural ==
    ASSUME NEW T, T \subseteq Nat, T # {}
    PROVE  \E n \in T : \A m \in T : n <= m
  <1>1. PICK n \in T : \A m \in T : ~ (<<m, n>> \in LessThan)
    BY LessThanWellFounded, WFMin
  <1>2. ASSUME NEW m \in T PROVE n <= m
    <2>1. ~ (<<m, n>> \in LessThan)
      BY <1>1
    <2>2. <<m, n>> \in Nat \X Nat
      OBVIOUS
    <2>3. ~(m < n)
      BY <2>1, <2>2 DEF LessThan
    <2> QED BY <2>3
  <1> QED BY <1>2

\* Induction, for a set of numbers.
LEMMA Induction ==
    ASSUME NEW T, 0 \in T, \A n \in Nat : n \in T => n + 1 \in T
    PROVE  \A n \in Nat : n \in T
  <1> SUFFICES ASSUME NEW m \in Nat, m \notin T PROVE FALSE
    OBVIOUS
  <1> DEFINE missing == {n \in Nat : n \notin T}
  <1>1. PICK n \in missing : \A k \in missing : n <= k
    <2>1. missing \subseteq Nat /\ missing # {}
      OBVIOUS
    <2> HIDE DEF missing
    <2> QED BY <2>1, LeastNatural
  <1>2. n # 0 /\ n - 1 \in Nat /\ n - 1 \notin missing
    BY <1>1
  <1> QED BY <1>1, <1>2

\* The members of an initial segment of the numbers.
Initial(D) == D \subseteq Nat /\ 0 \in D /\ \A n \in D : n # 0 => n - 1 \in D

\* A function of the numbers up to n that follows F from x.
Follows(h, n, S, x, F) ==
    /\ h \in [0..n -> S]
    /\ h[0] = x
    /\ \A i \in 1..n : h[i] = F[<<i, h[i - 1]>>]

LEMMA FollowsUnique ==
    ASSUME NEW S, NEW x, NEW F, NEW n \in Nat, NEW m \in Nat, NEW h, NEW g,
           Follows(h, n, S, x, F), Follows(g, m, S, x, F)
    PROVE  \A i \in Nat : i <= n /\ i <= m => h[i] = g[i]
  <1> DEFINE T == {i \in Nat : i <= n /\ i <= m => h[i] = g[i]}
  <1>1. 0 \in T
    BY DEF Follows
  <1>2. ASSUME NEW i \in Nat, i \in T PROVE i + 1 \in T
    <2> SUFFICES ASSUME i + 1 <= n, i + 1 <= m PROVE h[i + 1] = g[i + 1]
      OBVIOUS
    <2>1. h[i] = g[i]
      BY <1>2
    <2>2. i + 1 \in 1..n /\ i + 1 \in 1..m /\ (i + 1) - 1 = i
      OBVIOUS
    <2>3. h[i + 1] = F[<<i + 1, h[i]>>] /\ g[i + 1] = F[<<i + 1, g[i]>>]
      BY <2>2 DEF Follows
    <2> QED BY <2>1, <2>3
  <1>3. \A i \in Nat : i \in T
    <2> HIDE DEF T
    <2> QED BY <1>1, <1>2, Induction
  <1> QED BY <1>3

\* Recursion on numbers: there is a function that satisfies its equation.
Recursive(g, D, S, x, F) ==
    g \in [D -> S] /\ \A n \in D : g[n] = IF n = 0 THEN x ELSE F[<<n, g[n - 1]>>]

LEMMA Recursion ==
    ASSUME NEW D, Initial(D), NEW S, NEW x \in S, NEW F \in [D \X S -> S]
    PROVE  \E g : Recursive(g, D, S, x, F)
  <1> DEFINE T == {n \in Nat : n \in D => \E h : Follows(h, n, S, x, F)}
  <1>1. 0 \in T
    <2>1. Follows([i \in 0..0 |-> x], 0, S, x, F)
      BY DEF Follows
    <2> QED BY <2>1
  <1>2. ASSUME NEW n \in Nat, n \in T PROVE n + 1 \in T
    <2> SUFFICES ASSUME n + 1 \in D PROVE \E h : Follows(h, n + 1, S, x, F)
      OBVIOUS
    <2>1. n \in D /\ n + 1 # 0
      BY DEF Initial
    <2>2. PICK h : Follows(h, n, S, x, F)
      BY <1>2, <2>1
    <2> DEFINE more == [i \in 0..(n + 1) |-> IF i <= n THEN h[i] ELSE F[<<n + 1, h[n]>>]]
    <2>3. h[n] \in S /\ F[<<n + 1, h[n]>>] \in S
      BY <2>2 DEF Follows
    <2>4. more \in [0..(n + 1) -> S] /\ more[0] = x
      BY <2>2, <2>3 DEF Follows
    <2>5. \A i \in 1..(n + 1) : more[i] = F[<<i, more[i - 1]>>]
      <3> SUFFICES ASSUME NEW i \in 1..(n + 1) PROVE more[i] = F[<<i, more[i - 1]>>]
        OBVIOUS
      <3>1. CASE i <= n
        BY <2>2, <3>1 DEF Follows
      <3>2. CASE i = n + 1
        BY <3>2
      <3> QED BY <3>1, <3>2
    <2>6. Follows(more, n + 1, S, x, F)
      BY <2>4, <2>5 DEF Follows
    <2> QED BY <2>6
  <1>3. \A n \in Nat : n \in T
    <2> HIDE DEF T
    <2> QED BY <1>1, <1>2, Induction
  <1> DEFINE H(n) == CHOOSE h : Follows(h, n, S, x, F)
             g == [n \in D |-> H(n)[n]]
  <1>4. \A n \in D : n \in Nat /\ Follows(H(n), n, S, x, F)
    BY <1>3 DEF Initial
  <1> HIDE DEF H
  <1>5. g \in [D -> S]
    BY <1>4 DEF Follows
  <1>6. ASSUME NEW n \in D PROVE g[n] = IF n = 0 THEN x ELSE F[<<n, g[n - 1]>>]
    <2>1. CASE n = 0
      BY <1>4, <2>1 DEF Follows
    <2>2. CASE n # 0
      <3>1. n - 1 \in D /\ n \in Nat /\ n - 1 \in Nat
        BY <1>4, <2>2 DEF Initial
      <3>2. Follows(H(n), n, S, x, F) /\ Follows(H(n - 1), n - 1, S, x, F)
        BY <1>4, <3>1
      <3>3. H(n)[n - 1] = H(n - 1)[n - 1]
        BY <3>1, <3>2, FollowsUnique
      <3>4. H(n)[n] = F[<<n, H(n)[n - 1]>>]
        BY <2>2, <3>1, <3>2 DEF Follows
      <3> QED BY <2>2, <3>1, <3>3, <3>4
    <2> QED BY <2>1, <2>2
  <1> HIDE DEF g
  <1>7. Recursive(g, D, S, x, F)
    BY <1>5, <1>6 DEF Recursive
  <1> QED BY <1>7

LEMMA NatRecursion ==
    ASSUME NEW S, NEW x \in S, NEW F \in [Nat \X S -> S]
    PROVE  \E g : Recursive(g, Nat, S, x, F)
  <1>1. Initial(Nat)
    BY DEF Initial
  <1> QED BY <1>1, Recursion

\* Recursion on anything that has a size: what is left is smaller.
Shrinks(D, size, big, rest) ==
    /\ size \in [D -> Nat] /\ rest \in [D -> D]
    /\ \A d \in D : d \in big => size[rest[d]] < size[d]

Folds(f, D, V, big, rest, base, comb) ==
    /\ f \in [D -> V]
    /\ f = [d \in D |-> IF d \in big THEN comb[<<d, f[rest[d]]>>] ELSE base[d]]

LEMMA SizedRecursion ==
    ASSUME NEW D, NEW V, NEW size, NEW big, NEW rest, Shrinks(D, size, big, rest),
           NEW base \in [D -> V], NEW comb \in [D \X V -> V]
    PROVE  \E f : Folds(f, D, V, big, rest, base, comb)
  <1>0. /\ size \in [D -> Nat] /\ rest \in [D -> D]
        /\ \A d \in D : d \in big => size[rest[d]] < size[d]
    BY DEF Shrinks
  <1> DEFINE S == [D -> V]
             Turn(f) == [d \in D |-> IF d \in big THEN comb[<<d, f[rest[d]]>>] ELSE base[d]]
             F == [p \in Nat \X S |-> Turn(p[2])]
  <1>1. \A f \in S : Turn(f) \in S
    BY <1>0
  <1>2. F \in [Nat \X S -> S]
    BY <1>1
  <1>3. PICK g \in [Nat -> S] : \A n \in Nat : g[n] = IF n = 0 THEN base ELSE F[<<n, g[n - 1]>>]
    <2>2. base \in S
      OBVIOUS
    <2>4. \E g : Recursive(g, Nat, S, base, F)
      <3> HIDE DEF S, F
      <3> QED BY <1>2, <2>2, NatRecursion
    <2> QED BY <2>4 DEF Recursive
  <1>4. /\ g[0] = base
        /\ \A n \in Nat : g[n] \in S /\ g[n + 1] = Turn(g[n])
    <2>1. ASSUME NEW n \in Nat PROVE g[n + 1] = F[<<n + 1, g[n]>>]
      <3>1. n + 1 \in Nat /\ n + 1 # 0 /\ (n + 1) - 1 = n
        OBVIOUS
      <3> HIDE DEF F, S
      <3> QED BY <1>3, <3>1
    <2>2. ASSUME NEW n \in Nat PROVE F[<<n + 1, g[n]>>] = Turn(g[n])
      <3>1. <<n + 1, g[n]>> \in Nat \X S
        OBVIOUS
      <3> HIDE DEF S
      <3> QED BY <3>1
    <2> QED BY <1>3, <2>1, <2>2
  <1> HIDE DEF F
  <1> DEFINE T == {n \in Nat : \A d \in D : size[d] <= n => \A m \in Nat : g[n + m][d] = g[n][d]}
  <1>5. 0 \in T
    <2> SUFFICES ASSUME NEW d \in D, size[d] <= 0, NEW m \in Nat PROVE g[0 + m][d] = g[0][d]
      OBVIOUS
    <2>1. d \notin big
      <3>1. size[rest[d]] \in Nat /\ size[d] \in Nat
        BY <1>0
      <3> QED BY <1>0, <3>1
    <2>2. CASE m = 0
      BY <2>2
    <2>3. CASE m # 0
      <3>1. m - 1 \in Nat /\ (m - 1) + 1 = m
        BY <2>3
      <3>2. g[m] = Turn(g[m - 1])
        BY <1>4, <3>1
      <3>3. g[m][d] = base[d] /\ 0 + m = m
        BY <2>1, <3>2
      <3> QED BY <1>4, <3>3
    <2> QED BY <2>2, <2>3
  <1>6. ASSUME NEW n \in Nat, n \in T PROVE n + 1 \in T
    <2> SUFFICES ASSUME NEW d \in D, size[d] <= n + 1, NEW m \in Nat
                 PROVE  g[(n + 1) + m][d] = g[n + 1][d]
      BY <1>0, <1>6
    <2>1. g[n + 1] = Turn(g[n]) /\ g[(n + m) + 1] = Turn(g[n + m]) /\ (n + 1) + m = (n + m) + 1
      BY <1>4
    <2>2. CASE d \in big
      <3>1. rest[d] \in D /\ size[rest[d]] <= n
        <4>1. rest[d] \in D /\ size[rest[d]] \in Nat /\ size[d] \in Nat /\ size[rest[d]] < size[d]
          BY <1>0, <2>2
        <4> QED BY <4>1
      <3>2. g[n + m][rest[d]] = g[n][rest[d]]
        BY <1>6, <3>1
      <3> QED BY <2>1, <3>2
    <2>3. CASE d \notin big
      BY <2>1, <2>3
    <2> QED BY <2>2, <2>3
  <1>7. \A n \in Nat : n \in T
    <2> HIDE DEF T
    <2> QED BY <1>5, <1>6, Induction
  <1> DEFINE f == [d \in D |-> g[size[d]][d]]
  <1>8. f \in [D -> V]
    BY <1>0, <1>4
  <1>9. ASSUME NEW d \in D PROVE f[d] = IF d \in big THEN comb[<<d, f[rest[d]]>>] ELSE base[d]
    <2>1. size[d] \in Nat /\ rest[d] \in D /\ size[rest[d]] \in Nat
      BY <1>0
    <2>2. CASE size[d] = 0
      <3>1. d \notin big
        BY <1>0, <2>1, <2>2
      <3> QED BY <1>4, <2>2, <3>1
    <2>3. CASE size[d] # 0
      <3>1. PICK n \in Nat : size[d] = n + 1
        <4>1. size[d] - 1 \in Nat /\ size[d] = (size[d] - 1) + 1
          BY <2>1, <2>3
        <4> QED BY <4>1
      <3>2. f[d] = Turn(g[n])[d]
        BY <1>4, <3>1
      <3>3. CASE d \in big
        <4>1. PICK m \in Nat : n = size[rest[d]] + m
          <5>1. size[rest[d]] <= n
            BY <1>0, <2>1, <3>1, <3>3
          <5>2. n - size[rest[d]] \in Nat /\ n = size[rest[d]] + (n - size[rest[d]])
            BY <2>1, <5>1
          <5> QED BY <5>2
        <4>2. g[n][rest[d]] = g[size[rest[d]]][rest[d]]
          BY <1>7, <2>1, <4>1, SMTT(30)
        <4> QED BY <2>1, <3>2, <3>3, <4>2
      <3> QED BY <3>2, <3>3
    <2> QED BY <2>2, <2>3
  <1>10. f = Turn(f)
    BY <1>8, <1>9
  <1> HIDE DEF f
  <1>11. Folds(f, D, V, big, rest, base, comb)
    BY <1>8, <1>10 DEF Folds
  <1> QED BY <1>11

---------------------------------------------------------------------------
(***************************************************************************)
(* Sequences: the first n items of one (Upto) and those behind them        *)
(* (Behind), cutting and joining, and what FlattenSeq, a fold of the       *)
(* community modules, makes of a sequence of sequences.                    *)
(***************************************************************************)
---------------------------------------------------------------------------
(* Sequences                                                                *)

Upto(s, n) == SubSeq(s, 1, n)
Behind(s, n) == SubSeq(s, n + 1, Len(s))

LEMMA ConcatAssoc ==
    ASSUME NEW X, NEW a \in Seq(X), NEW b \in Seq(X), NEW c \in Seq(X)
    PROVE  (a \o b) \o c = a \o (b \o c)
  BY ConcatAssociative

LEMMA SubSeqIs ==
    ASSUME NEW X, NEW s \in Seq(X), NEW m \in Nat, NEW n \in Nat, m # 0, m - 1 <= n, n <= Len(s)
    PROVE  /\ SubSeq(s, m, n) \in Seq(X)
           /\ Len(SubSeq(s, m, n)) = (n - m) + 1
           /\ \A i \in 1..((n - m) + 1) : SubSeq(s, m, n)[i] = s[(m + i) - 1]
  <1>1. \A i \in m..n : s[i] \in X
    BY ElementOfSeq
  <1>2. m \in Int /\ n \in Int
    OBVIOUS
  <1>3. /\ SubSeq(s, m, n) \in Seq(X)
        /\ Len(SubSeq(s, m, n)) = IF m <= n THEN n - m + 1 ELSE 0
        /\ \A i \in 1..(n - m + 1) : SubSeq(s, m, n)[i] = s[m + i - 1]
    BY <1>1, <1>2, SubSeqProperties
  <1> QED BY <1>3

LEMMA UptoIs ==
    ASSUME NEW X, NEW s \in Seq(X), NEW n \in 0..Len(s)
    PROVE  /\ Upto(s, n) \in Seq(X) /\ Len(Upto(s, n)) = n
           /\ \A i \in 1..n : Upto(s, n)[i] = s[i]
  <1>1. n \in Nat /\ n <= Len(s) /\ 1 \in Nat /\ 1 # 0 /\ 1 - 1 <= n
    OBVIOUS
  <1>2. /\ SubSeq(s, 1, n) \in Seq(X)
        /\ Len(SubSeq(s, 1, n)) = (n - 1) + 1
        /\ \A i \in 1..((n - 1) + 1) : SubSeq(s, 1, n)[i] = s[(1 + i) - 1]
    BY <1>1, SubSeqIs
  <1> QED BY <1>2 DEF Upto

LEMMA BehindIs ==
    ASSUME NEW X, NEW s \in Seq(X), NEW n \in 0..Len(s)
    PROVE  /\ Behind(s, n) \in Seq(X) /\ Len(Behind(s, n)) = Len(s) - n
           /\ \A i \in 1..(Len(s) - n) : Behind(s, n)[i] = s[n + i]
  <1>1. n + 1 \in Nat /\ Len(s) \in Nat /\ n + 1 # 0 /\ (n + 1) - 1 <= Len(s) /\ Len(s) <= Len(s)
    OBVIOUS
  <1>2. /\ SubSeq(s, n + 1, Len(s)) \in Seq(X)
        /\ Len(SubSeq(s, n + 1, Len(s))) = (Len(s) - (n + 1)) + 1
        /\ \A i \in 1..((Len(s) - (n + 1)) + 1) : SubSeq(s, n + 1, Len(s))[i] = s[((n + 1) + i) - 1]
    BY <1>1, SubSeqIs
  <1> QED BY <1>2 DEF Behind

LEMMA CutInTwo ==
    ASSUME NEW X, NEW s \in Seq(X), NEW n \in 0..Len(s)
    PROVE  Upto(s, n) \o Behind(s, n) = s
  <1> DEFINE t == Upto(s, n) \o Behind(s, n)
  <1>1. /\ Upto(s, n) \in Seq(X) /\ Len(Upto(s, n)) = n
        /\ \A i \in 1..n : Upto(s, n)[i] = s[i]
    BY UptoIs
  <1>2. /\ Behind(s, n) \in Seq(X) /\ Len(Behind(s, n)) = Len(s) - n
        /\ \A i \in 1..(Len(s) - n) : Behind(s, n)[i] = s[n + i]
    BY BehindIs
  <1>3. /\ t \in Seq(X) /\ Len(t) = Len(s)
        /\ \A i \in 1..Len(t) : t[i] = IF i <= n THEN Upto(s, n)[i] ELSE Behind(s, n)[i - n]
    BY <1>1, <1>2, ConcatProperties
  <1>4. \A i \in 1..Len(t) : t[i] = s[i]
    BY <1>1, <1>2, <1>3
  <1> HIDE DEF t
  <1>5. t = s
    BY <1>3, <1>4, SeqEqual
  <1> QED BY <1>5 DEF t

LEMMA UptoConcat ==
    ASSUME NEW X, NEW s \in Seq(X), NEW t \in Seq(X), NEW n \in 0..Len(s)
    PROVE  Upto(s \o t, n) = Upto(s, n)
  <1> DEFINE u == s \o t
             a == Upto(u, n)
             b == Upto(s, n)
  <1>1. /\ u \in Seq(X) /\ Len(u) = Len(s) + Len(t)
        /\ \A i \in 1..Len(s) + Len(t) : u[i] = IF i <= Len(s) THEN s[i] ELSE t[i - Len(s)]
    BY ConcatProperties
  <1> HIDE DEF u
  <1>2. n \in 0..Len(u)
    BY <1>1
  <1>3. b \in Seq(X) /\ Len(b) = n /\ \A i \in 1..n : b[i] = s[i]
    BY UptoIs
  <1>4. a \in Seq(X) /\ Len(a) = n /\ \A i \in 1..n : a[i] = u[i]
    BY <1>1, <1>2, UptoIs
  <1> HIDE DEF a, b
  <1>5. \A i \in 1..Len(a) : a[i] = b[i]
    BY <1>1, <1>3, <1>4
  <1>6. a = b
    BY <1>3, <1>4, <1>5, SeqEqual
  <1> QED BY <1>6 DEF a, b, u

LEMMA BehindConcat ==
    ASSUME NEW X, NEW s \in Seq(X), NEW t \in Seq(X), NEW n \in 0..Len(s)
    PROVE  Behind(s \o t, n) = Behind(s, n) \o t
  <1> DEFINE u == s \o t
             a == Behind(u, n)
             c == Behind(s, n)
             b == c \o t
  <1>1. /\ u \in Seq(X) /\ Len(u) = Len(s) + Len(t)
        /\ \A i \in 1..Len(s) + Len(t) : u[i] = IF i <= Len(s) THEN s[i] ELSE t[i - Len(s)]
    BY ConcatProperties
  <1> HIDE DEF u
  <1>2. n \in 0..Len(u)
    BY <1>1
  <1>3. c \in Seq(X) /\ Len(c) = Len(s) - n /\ \A i \in 1..(Len(s) - n) : c[i] = s[n + i]
    BY BehindIs
  <1> HIDE DEF c
  <1>4. a \in Seq(X) /\ Len(a) = Len(u) - n /\ \A i \in 1..(Len(u) - n) : a[i] = u[n + i]
    BY <1>1, <1>2, BehindIs
  <1>5. /\ b \in Seq(X) /\ Len(b) = Len(c) + Len(t)
        /\ \A i \in 1..Len(c) + Len(t) : b[i] = IF i <= Len(c) THEN c[i] ELSE t[i - Len(c)]
    BY <1>3, ConcatProperties
  <1> HIDE DEF a, b
  <1>6. Len(a) = Len(b)
    BY <1>1, <1>3, <1>4, <1>5
  <1>7. \A i \in 1..Len(a) : a[i] = b[i]
    <2> SUFFICES ASSUME NEW i \in 1..Len(a) PROVE a[i] = b[i]
      OBVIOUS
    <2>1. a[i] = u[n + i] /\ n + i \in 1..Len(s) + Len(t)
      BY <1>1, <1>4
    <2>2. CASE i <= Len(c)
      <3>1. n + i <= Len(s) /\ i \in 1..(Len(s) - n)
        BY <1>3, <2>2
      <3> QED BY <1>1, <1>3, <1>5, <1>6, <2>1, <2>2, <3>1
    <2>3. CASE i > Len(c)
      <3>1. n + i > Len(s) /\ (n + i) - Len(s) = i - Len(c)
        BY <1>3, <2>3
      <3> QED BY <1>1, <1>5, <1>6, <2>1, <2>3, <3>1, SMTT(30)
    <2> QED BY <1>3, <2>2, <2>3
  <1>8. a = b
    BY <1>4, <1>5, <1>6, <1>7, SeqEqual
  <1> QED BY <1>8 DEF a, b, c, u

LEMMA BehindZero ==
    ASSUME NEW X, NEW s \in Seq(X)
    PROVE  Behind(s, 0) = s /\ Upto(s, Len(s)) = s /\ Behind(s, Len(s)) = <<>> /\ Upto(s, 0) = <<>>
  <1>1. Behind(s, 0) = s /\ Upto(s, Len(s)) = s
    BY SubSeqFull DEF Behind, Upto
  <1>2. Behind(s, Len(s)) = <<>> /\ Upto(s, 0) = <<>>
    BY SubSeqEmpty DEF Behind, Upto
  <1> QED BY <1>1, <1>2

LEMMA BehindPrefix ==
    ASSUME NEW X, NEW s \in Seq(X), NEW t \in Seq(X)
    PROVE  Behind(s \o t, Len(s)) = t /\ Upto(s \o t, Len(s)) = s
  <1>1. Len(s) \in 0..Len(s)
    OBVIOUS
  <1>2. Behind(s \o t, Len(s)) = Behind(s, Len(s)) \o t /\ Upto(s \o t, Len(s)) = Upto(s, Len(s))
    BY <1>1, BehindConcat, UptoConcat
  <1>3. Behind(s, Len(s)) = <<>> /\ Upto(s, Len(s)) = s
    BY BehindZero
  <1>4. <<>> \o t = t
    BY ConcatEmptySeq
  <1> QED BY <1>2, <1>3, <1>4

\* What is before and behind two cuts.
LEMMA ThreeParts ==
    ASSUME NEW X, NEW s \in Seq(X), NEW m \in Nat, NEW n \in Nat, m <= n, n <= Len(s)
    PROVE  /\ Upto(s, n) = Upto(s, m) \o SubSeq(s, m + 1, n)
           /\ SubSeq(s, m + 1, n) \in Seq(X) /\ Len(SubSeq(s, m + 1, n)) = n - m
           /\ \A i \in 1..(n - m) : SubSeq(s, m + 1, n)[i] = s[m + i]
  <1>1. 1 \in 1..Len(s) + 1 /\ m \in 1 - 1..Len(s) /\ n \in m..Len(s)
    OBVIOUS
  <1>2. SubSeq(s, 1, m) \o SubSeq(s, m + 1, n) = SubSeq(s, 1, n)
    BY <1>1, ConcatAdjacentSubSeq, Zenon
  <1>3. m + 1 \in Nat /\ m + 1 # 0 /\ (m + 1) - 1 <= n
    OBVIOUS
  <1>4. /\ SubSeq(s, m + 1, n) \in Seq(X)
        /\ Len(SubSeq(s, m + 1, n)) = (n - (m + 1)) + 1
        /\ \A i \in 1..((n - (m + 1)) + 1) : SubSeq(s, m + 1, n)[i] = s[((m + 1) + i) - 1]
    BY <1>3, SubSeqIs
  <1> QED BY <1>2, <1>4 DEF Upto

LEMMA SubSeqJoin ==
    ASSUME NEW X, NEW s \in Seq(X), NEW k \in Nat, NEW m \in Nat, NEW n \in Nat,
           k <= m, m <= n, n <= Len(s)
    PROVE  SubSeq(s, k + 1, n) = SubSeq(s, k + 1, m) \o SubSeq(s, m + 1, n)
  <1>1. k + 1 \in 1..Len(s) + 1 /\ m \in (k + 1) - 1..Len(s) /\ n \in m..Len(s)
    OBVIOUS
  <1> QED BY <1>1, ConcatAdjacentSubSeq, Zenon

---------------------------------------------------------------------------
(* FlattenSeq                                                               *)

\* f joins the first i members of ss.
Joins(f, ss) ==
    f = [i \in 1..Len(ss) |-> IF i = 1 THEN ss[i] ELSE f[i - 1] \o ss[i]]

LEMMA JoinsExists ==
    ASSUME NEW X, NEW ss \in Seq(Seq(X))
    PROVE  \E f \in [1..Len(ss) -> Seq(X)] : Joins(f, ss)
  <1> DEFINE D == 0..Len(ss)
             S == Seq(X)
             F == [p \in D \X S |-> IF p[1] = 0 THEN p[2] ELSE p[2] \o ss[p[1]]]
  <1>1. Initial(D) /\ <<>> \in S
    BY DEF Initial
  <1>2. F \in [D \X S -> S]
    <2> SUFFICES ASSUME NEW p \in D \X S PROVE (IF p[1] = 0 THEN p[2] ELSE p[2] \o ss[p[1]]) \in S
      OBVIOUS
    <2>1. p[1] # 0 => ss[p[1]] \in Seq(X)
      BY ElementOfSeq
    <2> QED BY <2>1
  <1>3. PICK g : Recursive(g, D, S, <<>>, F)
    <2> HIDE DEF D, S, F
    <2> QED BY <1>1, <1>2, Recursion
  <1>4. /\ \A i \in 0..Len(ss) : g[i] \in Seq(X)
        /\ g[0] = <<>>
        /\ \A i \in 1..Len(ss) : g[i] = F[<<i, g[i - 1]>>]
    <2> HIDE DEF F
    <2>1. \A i \in 1..Len(ss) : i \in D /\ i # 0
      OBVIOUS
    <2>2. 0 \in D
      OBVIOUS
    <2> QED BY <1>3, <2>1, <2>2 DEF Recursive
  <1>5. ASSUME NEW i \in 1..Len(ss)
        PROVE  g[i] = g[i - 1] \o ss[i] /\ i - 1 \in 0..Len(ss)
    <2>1. <<i, g[i - 1]>> \in D \X S /\ i # 0
      BY <1>4
    <2>2. F[<<i, g[i - 1]>>] = g[i - 1] \o ss[i]
      BY <2>1
    <2>3. i - 1 \in 0..Len(ss)
      OBVIOUS
    <2> HIDE DEF F
    <2> QED BY <1>4, <2>2, <2>3
  <1> DEFINE f == [i \in 1..Len(ss) |-> g[i]]
  <1>6. f \in [1..Len(ss) -> Seq(X)]
    BY <1>4
  <1>7. ASSUME NEW i \in 1..Len(ss)
        PROVE  f[i] = IF i = 1 THEN ss[i] ELSE f[i - 1] \o ss[i]
    <2>1. CASE i = 1
      <3>1. g[i] = <<>> \o ss[i] /\ ss[i] \in Seq(X)
        <4>1. i - 1 = 0 /\ ss[i] \in Seq(X)
          BY <2>1, ElementOfSeq
        <4> QED BY <1>4, <1>5, <4>1
      <3>2. g[i] = ss[i]
        BY <3>1, ConcatEmptySeq
      <3> QED BY <2>1, <3>2
    <2>2. CASE i # 1
      <3>1. i - 1 \in 1..Len(ss)
        BY <2>2
      <3> QED BY <1>5, <2>2, <3>1
    <2> QED BY <2>1, <2>2
  <1>8. Joins(f, ss)
    BY <1>6, <1>7 DEF Joins
  <1> QED BY <1>6, <1>8

LEMMA FlattenIs ==
    ASSUME NEW X, NEW ss \in Seq(Seq(X)), ss # <<>>
    PROVE  \E f : Joins(f, ss) /\ FlattenSeq(ss) = f[Len(ss)]
  <1>1. Len(ss) # 0
    OBVIOUS
  <1>2. \E f : Joins(f, ss)
    BY JoinsExists
  <1> DEFINE h == CHOOSE f : Joins(f, ss)
  <1>3. Joins(h, ss)
    BY <1>2
  <1>4. FlattenSeq(ss) = h[Len(ss)]
    BY <1>1 DEF FlattenSeq, Joins
  <1> QED BY <1>3, <1>4

LEMMA JoinsTyped ==
    ASSUME NEW X, NEW ss \in Seq(Seq(X)), NEW f, Joins(f, ss)
    PROVE  \A i \in 1..Len(ss) : f[i] \in Seq(X)
  <1> DEFINE T == {n \in Nat : n + 1 \in 1..Len(ss) => f[n + 1] \in Seq(X)}
  <1>0. \A i \in 1..Len(ss) : f[i] = IF i = 1 THEN ss[i] ELSE f[i - 1] \o ss[i]
    BY DEF Joins
  <1>1. 0 \in T
    <2>1. 0 + 1 = 1
      OBVIOUS
    <2>2. 1 \in 1..Len(ss) => f[1] \in Seq(X)
      BY <1>0, ElementOfSeq
    <2> QED BY <2>1, <2>2
  <1>2. ASSUME NEW n \in Nat, n \in T PROVE n + 1 \in T
    <2> SUFFICES ASSUME (n + 1) + 1 \in 1..Len(ss) PROVE f[(n + 1) + 1] \in Seq(X)
      OBVIOUS
    <2>1. n + 1 \in 1..Len(ss) /\ (n + 1) + 1 # 1 /\ ((n + 1) + 1) - 1 = n + 1
      OBVIOUS
    <2>2. f[n + 1] \in Seq(X) /\ ss[(n + 1) + 1] \in Seq(X)
      BY <1>2, <2>1, ElementOfSeq
    <2>3. f[(n + 1) + 1] = f[n + 1] \o ss[(n + 1) + 1]
      BY <1>0, <2>1
    <2> QED BY <2>2, <2>3
  <1>3. \A n \in Nat : n \in T
    <2> HIDE DEF T
    <2> QED BY <1>1, <1>2, Induction
  <1> SUFFICES ASSUME NEW i \in 1..Len(ss) PROVE f[i] \in Seq(X)
    OBVIOUS
  <1>4. i - 1 \in Nat /\ (i - 1) + 1 = i
    OBVIOUS
  <1> QED BY <1>3, <1>4

LEMMA FlattenTyped ==
    ASSUME NEW X, NEW ss \in Seq(Seq(X))
    PROVE  FlattenSeq(ss) \in Seq(X)
  <1>1. CASE ss = <<>>
    BY <1>1 DEF FlattenSeq
  <1>2. CASE ss # <<>>
    <2>1. PICK f : Joins(f, ss) /\ FlattenSeq(ss) = f[Len(ss)]
      BY <1>2, FlattenIs
    <2>2. Len(ss) \in 1..Len(ss)
      BY <1>2
    <2> QED BY <2>1, <2>2, JoinsTyped
  <1> QED BY <1>1, <1>2

LEMMA FlattenEmpty == FlattenSeq(<<>>) = <<>>
  BY DEF FlattenSeq

LEMMA FlattenAppend ==
    ASSUME NEW X, NEW ss \in Seq(Seq(X)), NEW s \in Seq(X)
    PROVE  FlattenSeq(Append(ss, s)) = FlattenSeq(ss) \o s
  <1> DEFINE tt == Append(ss, s)
  <1>1. /\ tt \in Seq(Seq(X)) /\ tt # <<>> /\ Len(tt) = Len(ss) + 1
        /\ \A i \in 1..Len(ss) : tt[i] = ss[i]
        /\ tt[Len(ss) + 1] = s
    BY AppendProperties
  <1> HIDE DEF tt
  <1>2. PICK f : Joins(f, tt) /\ FlattenSeq(tt) = f[Len(tt)]
    BY <1>1, FlattenIs
  <1>3. \A i \in 1..Len(tt) : f[i] = IF i = 1 THEN tt[i] ELSE f[i - 1] \o tt[i]
    BY <1>2 DEF Joins
  <1>4. CASE ss = <<>>
    <2>1. Len(ss) = 0 /\ Len(tt) = 1 /\ 1 \in 1..Len(tt)
      BY <1>1, <1>4
    <2>2. FlattenSeq(tt) = s
      BY <1>1, <1>2, <1>3, <2>1
    <2>3. FlattenSeq(ss) = <<>> /\ <<>> \o s = s
      BY <1>4, FlattenEmpty, ConcatEmptySeq
    <2> QED BY <2>2, <2>3 DEF tt
  <1>5. CASE ss # <<>>
    <2>1. PICK g : Joins(g, ss) /\ FlattenSeq(ss) = g[Len(ss)]
      BY <1>5, FlattenIs
    <2>2. \A i \in 1..Len(ss) : g[i] = IF i = 1 THEN ss[i] ELSE g[i - 1] \o ss[i]
      BY <2>1 DEF Joins
    <2> DEFINE T == {n \in Nat : n + 1 \in 1..Len(ss) => f[n + 1] = g[n + 1]}
    <2>3. 0 \in T
      <3>1. 1 \in 1..Len(ss) => f[1] = g[1]
        BY <1>1, <1>3, <2>2
      <3> QED BY <3>1
    <2>4. ASSUME NEW n \in Nat, n \in T PROVE n + 1 \in T
      <3> SUFFICES ASSUME (n + 1) + 1 \in 1..Len(ss) PROVE f[(n + 1) + 1] = g[(n + 1) + 1]
        OBVIOUS
      <3>1. /\ n + 1 \in 1..Len(ss) /\ (n + 1) + 1 # 1 /\ ((n + 1) + 1) - 1 = n + 1
            /\ (n + 1) + 1 \in 1..Len(tt)
        BY <1>1
      <3>2. f[(n + 1) + 1] = f[n + 1] \o tt[(n + 1) + 1] /\ g[(n + 1) + 1] = g[n + 1] \o ss[(n + 1) + 1]
        BY <1>3, <2>2, <3>1
      <3> QED BY <1>1, <2>4, <3>1, <3>2
    <2>5. \A n \in Nat : n \in T
      <3> HIDE DEF T
      <3> QED BY <2>3, <2>4, Induction
    <2>6. /\ Len(ss) - 1 \in Nat /\ (Len(ss) - 1) + 1 = Len(ss) /\ Len(ss) \in 1..Len(ss)
          /\ Len(tt) # 1 /\ Len(tt) - 1 = Len(ss) /\ Len(tt) \in 1..Len(tt)
      BY <1>1, <1>5
    <2>7. f[Len(ss)] = g[Len(ss)]
      BY <2>5, <2>6
    <2>8. f[Len(tt)] = f[Len(ss)] \o tt[Len(tt)]
      BY <1>3, <2>6
    <2>9. tt[Len(tt)] = s
      BY <1>1
    <2> QED BY <1>2, <2>1, <2>7, <2>8, <2>9 DEF tt
  <1> QED BY <1>4, <1>5

---------------------------------------------------------------------------
(***************************************************************************)
(* Unpad, the loop of unpad_client_chunk and of the server's reader: one   *)
(* turn of it (UnpadTurn) either waits for more bytes, stops, or takes     *)
(* exactly one frame from the buffer (AfterFrame).                         *)
(***************************************************************************)
LEMMA FlattenConcat ==
    ASSUME NEW X, NEW ss \in Seq(Seq(X)), NEW tt \in Seq(Seq(X))
    PROVE  FlattenSeq(ss \o tt) = FlattenSeq(ss) \o FlattenSeq(tt)
  <1> DEFINE T == {n \in Nat : \A uu \in Seq(Seq(X)) : Len(uu) = n =>
                                  FlattenSeq(ss \o uu) = FlattenSeq(ss) \o FlattenSeq(uu)}
  <1>1. 0 \in T
    <2> SUFFICES ASSUME NEW uu \in Seq(Seq(X)), Len(uu) = 0
                 PROVE  FlattenSeq(ss \o uu) = FlattenSeq(ss) \o FlattenSeq(uu)
      OBVIOUS
    <2>1. uu = <<>>
      BY EmptySeq
    <2>2. FlattenSeq(ss) \in Seq(X)
      BY FlattenTyped
    <2>3. ss \o uu = ss /\ FlattenSeq(ss) \o <<>> = FlattenSeq(ss) /\ FlattenSeq(uu) = <<>>
      BY <2>1, <2>2, ConcatEmptySeq, FlattenEmpty
    <2> QED BY <2>3
  <1>2. ASSUME NEW n \in Nat, n \in T PROVE n + 1 \in T
    <2> SUFFICES ASSUME NEW uu \in Seq(Seq(X)), Len(uu) = n + 1
                 PROVE  FlattenSeq(ss \o uu) = FlattenSeq(ss) \o FlattenSeq(uu)
      OBVIOUS
    <2>1. PICK vv \in Seq(Seq(X)), e \in Seq(X) : uu = Append(vv, e)
      <3>1. uu # <<>>
        OBVIOUS
      <3> QED BY <3>1, SequenceEmptyOrAppend
    <2>2. Len(vv) = n
      BY <2>1
    <2>3. FlattenSeq(ss \o vv) = FlattenSeq(ss) \o FlattenSeq(vv)
      BY <1>2, <2>2
    <2>4. ss \o uu = Append(ss \o vv, e) /\ ss \o vv \in Seq(Seq(X))
      <3>1. uu = vv \o <<e>> /\ <<e>> \in Seq(Seq(X))
        BY <2>1, AppendIsConcat
      <3>2. ss \o uu = (ss \o vv) \o <<e>> /\ ss \o vv \in Seq(Seq(X))
        BY <3>1, ConcatAssoc
      <3> QED BY <3>2, AppendIsConcat
    <2>5. FlattenSeq(ss \o uu) = FlattenSeq(ss \o vv) \o e /\ FlattenSeq(uu) = FlattenSeq(vv) \o e
      BY <2>1, <2>4, FlattenAppend
    <2>6. FlattenSeq(ss) \in Seq(X) /\ FlattenSeq(vv) \in Seq(X)
      BY FlattenTyped
    <2>7. (FlattenSeq(ss) \o FlattenSeq(vv)) \o e = FlattenSeq(ss) \o (FlattenSeq(vv) \o e)
      <3>1. \A a, b, c \in Seq(X) : (a \o b) \o c = a \o (b \o c)
        BY SMTT(30)
      <3> QED BY <2>6, <3>1
    <2> QED BY <2>3, <2>5, <2>7
  <1>3. \A n \in Nat : n \in T
    <2> HIDE DEF T
    <2> QED BY <1>1, <1>2, Induction
  <1> QED BY <1>3

---------------------------------------------------------------------------
(* Unpadding                                                                *)

Unpadders == [expectUuid : BOOLEAN, done : BOOLEAN, direct : BOOLEAN, failed : BOOLEAN]
Readings == [u : Unpadders, buf : Seq(Nat), out : Seq(Nat)]

\* The bytes in front of a frame's header, and where its padding ends.
Lead(r) == IF r.u.expectUuid THEN UuidLen ELSE 0
FrameEnd(r) == Lead(r) + 3 + r.buf[Lead(r) + 2] + r.buf[Lead(r) + 3]
WholeFrame(r) == Lead(r) + 3 <= Len(r.buf) /\ FrameEnd(r) <= Len(r.buf)
Between(r) == ~r.u.failed /\ ~r.u.done

AfterFrame(r) ==
    LET command == r.buf[Lead(r) + 1]
    IN  [u   |-> [expectUuid |-> FALSE, done |-> command \in {1, 2},
                  direct |-> command = 2, failed |-> command \notin 0..2],
         buf |-> Behind(r.buf, FrameEnd(r)),
         out |-> r.out \o SubSeq(r.buf, Lead(r) + 4, Lead(r) + 3 + r.buf[Lead(r) + 2])]

LEMMA LeadNat ==
    ASSUME NEW r \in Readings
    PROVE  /\ Lead(r) \in Nat /\ Len(r.buf) \in Nat
           /\ Lead(r) + 3 <= Len(r.buf) =>
                 /\ \A i \in 1..3 : r.buf[Lead(r) + i] \in Nat
                 /\ FrameEnd(r) \in Nat /\ FrameEnd(r) >= Lead(r) + 3 + r.buf[Lead(r) + 2]
                 /\ FrameEnd(r) >= 3
  <1>1. Lead(r) \in Nat /\ Len(r.buf) \in Nat /\ r.buf \in Seq(Nat)
    BY SizesAssumption DEF Lead, Readings
  <1>2. ASSUME Lead(r) + 3 <= Len(r.buf) PROVE \A i \in 1..3 : r.buf[Lead(r) + i] \in Nat
    <2> SUFFICES ASSUME NEW i \in 1..3 PROVE r.buf[Lead(r) + i] \in Nat
      OBVIOUS
    <2>1. Lead(r) + i \in 1..Len(r.buf)
      BY <1>1, <1>2
    <2> QED BY <1>1, <2>1, ElementOfSeq
  <1>3. ASSUME Lead(r) + 3 <= Len(r.buf)
        PROVE  /\ FrameEnd(r) \in Nat /\ FrameEnd(r) >= Lead(r) + 3 + r.buf[Lead(r) + 2]
               /\ FrameEnd(r) >= 3
    <2>1. r.buf[Lead(r) + 2] \in Nat /\ r.buf[Lead(r) + 3] \in Nat
      BY <1>2, <1>3
    <2>2. PICK l \in Nat, x \in Nat, y \in Nat :
                 l = Lead(r) /\ x = r.buf[Lead(r) + 2] /\ y = r.buf[Lead(r) + 3]
      BY <1>1, <2>1
    <2>3. FrameEnd(r) = l + 3 + x + y
      BY <2>2 DEF FrameEnd
    <2> QED BY <2>2, <2>3
  <1> QED BY <1>1, <1>2, <1>3

LEMMA TurnFailed ==
    ASSUME NEW r \in Readings, r.u.failed
    PROVE  UnpadTurn(r) = r
  BY DEF UnpadTurn

LEMMA TurnDone ==
    ASSUME NEW r \in Readings, ~r.u.failed, r.u.done
    PROVE  UnpadTurn(r) = [u |-> r.u, buf |-> <<>>, out |-> r.out \o r.buf]
  BY DEF UnpadTurn, PassedOn, Readings

LEMMA TurnWaits ==
    ASSUME NEW r \in Readings, Between(r), ~WholeFrame(r)
    PROVE  UnpadTurn(r) = r
  BY LeadNat, SMTT(30) DEF UnpadTurn, Between, WholeFrame, FrameEnd, Lead, HeaderLen

LEMMA TurnFrame ==
    ASSUME NEW r \in Readings, Between(r), WholeFrame(r)
    PROVE  UnpadTurn(r) = AfterFrame(r)
  <1> DEFINE at == IF r.u.expectUuid THEN UuidLen ELSE 0
             data == at + HeaderLen
             content == r.buf[at + 2]
             total == data + content + r.buf[at + 3]
  <1>1. /\ Lead(r) \in Nat /\ \A i \in 1..3 : r.buf[Lead(r) + i] \in Nat
        /\ Lead(r) + 3 <= Len(r.buf) /\ FrameEnd(r) <= Len(r.buf) /\ Len(r.buf) \in Nat
        /\ FrameEnd(r) \in Nat
    BY LeadNat DEF WholeFrame
  <1>2. at = Lead(r) /\ data = Lead(r) + 3 /\ content = r.buf[Lead(r) + 2]
    BY DEF Lead, HeaderLen
  <1>3. total = FrameEnd(r)
    BY <1>2 DEF FrameEnd
  <1>4. ~(Len(r.buf) < data \/ Len(r.buf) < total)
    BY <1>1, <1>2, <1>3
  <1>5. UnpadTurn(r) = [u   |-> [expectUuid |-> FALSE, done |-> r.buf[at + 1] \in {1, 2},
                                 direct |-> r.buf[at + 1] = 2, failed |-> r.buf[at + 1] \notin 0..2],
                        buf |-> SubSeq(r.buf, total + 1, Len(r.buf)),
                        out |-> r.out \o SubSeq(r.buf, data + 1, data + content)]
    BY <1>4 DEF UnpadTurn, Between
  <1>6. data + 1 = Lead(r) + 4
    BY <1>1, <1>2
  <1> HIDE DEF at, data, content, total
  <1> QED BY <1>2, <1>3, <1>5, <1>6 DEF AfterFrame, Behind

---------------------------------------------------------------------------
(***************************************************************************)
(* What the loop comes to: the reading that no further turn changes        *)
(* (Final).                                                                *)
(***************************************************************************)
LEMMA FrameTyped ==
    ASSUME NEW r \in Readings, Between(r), WholeFrame(r)
    PROVE  /\ AfterFrame(r) \in Readings
           /\ Len(AfterFrame(r).buf) = Len(r.buf) - FrameEnd(r)
           /\ FrameEnd(r) \in Nat /\ FrameEnd(r) >= 3
  <1>1. /\ Lead(r) \in Nat /\ \A i \in 1..3 : r.buf[Lead(r) + i] \in Nat
        /\ Lead(r) + 3 <= Len(r.buf) /\ FrameEnd(r) <= Len(r.buf) /\ Len(r.buf) \in Nat
        /\ FrameEnd(r) \in Nat /\ FrameEnd(r) >= 3
        /\ FrameEnd(r) >= Lead(r) + 3 + r.buf[Lead(r) + 2]
    BY LeadNat DEF WholeFrame
  <1>2. PICK l \in Nat, c \in Nat, e \in Nat, k \in Nat :
              l = Lead(r) /\ c = r.buf[Lead(r) + 2] /\ e = FrameEnd(r) /\ k = Len(r.buf)
    BY <1>1
  <1>3. r.buf \in Seq(Nat) /\ r.out \in Seq(Nat)
    BY DEF Readings
  <1>4. FrameEnd(r) \in 0..Len(r.buf)
    BY <1>1
  <1>5. Behind(r.buf, FrameEnd(r)) \in Seq(Nat) /\ Len(Behind(r.buf, FrameEnd(r))) = Len(r.buf) - FrameEnd(r)
    BY <1>3, <1>4, BehindIs
  <1>6. SubSeq(r.buf, l + 4, l + 3 + c) \in Seq(Nat)
    <2>0. e <= k /\ e >= l + 3 + c
      BY <1>1, <1>2
    <2>1. l + 3 + c >= l + 3 /\ l + 3 + c <= k /\ l + 3 + c \in Nat /\ l + 4 \in Nat
      BY <1>2, <2>0, SMTT(30)
    <2>2. l + 4 # 0 /\ (l + 4) - 1 <= l + 3 + c
      BY <1>2
    <2> QED BY <1>2, <1>3, <2>1, <2>2, SubSeqIs
  <1>7. r.out \o SubSeq(r.buf, l + 4, l + 3 + c) \in Seq(Nat)
    BY <1>3, <1>6
  <1>8. /\ AfterFrame(r).u \in Unpadders
        /\ AfterFrame(r) = [u |-> AfterFrame(r).u, buf |-> Behind(r.buf, FrameEnd(r)),
                            out |-> r.out \o SubSeq(r.buf, l + 4, l + 3 + c)]
    BY <1>2 DEF AfterFrame, Unpadders
  <1>9. AfterFrame(r) \in Readings /\ AfterFrame(r).buf = Behind(r.buf, FrameEnd(r))
    <2> DEFINE v == AfterFrame(r).u
               b == Behind(r.buf, FrameEnd(r))
               o == r.out \o SubSeq(r.buf, l + 4, l + 3 + c)
    <2>1. AfterFrame(r) = [u |-> v, buf |-> b, out |-> o]
      BY <1>8
    <2>2. v \in Unpadders /\ b \in Seq(Nat) /\ o \in Seq(Nat)
      BY <1>5, <1>7, <1>8
    <2> HIDE DEF v, b, o
    <2>3. AfterFrame(r) \in Readings /\ AfterFrame(r).buf = b
      BY <2>1, <2>2 DEF Readings
    <2> QED BY <2>3 DEF b
  <1> QED BY <1>1, <1>5, <1>9

LEMMA TurnTyped ==
    ASSUME NEW r \in Readings
    PROVE  /\ UnpadTurn(r) \in Readings
           /\ UnpadTurn(r) # r => Len(UnpadTurn(r).buf) < Len(r.buf)
  <1>1. CASE r.u.failed
    BY <1>1, TurnFailed
  <1>2. CASE ~r.u.failed /\ r.u.done
    <2>1. UnpadTurn(r) = [u |-> r.u, buf |-> <<>>, out |-> r.out \o r.buf]
      BY <1>2, TurnDone
    <2>2. UnpadTurn(r) \in Readings
      BY <2>1 DEF Readings
    <2>3. CASE r.buf = <<>>
      <3>1. r.out \o r.buf = r.out
        BY <2>3, ConcatEmptySeq DEF Readings
      <3>2. UnpadTurn(r) = r
        BY <2>1, <2>3, <3>1 DEF Readings
      <3> QED BY <2>2, <3>2
    <2>4. CASE r.buf # <<>>
      <3>1. Len(r.buf) > 0 /\ Len(UnpadTurn(r).buf) = 0
        BY <2>1, <2>4 DEF Readings
      <3> QED BY <2>2, <3>1
    <2> QED BY <2>3, <2>4
  <1>3. CASE Between(r) /\ ~WholeFrame(r)
    BY <1>3, TurnWaits
  <1>4. CASE Between(r) /\ WholeFrame(r)
    <2>1. UnpadTurn(r) = AfterFrame(r)
      BY <1>4, TurnFrame
    <2>2. Len(r.buf) \in Nat
      BY DEF Readings
    <2> QED BY <1>4, <2>1, <2>2, FrameTyped
  <1> QED BY <1>1, <1>2, <1>3, <1>4 DEF Between

\* How much input is left.
Left(r) == Len(r.buf)

LEMMA LeftNat == \A r \in Readings : Left(r) \in Nat
  BY DEF Left, Readings

LEMMA TurnLeft ==
    ASSUME NEW r \in Readings, UnpadTurn(r) # r
    PROVE  Left(UnpadTurn(r)) < Left(r)
  BY TurnTyped DEF Left

Turns(g, r) ==
    g \in [Nat -> Readings] /\ g[0] = r /\ \A n \in Nat : g[n + 1] = UnpadTurn(g[n])

Final(r) == (CHOOSE g : Turns(g, r))[Left(r) + 1]

LEMMA TurnsExist ==
    ASSUME NEW r \in Readings
    PROVE  \E g : Turns(g, r)
  <1> DEFINE F == [p \in Nat \X Readings |-> UnpadTurn(p[2])]
  <1>1. F \in [Nat \X Readings -> Readings]
    BY TurnTyped
  <1>2. PICK g : Recursive(g, Nat, Readings, r, F)
    <2> HIDE DEF F
    <2> QED BY <1>1, NatRecursion
  <1>3. g \in [Nat -> Readings] /\ g[0] = r
    BY <1>2 DEF Recursive
  <1>4. ASSUME NEW n \in Nat PROVE g[n + 1] = UnpadTurn(g[n])
    <2>1. n + 1 \in Nat /\ n + 1 # 0 /\ (n + 1) - 1 = n
      OBVIOUS
    <2>2. g[n + 1] = F[<<n + 1, g[n]>>]
      <3> HIDE DEF F
      <3> QED BY <1>2, <2>1 DEF Recursive
    <2>3. F[<<n + 1, g[n]>>] = UnpadTurn(g[n])
      BY <1>3, <2>1
    <2> QED BY <2>2, <2>3
  <1>5. Turns(g, r)
    BY <1>3, <1>4 DEF Turns
  <1> QED BY <1>5

LEMMA TurnsUnique ==
    ASSUME NEW r, NEW g, NEW h, Turns(g, r), Turns(h, r)
    PROVE  \A n \in Nat : g[n] = h[n]
  <1> DEFINE T == {n \in Nat : g[n] = h[n]}
  <1>1. 0 \in T
    BY DEF Turns
  <1>2. ASSUME NEW n \in Nat, n \in T PROVE n + 1 \in T
    BY <1>2 DEF Turns
  <1>3. \A n \in Nat : n \in T
    <2> HIDE DEF T
    <2> QED BY <1>1, <1>2, Induction
  <1> QED BY <1>3

LEMMA FinalIs ==
    ASSUME NEW r \in Readings, NEW g, Turns(g, r)
    PROVE  Final(r) = g[Left(r) + 1]
  <1>1. Turns(CHOOSE h : Turns(h, r), r)
    OBVIOUS
  <1>2. Left(r) + 1 \in Nat
    BY LeftNat
  <1> QED BY <1>1, <1>2, TurnsUnique DEF Final

LEMMA UnpadIsFinal ==
    ASSUME NEW u \in Unpadders, NEW buf \in Seq(Nat)
    PROVE  Unpad(u, buf) = Final([u |-> u, buf |-> buf, out |-> <<>>])
  <1> DEFINE r == [u |-> u, buf |-> buf, out |-> <<>>]
             Good(f) == f = [k \in Nat |-> IF k = 0 THEN r ELSE UnpadTurn(f[k - 1])]
             h == CHOOSE f : Good(f)
  <1>1. r \in Readings /\ Len(r.buf) = Len(buf) /\ Len(buf) + 1 \in Nat
    BY DEF Readings
  <1>2. PICK g : Turns(g, r)
    <2> HIDE DEF r
    <2> QED BY <1>1, TurnsExist
  <1> HIDE DEF r
  <1>3. Good(g)
    <2>1. \A k \in Nat : g[k] = IF k = 0 THEN r ELSE UnpadTurn(g[k - 1])
      <3> SUFFICES ASSUME NEW k \in Nat PROVE g[k] = IF k = 0 THEN r ELSE UnpadTurn(g[k - 1])
        OBVIOUS
      <3>1. CASE k = 0
        BY <1>2, <3>1 DEF Turns
      <3>2. CASE k # 0
        <4>1. k - 1 \in Nat /\ (k - 1) + 1 = k
          BY <3>2
        <4>2. g[(k - 1) + 1] = UnpadTurn(g[k - 1])
          BY <1>2, <4>1 DEF Turns
        <4> QED BY <3>2, <4>1, <4>2
      <3> QED BY <3>1, <3>2
    <2>2. g \in [Nat -> Readings]
      BY <1>2 DEF Turns
    <2> QED BY <2>1, <2>2
  <1>4. Good(h)
    BY <1>3
  <1>5. Unpad(u, buf) = h[Len(buf) + 1]
    BY DEF Unpad, r
  <1> HIDE DEF h
  <1> DEFINE T == {n \in Nat : h[n] = g[n]}
  <1>6. 0 \in T
    BY <1>2, <1>4 DEF Turns
  <1>7. ASSUME NEW n \in Nat, n \in T PROVE n + 1 \in T
    <2>1. n + 1 \in Nat /\ n + 1 # 0 /\ (n + 1) - 1 = n
      OBVIOUS
    <2>2. h[n + 1] = UnpadTurn(h[n])
      BY <1>4, <2>1
    <2>3. g[n + 1] = UnpadTurn(g[n])
      BY <1>2 DEF Turns
    <2> QED BY <1>7, <2>1, <2>2, <2>3
  <1>8. \A n \in Nat : n \in T
    <2> HIDE DEF T
    <2> QED BY <1>6, <1>7, Induction
  <1>9. Final(r) = g[Len(buf) + 1]
    BY <1>1, <1>2, FinalIs DEF Left
  <1> QED BY <1>1, <1>5, <1>8, <1>9 DEF r

\* Enough turns are taken: another one changes nothing.
LEMMA FinalStuck ==
    ASSUME NEW r \in Readings
    PROVE  Final(r) \in Readings /\ UnpadTurn(Final(r)) = Final(r)
  <1>1. PICK g : Turns(g, r)
    BY TurnsExist
  <1> DEFINE T == {n \in Nat : UnpadTurn(g[n]) = g[n] \/ Left(g[n]) + n <= Left(r)}
  <1>0. \A q \in Readings : Left(q) \in Nat
    BY LeftNat
  <1>2. \A n \in Nat : g[n] \in Readings /\ g[n + 1] = UnpadTurn(g[n])
    BY <1>1 DEF Turns
  <1>3. 0 \in T
    <2>1. g[0] = r /\ Left(r) \in Nat
      BY <1>0, <1>1 DEF Turns
    <2> QED BY <2>1
  <1>4. ASSUME NEW n \in Nat, n \in T PROVE n + 1 \in T
    <2>1. CASE UnpadTurn(g[n]) = g[n]
      BY <1>2, <2>1
    <2>2. CASE UnpadTurn(g[n]) # g[n]
      <3>1. Left(g[n + 1]) < Left(g[n])
        BY <1>2, <2>2, TurnLeft
      <3>2. Left(g[n]) + n <= Left(r)
        BY <1>4, <2>2
      <3>3. PICK a \in Nat, b \in Nat, c \in Nat :
                  a = Left(g[n]) /\ b = Left(g[n + 1]) /\ c = Left(r)
        <4>1. g[n] \in Readings /\ g[n + 1] \in Readings
          BY <1>2
        <4> QED BY <1>0, <4>1
      <3>4. b + (n + 1) <= c
        BY <3>1, <3>2, <3>3
      <3> QED BY <3>3, <3>4
    <2> QED BY <2>1, <2>2
  <1>5. \A n \in Nat : n \in T
    <2> HIDE DEF T
    <2> QED BY <1>3, <1>4, Induction
  <1>6. Left(r) + 1 \in Nat /\ Left(r) \in Nat
    BY LeftNat
  <1>7. Final(r) = g[Left(r) + 1]
    BY <1>1, FinalIs
  <1>8. PICK m \in Nat : m = Left(r) + 1
    BY <1>6
  <1>9. UnpadTurn(g[m]) = g[m] \/ Left(g[m]) + m <= Left(r)
    BY <1>5
  <1>10. g[m] \in Readings /\ Left(g[m]) \in Nat
    BY <1>0, <1>2
  <1>11. UnpadTurn(g[m]) = g[m]
    BY <1>6, <1>8, <1>9, <1>10
  <1> QED BY <1>7, <1>8, <1>10, <1>11

\* Final as a recursion on the input's length.
LEMMA FinalSame ==
    ASSUME NEW r \in Readings, UnpadTurn(r) = r
    PROVE  Final(r) = r
  <1>1. PICK g : Turns(g, r)
    BY TurnsExist
  <1> DEFINE T == {n \in Nat : g[n] = r}
  <1>2. 0 \in T
    BY <1>1 DEF Turns
  <1>3. ASSUME NEW n \in Nat, n \in T PROVE n + 1 \in T
    BY <1>1, <1>3 DEF Turns
  <1>4. \A n \in Nat : n \in T
    <2> HIDE DEF T
    <2> QED BY <1>2, <1>3, Induction
  <1>5. Left(r) + 1 \in Nat
    BY LeftNat
  <1> QED BY <1>1, <1>4, <1>5, FinalIs

LEMMA FinalTurn ==
    ASSUME NEW r \in Readings
    PROVE  Final(UnpadTurn(r)) = Final(r)
  <1>1. CASE UnpadTurn(r) = r
    BY <1>1
  <1>2. CASE UnpadTurn(r) # r
    <2> DEFINE t == UnpadTurn(r)
    <2>1. t \in Readings /\ Left(t) < Left(r) /\ Left(t) \in Nat /\ Left(r) \in Nat
      BY <1>2, TurnTyped, TurnLeft, LeftNat
    <2>2. PICK g : Turns(g, r)
      BY TurnsExist
    <2> DEFINE h == [n \in Nat |-> g[n + 1]]
    <2>3. Turns(h, t)
      <3>1. h \in [Nat -> Readings]
        BY <2>2 DEF Turns
      <3>2. h[0] = t
        BY <2>2 DEF Turns
      <3>3. \A n \in Nat : h[n + 1] = UnpadTurn(h[n])
        <4> SUFFICES ASSUME NEW n \in Nat PROVE h[n + 1] = UnpadTurn(h[n])
          OBVIOUS
        <4>1. n + 1 \in Nat /\ h[n] = g[n + 1] /\ h[n + 1] = g[(n + 1) + 1]
          OBVIOUS
        <4>2. g[(n + 1) + 1] = UnpadTurn(g[n + 1])
          BY <2>2 DEF Turns
        <4> QED BY <4>1, <4>2
      <3> HIDE DEF h, t
      <3> QED BY <3>1, <3>2, <3>3 DEF Turns
    <2>4. Final(t) = g[(Left(t) + 1) + 1] /\ UnpadTurn(Final(t)) = Final(t)
      <3> HIDE DEF t
      <3>1. Final(t) = h[Left(t) + 1] /\ UnpadTurn(Final(t)) = Final(t)
        BY <2>1, <2>3, FinalIs, FinalStuck
      <3> QED BY <2>1, <3>1
    <2> DEFINE m == Left(t) + 1 + 1
               T == {n \in Nat : g[m + n] = g[m]}
    <2>5. m \in Nat /\ UnpadTurn(g[m]) = g[m]
      BY <2>1, <2>4
    <2> HIDE DEF m, t
    <2>6. 0 \in T
      BY <2>5
    <2>7. ASSUME NEW n \in Nat, n \in T PROVE n + 1 \in T
      <3>1. m + n \in Nat /\ (m + n) + 1 = m + (n + 1)
        BY <2>5
      <3>2. g[(m + n) + 1] = UnpadTurn(g[m + n])
        BY <2>2, <3>1 DEF Turns
      <3> QED BY <2>5, <2>7, <3>1, <3>2
    <2>8. \A n \in Nat : n \in T
      <3> HIDE DEF T
      <3> QED BY <2>6, <2>7, Induction
    <2>9. (Left(r) + 1) - m \in Nat /\ m + ((Left(r) + 1) - m) = Left(r) + 1
      <3>1. PICK a \in Nat, b \in Nat : a = Left(t) /\ b = Left(r)
        BY <2>1
      <3>2. m = a + 1 + 1 /\ a < b
        BY <2>1, <3>1 DEF m
      <3> QED BY <3>1, <3>2
    <2>10. g[Left(r) + 1] = g[m]
      BY <2>8, <2>9
    <2>11. Final(r) = g[Left(r) + 1] /\ Final(t) = g[m]
      BY <2>2, <2>4, FinalIs DEF m
    <2> QED BY <2>10, <2>11 DEF t
  <1> QED BY <1>1, <1>2

---------------------------------------------------------------------------
(***************************************************************************)
(* Unpadding in parts: a reader that is given its bytes in two reads       *)
(* understands what a reader with all of them at once would have, and      *)
(* keeps in its buffer what the latter keeps.                              *)
(***************************************************************************)
LEMMA ConcatBytes == \A a, b, c \in Seq(Nat) : (a \o b) \o c = a \o (b \o c)
  OBVIOUS

LEMMA TurnInduction ==
    ASSUME NEW T,
           \A r \in Readings : UnpadTurn(r) = r => r \in T,
           \A r \in Readings : UnpadTurn(r) \in T => r \in T
    PROVE  \A r \in Readings : r \in T
  <1> DEFINE W == {n \in Nat : \A r \in Readings : Left(r) <= n => r \in T}
  <1>1. 0 \in W
    <2> SUFFICES ASSUME NEW r \in Readings, Left(r) <= 0 PROVE r \in T
      OBVIOUS
    <2>1. Left(r) \in Nat /\ Left(UnpadTurn(r)) \in Nat
      BY LeftNat, TurnTyped
    <2>2. UnpadTurn(r) = r
      BY <2>1, TurnLeft
    <2> QED BY <2>2
  <1>2. ASSUME NEW n \in Nat, n \in W PROVE n + 1 \in W
    <2> SUFFICES ASSUME NEW r \in Readings, Left(r) <= n + 1 PROVE r \in T
      OBVIOUS
    <2>1. Left(r) \in Nat /\ Left(UnpadTurn(r)) \in Nat /\ UnpadTurn(r) \in Readings
      BY LeftNat, TurnTyped
    <2>2. CASE UnpadTurn(r) = r
      BY <2>2
    <2>3. CASE UnpadTurn(r) # r
      <3>1. Left(UnpadTurn(r)) < Left(r)
        BY <2>3, TurnLeft
      <3>2. Left(UnpadTurn(r)) <= n
        BY <2>1, <3>1
      <3> QED BY <1>2, <2>1, <3>2
    <2> QED BY <2>2, <2>3
  <1>3. \A n \in Nat : n \in W
    <2> HIDE DEF W
    <2> QED BY <1>1, <1>2, Induction
  <1> QED BY <1>3, LeftNat

\* More input, and output there is already.
Put(r, b) == [u |-> r.u, buf |-> r.buf \o b, out |-> r.out]
Prepend(o, r) == [u |-> r.u, buf |-> r.buf, out |-> o \o r.out]

LEMMA PutTyped == \A r \in Readings, b \in Seq(Nat) : Put(r, b) \in Readings
  BY DEF Put, Readings

LEMMA PrependTyped == \A r \in Readings, o \in Seq(Nat) : Prepend(o, r) \in Readings
  BY DEF Prepend, Readings

LEMMA ReadingIs == \A r \in Readings : r = [u |-> r.u, buf |-> r.buf, out |-> r.out]
  BY DEF Readings

LEMMA TurnPut ==
    ASSUME NEW r \in Readings, NEW b \in Seq(Nat), Between(r), WholeFrame(r)
    PROVE  UnpadTurn(Put(r, b)) = Put(UnpadTurn(r), b)
  <1> DEFINE q == Put(r, b)
             all == r.buf \o b
  <1>1. q \in Readings /\ q.u = r.u /\ q.buf = all /\ q.out = r.out
    BY PutTyped DEF Put
  <1>2. r.buf \in Seq(Nat) /\ Len(r.buf) \in Nat /\ Lead(r) \in Nat
    BY LeadNat DEF Readings
  <1>3. /\ all \in Seq(Nat) /\ Len(all) = Len(r.buf) + Len(b)
        /\ \A i \in 1..Len(r.buf) : all[i] = r.buf[i]
    <2>1. \A i \in 1..Len(r.buf) + Len(b) : all[i] = IF i <= Len(r.buf) THEN r.buf[i] ELSE b[i - Len(r.buf)]
      BY <1>2, ConcatProperties
    <2>2. all \in Seq(Nat) /\ Len(all) = Len(r.buf) + Len(b) /\ Len(b) \in Nat
      BY <1>2, ConcatProperties
    <2> QED BY <1>2, <2>1, <2>2
  <1> HIDE DEF q, all
  <1>4. /\ Lead(r) + 3 <= Len(r.buf) /\ FrameEnd(r) <= Len(r.buf)
        /\ FrameEnd(r) \in Nat /\ FrameEnd(r) >= Lead(r) + 3 + r.buf[Lead(r) + 2]
        /\ r.buf[Lead(r) + 2] \in Nat
    BY LeadNat DEF WholeFrame
  <1>5. Lead(q) = Lead(r)
    BY <1>1 DEF Lead
  <1>6. \A i \in 1..3 : q.buf[Lead(q) + i] = r.buf[Lead(r) + i]
    <2> SUFFICES ASSUME NEW i \in 1..3 PROVE q.buf[Lead(q) + i] = r.buf[Lead(r) + i]
      OBVIOUS
    <2>1. Lead(r) + i \in 1..Len(r.buf)
      <3>1. PICK l \in Nat, k \in Nat : l = Lead(r) /\ k = Len(r.buf) /\ l + 3 <= k
        BY <1>2, <1>4
      <3> QED BY <3>1
    <2> QED BY <1>1, <1>3, <1>5, <2>1
  <1>7. FrameEnd(q) = FrameEnd(r)
    BY <1>5, <1>6 DEF FrameEnd
  <1>8. Between(q) /\ WholeFrame(q)
    <2>1. Len(q.buf) >= Len(r.buf) /\ Len(q.buf) \in Nat
      BY <1>1, <1>2, <1>3
    <2> QED
      BY <1>1, <1>2, <1>4, <1>5, <1>7, <2>1, SMTT(30) DEF Between, WholeFrame
  <1>9. UnpadTurn(q) = AfterFrame(q) /\ UnpadTurn(r) = AfterFrame(r)
    BY <1>1, <1>8, TurnFrame
  <1>10. Behind(all, FrameEnd(r)) = Behind(r.buf, FrameEnd(r)) \o b
    <2>1. FrameEnd(r) \in 0..Len(r.buf)
      BY <1>2, <1>4
    <2> QED BY <1>2, <2>1, BehindConcat DEF all
  <1>11. SubSeq(all, Lead(r) + 4, Lead(r) + 3 + r.buf[Lead(r) + 2])
           = SubSeq(r.buf, Lead(r) + 4, Lead(r) + 3 + r.buf[Lead(r) + 2])
    <2>1. PICK m \in Nat, n \in Nat : m = Lead(r) + 3 /\ n = Lead(r) + 3 + r.buf[Lead(r) + 2]
      BY <1>2, <1>4, SMTT(30)
    <2>2. m <= n /\ n <= Len(r.buf) /\ m + 1 = Lead(r) + 4
      <3>1. PICK l \in Nat, c \in Nat, e \in Nat, k \in Nat :
                 l = Lead(r) /\ c = r.buf[Lead(r) + 2] /\ e = FrameEnd(r) /\ k = Len(r.buf)
        BY <1>2, <1>4
      <3>2. m = l + 3 /\ n = l + 3 + c /\ e >= l + 3 + c /\ e <= k
        BY <1>4, <2>1, <3>1
      <3> QED BY <3>1, <3>2, SMTT(30)
    <2>3. n <= Len(all)
      BY <1>2, <1>3, <2>2
    <2> DEFINE x == SubSeq(all, m + 1, n)
               y == SubSeq(r.buf, m + 1, n)
    <2>4. x \in Seq(Nat) /\ Len(x) = n - m /\ \A i \in 1..(n - m) : x[i] = all[m + i]
      BY <1>3, <2>2, <2>3, ThreeParts
    <2>5. y \in Seq(Nat) /\ Len(y) = n - m /\ \A i \in 1..(n - m) : y[i] = r.buf[m + i]
      BY <1>2, <2>2, ThreeParts
    <2> HIDE DEF x, y
    <2>6. \A i \in 1..(n - m) : m + i \in 1..Len(r.buf)
      BY <1>2, <2>2
    <2>7. \A i \in 1..Len(x) : x[i] = y[i]
      BY <1>3, <2>4, <2>5, <2>6
    <2>8. x = y
      BY <2>4, <2>5, <2>7, SeqEqual
    <2> QED BY <2>1, <2>2, <2>8 DEF x, y
  <1>12. /\ AfterFrame(q).u = AfterFrame(r).u
         /\ AfterFrame(q) = [u |-> AfterFrame(r).u, buf |-> Behind(r.buf, FrameEnd(r)) \o b,
                             out |-> AfterFrame(r).out]
         /\ AfterFrame(r).buf = Behind(r.buf, FrameEnd(r))
    <2>1. q.buf[Lead(r) + 1] = r.buf[Lead(r) + 1] /\ q.buf[Lead(r) + 2] = r.buf[Lead(r) + 2]
      BY <1>5, <1>6
    <2> QED BY <1>1, <1>5, <1>7, <1>10, <1>11, <2>1 DEF AfterFrame
  <1> QED BY <1>9, <1>12 DEF Put, q

\* Input that comes later makes no difference.
LEMMA FinalPut ==
    ASSUME NEW b \in Seq(Nat)
    PROVE  \A r \in Readings : Final(Put(r, b)) = Final(Put(Final(r), b))
  <1> DEFINE T == {r \in Readings : Final(Put(r, b)) = Final(Put(Final(r), b))}
  <1>1. ASSUME NEW r \in Readings, UnpadTurn(r) = r PROVE r \in T
    BY <1>1, FinalSame
  <1>2. ASSUME NEW r \in Readings, UnpadTurn(r) \in T PROVE r \in T
    <2> DEFINE t == UnpadTurn(r)
    <2>1. t \in Readings /\ Final(t) = Final(r) /\ Final(Put(t, b)) = Final(Put(Final(t), b))
      BY <1>2, TurnTyped, FinalTurn
    <2>2. Final(Put(r, b)) = Final(Put(t, b))
      <3>1. CASE UnpadTurn(r) = r
        BY <3>1
      <3>2. CASE ~r.u.failed /\ r.u.done
        <4>1. t = [u |-> r.u, buf |-> <<>>, out |-> r.out \o r.buf]
          BY <3>2, TurnDone
        <4>2. r.buf \in Seq(Nat) /\ r.out \in Seq(Nat) /\ <<>> \o b = b
          BY ConcatEmptySeq DEF Readings
        <4>3. Put(t, b) = [u |-> r.u, buf |-> b, out |-> r.out \o r.buf]
          BY <4>1, <4>2 DEF Put
        <4>4. Put(r, b) = [u |-> r.u, buf |-> r.buf \o b, out |-> r.out]
          BY DEF Put
        <4>5. Put(t, b) \in Readings /\ Put(r, b) \in Readings
          BY <2>1, PutTyped
        <4>6. UnpadTurn(Put(t, b)) = [u |-> r.u, buf |-> <<>>, out |-> (r.out \o r.buf) \o b]
          BY <3>2, <4>3, <4>5, TurnDone
        <4>7. UnpadTurn(Put(r, b)) = [u |-> r.u, buf |-> <<>>, out |-> r.out \o (r.buf \o b)]
          BY <3>2, <4>4, <4>5, TurnDone
        <4>8. (r.out \o r.buf) \o b = r.out \o (r.buf \o b)
          BY <4>2, ConcatBytes
        <4>9. UnpadTurn(Put(t, b)) = UnpadTurn(Put(r, b))
          BY <4>6, <4>7, <4>8
        <4> HIDE DEF t
        <4> QED BY <4>5, <4>9, FinalTurn
      <3>3. CASE Between(r) /\ WholeFrame(r)
        <4>1. UnpadTurn(Put(r, b)) = Put(t, b) /\ Put(r, b) \in Readings
          BY <3>3, TurnPut, PutTyped
        <4> HIDE DEF t
        <4>2. Final(UnpadTurn(Put(r, b))) = Final(Put(r, b))
          BY <4>1, FinalTurn
        <4> QED BY <4>1, <4>2
      <3> QED BY <3>1, <3>2, <3>3, TurnFailed, TurnWaits DEF Between
    <2> QED BY <2>1, <2>2
  <1>3. \A r \in Readings : r \in T
    <2> HIDE DEF T
    <2> QED BY <1>1, <1>2, TurnInduction
  <1> QED BY <1>3

\* Output there is already makes no difference.
LEMMA TurnPrepend ==
    ASSUME NEW r \in Readings, NEW o \in Seq(Nat)
    PROVE  UnpadTurn(Prepend(o, r)) = Prepend(o, UnpadTurn(r))
  <1> DEFINE q == Prepend(o, r)
  <1>1. q \in Readings /\ q.u = r.u /\ q.buf = r.buf /\ q.out = o \o r.out
    BY PrependTyped DEF Prepend
  <1>2. r.buf \in Seq(Nat) /\ r.out \in Seq(Nat)
    BY DEF Readings
  <1> HIDE DEF q
  <1>3. CASE r.u.failed
    <2>1. UnpadTurn(q) = q /\ UnpadTurn(r) = r
      BY <1>1, <1>3, TurnFailed
    <2> QED BY <2>1 DEF q
  <1>4. CASE ~r.u.failed /\ r.u.done
    <2>1. UnpadTurn(r) = [u |-> r.u, buf |-> <<>>, out |-> r.out \o r.buf]
      BY <1>4, TurnDone
    <2>2. UnpadTurn(q) = [u |-> r.u, buf |-> <<>>, out |-> (o \o r.out) \o r.buf]
      BY <1>1, <1>4, TurnDone
    <2>3. (o \o r.out) \o r.buf = o \o (r.out \o r.buf)
      BY <1>2, ConcatBytes
    <2> QED BY <2>1, <2>2, <2>3 DEF Prepend, q
  <1>5. Between(q) = Between(r) /\ Lead(q) = Lead(r) /\ FrameEnd(q) = FrameEnd(r) /\ WholeFrame(q) = WholeFrame(r)
    BY <1>1 DEF Between, Lead, FrameEnd, WholeFrame
  <1>6. CASE Between(r) /\ ~WholeFrame(r)
    <2>1. UnpadTurn(q) = q /\ UnpadTurn(r) = r
      BY <1>1, <1>5, <1>6, TurnWaits
    <2> QED BY <2>1 DEF q
  <1>7. CASE Between(r) /\ WholeFrame(r)
    <2>1. UnpadTurn(q) = AfterFrame(q) /\ UnpadTurn(r) = AfterFrame(r) /\ AfterFrame(r) \in Readings
      BY <1>1, <1>5, <1>7, TurnFrame, FrameTyped
    <2> DEFINE x == SubSeq(r.buf, Lead(r) + 4, Lead(r) + 3 + r.buf[Lead(r) + 2])
    <2>2. x \in Seq(Nat)
      <3>1. AfterFrame(r).out \in Seq(Nat)
        BY <2>1 DEF Readings
      <3>2. PICK m \in Nat, n \in Nat : m = Lead(r) + 3 /\ n = Lead(r) + 3 + r.buf[Lead(r) + 2]
        BY <1>7, LeadNat DEF WholeFrame
      <3>3. m <= n /\ n <= Len(r.buf) /\ m + 1 = Lead(r) + 4
        BY <1>7, <3>2, LeadNat, SMTT(30) DEF WholeFrame
      <3>4. SubSeq(r.buf, m + 1, n) \in Seq(Nat)
        BY <1>2, <3>3, ThreeParts
      <3> QED BY <3>2, <3>3, <3>4
    <2>3. (o \o r.out) \o x = o \o (r.out \o x)
      <3> HIDE DEF x
      <3> QED BY <1>2, <2>2, ConcatBytes
    <2>4. /\ AfterFrame(q).u = AfterFrame(r).u /\ AfterFrame(q).buf = AfterFrame(r).buf
          /\ AfterFrame(q).out = (o \o r.out) \o x /\ AfterFrame(r).out = r.out \o x
          /\ AfterFrame(q) = [u |-> AfterFrame(q).u, buf |-> AfterFrame(q).buf, out |-> AfterFrame(q).out]
      BY <1>1, <1>5 DEF AfterFrame
    <2> HIDE DEF x
    <2> QED BY <2>1, <2>3, <2>4 DEF Prepend, q
  <1> QED BY <1>3, <1>4, <1>6, <1>7 DEF Between

LEMMA FinalPrepend ==
    ASSUME NEW o \in Seq(Nat)
    PROVE  \A r \in Readings : Final(Prepend(o, r)) = Prepend(o, Final(r))
  <1> DEFINE T == {r \in Readings : Final(Prepend(o, r)) = Prepend(o, Final(r))}
  <1>1. ASSUME NEW r \in Readings, UnpadTurn(r) = r PROVE r \in T
    <2>1. UnpadTurn(Prepend(o, r)) = Prepend(o, r) /\ Prepend(o, r) \in Readings
      BY <1>1, TurnPrepend, PrependTyped
    <2>2. Final(Prepend(o, r)) = Prepend(o, r) /\ Final(r) = r
      BY <1>1, <2>1, FinalSame
    <2> QED BY <2>2
  <1>2. ASSUME NEW r \in Readings, UnpadTurn(r) \in T PROVE r \in T
    <2>1. UnpadTurn(Prepend(o, r)) = Prepend(o, UnpadTurn(r)) /\ Prepend(o, r) \in Readings
      BY TurnPrepend, PrependTyped
    <2>2. Final(Prepend(o, r)) = Final(Prepend(o, UnpadTurn(r))) /\ Final(r) = Final(UnpadTurn(r))
      BY <2>1, FinalTurn
    <2> QED BY <1>2, <2>2
  <1>3. \A r \in Readings : r \in T
    <2> HIDE DEF T
    <2> QED BY <1>1, <1>2, TurnInduction
  <1> QED BY <1>3

\* However the network cuts the bytes, the unpadder understands the same:
\* reading a and then, behind what is left of it, b is reading both at
\* once, and what is left is what it cannot take a frame from
\* (unpad_client_chunk and the server's reader).
THEOREM UnpadInParts ==
    ASSUME NEW u \in Unpadders, NEW a \in Seq(Nat), NEW b \in Seq(Nat)
    PROVE  LET r == Unpad(u, a)
               q == Unpad(r.u, r.buf \o b)
           IN  /\ r \in Readings /\ q \in Readings
               /\ Unpad(u, a \o b) = Prepend(r.out, q)
               /\ UnpadTurn(r) = r
  <1> DEFINE s == [u |-> u, buf |-> a, out |-> <<>>]
             r == Unpad(u, a)
             w == [u |-> r.u, buf |-> r.buf \o b, out |-> <<>>]
  <1>1. s \in Readings /\ r = Final(s)
    BY UnpadIsFinal DEF Readings
  <1>2. r \in Readings /\ UnpadTurn(r) = r
    <2> HIDE DEF s, r
    <2> QED BY <1>1, FinalStuck
  <1>3. Put(s, b) = [u |-> u, buf |-> a \o b, out |-> <<>>] /\ a \o b \in Seq(Nat)
    BY DEF Put
  <1>4. Unpad(u, a \o b) = Final(Put(s, b))
    BY <1>3, UnpadIsFinal
  <1>5. Final(Put(s, b)) = Final(Put(r, b))
    <2> HIDE DEF s, r
    <2> QED BY <1>1, FinalPut
  <1>6. r.u \in Unpadders /\ r.buf \o b \in Seq(Nat) /\ r.out \in Seq(Nat) /\ w \in Readings
    <2> HIDE DEF r
    <2> QED BY <1>2 DEF Readings
  <1>7. Put(r, b) = Prepend(r.out, w)
    <2>1. r.out \o <<>> = r.out
      BY <1>6, ConcatEmptySeq
    <2> HIDE DEF r
    <2> QED BY <2>1 DEF Put, Prepend
  <1>8. Unpad(r.u, r.buf \o b) = Final(w)
    <2> HIDE DEF r
    <2> QED BY <1>6, UnpadIsFinal
  <1> HIDE DEF r, w
  <1>9. Final(Prepend(r.out, w)) = Prepend(r.out, Final(w)) /\ Final(w) \in Readings
    BY <1>6, FinalPrepend, FinalStuck
  <1>10. /\ r \in Readings /\ Unpad(r.u, r.buf \o b) \in Readings
         /\ Unpad(u, a \o b) = Prepend(r.out, Unpad(r.u, r.buf \o b)) /\ UnpadTurn(r) = r
    BY <1>2, <1>4, <1>5, <1>7, <1>8, <1>9
  <1> QED BY <1>10 DEF r

---------------------------------------------------------------------------
(***************************************************************************)
(* A frame of xtls_padding, read back.                                     *)
(***************************************************************************)
LEMMA ModSmall == \A x, w \in Nat : x < w => x % w = x
  OBVIOUS

\* The members of a concatenation.
LEMMA ConcatParts ==
    ASSUME NEW a \in Seq(Nat), NEW b \in Seq(Nat)
    PROVE  /\ a \o b \in Seq(Nat) /\ Len(a \o b) = Len(a) + Len(b)
           /\ Len(a) \in Nat /\ Len(b) \in Nat
           /\ \A i \in 1..Len(a) : (a \o b)[i] = a[i]
           /\ \A i \in 1..Len(b) : (a \o b)[Len(a) + i] = b[i]
  <1>1. /\ a \o b \in Seq(Nat) /\ Len(a \o b) = Len(a) + Len(b)
        /\ \A i \in 1..Len(a) + Len(b) : (a \o b)[i] = IF i <= Len(a) THEN a[i] ELSE b[i - Len(a)]
    BY ConcatProperties
  <1>2. Len(a) \in Nat /\ Len(b) \in Nat
    OBVIOUS
  <1>3. ASSUME NEW i \in 1..Len(a) PROVE (a \o b)[i] = a[i]
    BY <1>1, <1>2
  <1>4. ASSUME NEW i \in 1..Len(b) PROVE (a \o b)[Len(a) + i] = b[i]
    <2>1. Len(a) + i \in 1..Len(a) + Len(b) /\ ~(Len(a) + i <= Len(a)) /\ (Len(a) + i) - Len(a) = i
      BY <1>2
    <2> QED BY <1>1, <2>1
  <1> QED BY <1>1, <1>2, <1>3, <1>4

Commands == {"CONTINUE", "END", "DIRECT"}
AfterCommand(command) ==
    [expectUuid |-> FALSE, done |-> command # "CONTINUE", direct |-> command = "DIRECT",
     failed |-> FALSE]

LEMMA StuckWhenEmpty ==
    ASSUME NEW r \in Readings, r.buf = <<>>
    PROVE  UnpadTurn(r) = r
  <1>1. Len(r.buf) = 0 /\ Lead(r) \in Nat
    BY LeadNat
  <1>2. CASE r.u.failed
    BY <1>2, TurnFailed
  <1>3. CASE ~r.u.failed /\ r.u.done
    <2>1. UnpadTurn(r) = [u |-> r.u, buf |-> <<>>, out |-> r.out \o r.buf]
      BY <1>3, TurnDone
    <2>2. r.out \o r.buf = r.out
      BY ConcatEmptySeq DEF Readings
    <2> QED BY <2>1, <2>2, ReadingIs
  <1>4. CASE Between(r)
    <2>1. ~WholeFrame(r)
      BY <1>1 DEF WholeFrame
    <2> QED BY <1>4, <2>1, TurnWaits
  <1> QED BY <1>2, <1>3, <1>4 DEF Between

\* A frame with `at` bytes in front of its header.
FrameIs(f, data, command, at, pad) ==
    /\ f \in Seq(Nat) /\ Len(f) = at + 3 + Len(data) + pad
    /\ f[at + 1] = CommandByte[command]
    /\ f[at + 2] = Len(data) /\ f[at + 3] = pad
    /\ SubSeq(f, at + 4, at + 3 + Len(data)) = data

LEMMA FrameParts ==
    ASSUME NEW data \in Seq(Nat), NEW uuid \in Seq(Nat), NEW pad \in Nat, NEW command \in Commands,
           Len(data) < FieldWidth, pad < FieldWidth, FieldWidth \in Nat
    PROVE  FrameIs(XtlsPadding(data, command, uuid, pad), data, command, Len(uuid), pad)
  <1> DEFINE three == <<CommandByte[command], Len(data) % FieldWidth, pad % FieldWidth>>
             zeros == [i \in 1..pad |-> 0]
             a == uuid \o three
             b == a \o data
             frame == b \o zeros
             at == Len(uuid)
  <1>1. CommandByte[command] \in Nat /\ Len(data) \in Nat
    BY DEF Commands, CommandByte
  <1>2. Len(data) % FieldWidth = Len(data) /\ pad % FieldWidth = pad
    BY <1>1, ModSmall
  <1>3. /\ three \in Seq(Nat) /\ Len(three) = 3
        /\ three[1] = CommandByte[command] /\ three[2] = Len(data) /\ three[3] = pad
    BY <1>1, <1>2
  <1>4. zeros \in Seq(Nat) /\ Len(zeros) = pad
    OBVIOUS
  <1> HIDE DEF three, zeros
  <1>5. /\ a \in Seq(Nat) /\ Len(a) = at + 3 /\ at \in Nat
        /\ \A i \in 1..3 : a[at + i] = three[i]
    <2>1. /\ uuid \o three \in Seq(Nat) /\ Len(uuid \o three) = Len(uuid) + Len(three)
          /\ Len(uuid) \in Nat
          /\ \A i \in 1..Len(three) : (uuid \o three)[Len(uuid) + i] = three[i]
      BY <1>3, ConcatParts
    <2> QED BY <1>3, <2>1
  <1> HIDE DEF a
  <1>6. /\ b \in Seq(Nat) /\ Len(b) = at + 3 + Len(data)
        /\ \A i \in 1..at + 3 : b[i] = a[i]
        /\ \A i \in 1..Len(data) : b[(at + 3) + i] = data[i]
    <2>1. /\ a \o data \in Seq(Nat) /\ Len(a \o data) = Len(a) + Len(data)
          /\ \A i \in 1..Len(a) : (a \o data)[i] = a[i]
          /\ \A i \in 1..Len(data) : (a \o data)[Len(a) + i] = data[i]
      BY <1>5, ConcatParts
    <2> QED BY <1>5, <2>1
  <1> HIDE DEF b
  <1>7. /\ frame \in Seq(Nat) /\ Len(frame) = at + 3 + Len(data) + pad
        /\ \A i \in 1..at + 3 + Len(data) : frame[i] = b[i]
    <2>1. /\ b \o zeros \in Seq(Nat) /\ Len(b \o zeros) = Len(b) + Len(zeros)
          /\ \A i \in 1..Len(b) : (b \o zeros)[i] = b[i]
      BY <1>4, <1>6, ConcatParts
    <2> QED BY <1>4, <1>6, <2>1
  <1>8. frame = XtlsPadding(data, command, uuid, pad)
    <2>1. XtlsPadding(data, command, uuid, pad) = uuid \o three \o data \o zeros
      BY DEF XtlsPadding, three, zeros
    <2> QED BY <2>1 DEF a, b
  <1> HIDE DEF frame, at
  <1>9. /\ frame[at + 1] = CommandByte[command]
        /\ frame[at + 2] = Len(data) /\ frame[at + 3] = pad
    <2>1. \A i \in 1..3 : at + i \in 1..at + 3 /\ at + i \in 1..at + 3 + Len(data)
      BY <1>1, <1>5
    <2>2. \A i \in 1..3 : frame[at + i] = three[i]
      BY <1>5, <1>6, <1>7, <2>1
    <2> QED BY <1>3, <2>2
  <1>10. SubSeq(frame, at + 4, at + 3 + Len(data)) = data
    <2> DEFINE m == at + 3
               n == at + 3 + Len(data)
               x == SubSeq(frame, m + 1, n)
    <2>0. PICK d \in Nat : d = Len(data)
      BY <1>1
    <2>1. m \in Nat /\ n \in Nat /\ m <= n /\ n <= Len(frame) /\ frame \in Seq(Nat)
      <3>1. n = at + 3 + d /\ Len(frame) = at + 3 + d + pad /\ m = at + 3
        BY <1>7, <2>0
      <3>2. frame \in Seq(Nat) /\ at \in Nat
        BY <1>5, <1>7
      <3> HIDE DEF m, n
      <3> QED BY <2>0, <3>1, <3>2
    <2>2. n - m = d /\ m + 1 = at + 4
      BY <1>5, <2>0
    <2> HIDE DEF m, n
    <2>3. /\ SubSeq(frame, m + 1, n) \in Seq(Nat) /\ Len(SubSeq(frame, m + 1, n)) = n - m
          /\ \A i \in 1..(n - m) : SubSeq(frame, m + 1, n)[i] = frame[m + i]
      BY <2>1, ThreeParts
    <2>4. x \in Seq(Nat) /\ Len(x) = d /\ \A i \in 1..d : x[i] = frame[m + i]
      BY <2>2, <2>3
    <2> HIDE DEF x
    <2>5. ASSUME NEW i \in 1..d PROVE frame[m + i] = data[i]
      <3>1. i \in 1..Len(data) /\ (at + 3) + i \in 1..at + 3 + d
        BY <1>5, <2>0
      <3>2. (at + 3) + i \in 1..at + 3 + Len(data)
        BY <2>0, <3>1
      <3> QED BY <1>6, <1>7, <3>1, <3>2 DEF m
    <2>6. Len(x) = Len(data) /\ \A i \in 1..Len(x) : x[i] = data[i]
      BY <2>0, <2>4, <2>5
    <2>7. x = data
      BY <2>4, <2>6, SeqEqual
    <2> QED BY <2>2, <2>7 DEF x, n
  <1> QED BY <1>7, <1>8, <1>9, <1>10 DEF at, FrameIs

\* A reader that is between two frames takes one frame for what it is.
LEMMA UnpadFrame ==
    ASSUME NEW u \in Unpadders, ~u.done, ~u.failed,
           NEW data \in Seq(Nat), NEW uuid \in Seq(Nat), NEW pad \in Nat, NEW command \in Commands,
           Len(data) < FieldWidth, pad < FieldWidth, FieldWidth \in Nat,
           u.expectUuid => Len(uuid) = UuidLen, ~u.expectUuid => Len(uuid) = 0
    PROVE  Unpad(u, XtlsPadding(data, command, uuid, pad)) =
              [u |-> AfterCommand(command), buf |-> <<>>, out |-> data]
  <1> DEFINE frame == XtlsPadding(data, command, uuid, pad)
             r == [u |-> u, buf |-> frame, out |-> <<>>]
             t == [u |-> AfterCommand(command), buf |-> <<>>, out |-> data]
  <1>1. /\ frame \in Seq(Nat) /\ Len(frame) = Len(uuid) + 3 + Len(data) + pad
        /\ frame[Len(uuid) + 1] = CommandByte[command]
        /\ frame[Len(uuid) + 2] = Len(data) /\ frame[Len(uuid) + 3] = pad
        /\ SubSeq(frame, Len(uuid) + 4, Len(uuid) + 3 + Len(data)) = data
    <2>1. FrameIs(XtlsPadding(data, command, uuid, pad), data, command, Len(uuid), pad)
      BY FrameParts
    <2> QED BY <2>1 DEF FrameIs
  <1> HIDE DEF frame
  <1>2. r \in Readings /\ r.u = u /\ r.buf = frame /\ r.out = <<>>
    BY <1>1 DEF Readings
  <1>3. t \in Readings
    BY DEF Readings, Unpadders, AfterCommand
  <1> HIDE DEF r
  <1>4. Lead(r) = Len(uuid)
    BY <1>2 DEF Lead
  <1>5. FrameEnd(r) = Len(frame)
    BY <1>1, <1>2, <1>4 DEF FrameEnd
  <1>6. Between(r) /\ WholeFrame(r)
    <2>0. Len(uuid) \in Nat /\ Len(data) \in Nat
      OBVIOUS
    <2>1. Len(uuid) + 3 <= Len(frame) /\ Len(frame) \in Nat
      BY <1>1, <2>0
    <2> QED BY <1>1, <1>2, <1>4, <1>5, <2>1, SMTT(30) DEF Between, WholeFrame
  <1>7. AfterFrame(r).buf = <<>>
    <2>1. Behind(frame, Len(frame)) = <<>>
      BY <1>1, BehindZero
    <2> QED BY <1>2, <1>5, <2>1 DEF AfterFrame
  <1>8. AfterFrame(r).out = data
    <2>1. <<>> \o data = data
      BY ConcatEmptySeq
    <2> QED BY <1>1, <1>2, <1>4, <2>1 DEF AfterFrame
  <1>9. AfterFrame(r).u = AfterCommand(command)
    <2>1. r.buf[Lead(r) + 1] = CommandByte[command]
      BY <1>1, <1>2, <1>4
    <2>2. r.buf[Lead(r) + 1] =
             IF command = "CONTINUE" THEN 0 ELSE IF command = "END" THEN 1 ELSE 2
      BY <2>1 DEF CommandByte, Commands
    <2> DEFINE c == r.buf[Lead(r) + 1]
    <2>3. AfterFrame(r).u = [expectUuid |-> FALSE, done |-> c \in {1, 2},
                             direct |-> c = 2, failed |-> c \notin 0..2]
      BY DEF AfterFrame
    <2> HIDE DEF c
    <2>4. /\ (c \in {1, 2}) = (command # "CONTINUE")
          /\ (c = 2) = (command = "DIRECT")
          /\ (c \notin 0..2) = FALSE
      BY <2>2 DEF Commands, c
    <2> QED BY <2>3, <2>4, Zenon DEF AfterCommand
  <1>10. UnpadTurn(r) = t
    <2>1. UnpadTurn(r) = AfterFrame(r) /\ AfterFrame(r) \in Readings
      BY <1>2, <1>6, TurnFrame, FrameTyped
    <2> QED BY <1>7, <1>8, <1>9, <2>1, ReadingIs
  <1>11. UnpadTurn(t) = t
    BY <1>3, StuckWhenEmpty
  <1> HIDE DEF t
  <1>12. Final(r) = t
    BY <1>2, <1>3, <1>10, <1>11, FinalTurn, FinalSame
  <1>13. Unpad(u, frame) = Final(r)
    BY <1>1, UnpadIsFinal DEF r
  <1> QED BY <1>12, <1>13 DEF t, frame

\* Behind END or DIRECT bytes are data as they are.
LEMMA UnpadPlain ==
    ASSUME NEW u \in Unpadders, u.done, ~u.failed, NEW data \in Seq(Nat)
    PROVE  Unpad(u, data) = [u |-> u, buf |-> <<>>, out |-> data]
  <1> DEFINE r == [u |-> u, buf |-> data, out |-> <<>>]
             t == [u |-> u, buf |-> <<>>, out |-> data]
  <1>1. r \in Readings /\ t \in Readings
    BY DEF Readings
  <1>2. <<>> \o data = data
    BY ConcatEmptySeq
  <1>3. UnpadTurn(r) = t
    BY <1>1, <1>2, TurnDone
  <1>4. UnpadTurn(t) = t
    BY <1>1, StuckWhenEmpty
  <1>5. Unpad(u, data) = Final(r)
    BY UnpadIsFinal
  <1> HIDE DEF r, t
  <1>6. Final(r) = t
    BY <1>1, <1>3, <1>4, FinalTurn, FinalSame
  <1> QED BY <1>5, <1>6 DEF t

LEMMA UnpadNothing ==
    ASSUME NEW u \in Unpadders
    PROVE  Unpad(u, <<>>) = [u |-> u, buf |-> <<>>, out |-> <<>>]
  <1> DEFINE r == [u |-> u, buf |-> <<>>, out |-> <<>>]
  <1>1. r \in Readings /\ r.buf = <<>>
    BY DEF Readings
  <1>2. Unpad(u, <<>>) = Final(r)
    <2>1. <<>> \in Seq(Nat)
      OBVIOUS
    <2> QED BY <2>1, UnpadIsFinal
  <1> HIDE DEF r
  <1> QED BY <1>1, <1>2, StuckWhenEmpty, FinalSame DEF r

---------------------------------------------------------------------------
(***************************************************************************)
(* Reshape, reshape_into_slice: a write is cut into pieces that fit a      *)
(* frame.                                                                  *)
(***************************************************************************)
LEMMA ContentNat ==
    /\ MaxFrameContent \in Nat /\ MaxFrameContent >= 3 /\ BufSize \in Nat /\ FieldWidth \in Nat /\ FieldWidth > BufSize
    /\ UuidLen \in Nat /\ MaxFrameContent + UuidLen + 3 = BufSize
    /\ BufSize \div 2 \in 1..MaxFrameContent
  <1>1. BufSize \in Nat /\ UuidLen \in Nat /\ UuidLen + 3 <= BufSize \div 2
        /\ FieldWidth \in Nat /\ FieldWidth > BufSize
    BY SizesAssumption DEF HeaderLen
  <1>2. MaxFrameContent = BufSize - (UuidLen + 3)
    BY DEF MaxFrameContent, HeaderLen
  <1>3. BufSize \div 2 \in Nat /\ 2 * (BufSize \div 2) <= BufSize
    BY <1>1
  <1> QED BY <1>1, <1>2, <1>3

LEMMA SplitInside ==
    ASSUME NEW b \in Seq(Nat)
    PROVE  SplitAt(b) \in 1..MaxFrameContent
  <1>1. UuidLen + HeaderLen \in Nat /\ UuidLen + HeaderLen >= 1
    BY ContentNat DEF HeaderLen
  <1>2. \A x : x \in (UuidLen + HeaderLen)..MaxFrameContent => x \in 1..MaxFrameContent
    BY <1>1, ContentNat
  <1> QED BY <1>2, ContentNat DEF SplitAt

\* What is too long for a frame.
TooLong == {b \in Seq(Nat) : Len(b) >= MaxFrameContent}

LEMMA SplitOf ==
    ASSUME NEW b \in TooLong
    PROVE  /\ b \in Seq(Nat) /\ SplitAt(b) \in 0..Len(b) /\ SplitAt(b) <= MaxFrameContent
           /\ Upto(b, SplitAt(b)) \in Seq(Nat) /\ Len(Upto(b, SplitAt(b))) = SplitAt(b)
           /\ Behind(b, SplitAt(b)) \in Seq(Nat) /\ Len(b) >= 3
           /\ Len(Behind(b, SplitAt(b))) < Len(b)
  <1>1. b \in Seq(Nat) /\ Len(b) >= MaxFrameContent /\ Len(b) \in Nat
    BY DEF TooLong
  <1>2. SplitAt(b) \in 1..MaxFrameContent /\ MaxFrameContent \in Nat
    BY <1>1, SplitInside, ContentNat
  <1>3. SplitAt(b) \in 0..Len(b)
    BY <1>1, <1>2
  <1>4. Upto(b, SplitAt(b)) \in Seq(Nat) /\ Len(Upto(b, SplitAt(b))) = SplitAt(b)
    BY <1>1, <1>3, UptoIs
  <1>5. Behind(b, SplitAt(b)) \in Seq(Nat) /\ Len(Behind(b, SplitAt(b))) = Len(b) - SplitAt(b)
    BY <1>1, <1>3, BehindIs
  <1>6. Len(b) >= 3
    BY <1>1, ContentNat
  <1> QED BY <1>1, <1>2, <1>3, <1>4, <1>5, <1>6

ReshapeStep(f) ==
    [b \in Seq(Nat) |->
        IF Len(b) < MaxFrameContent THEN <<b>>
        ELSE LET at == SplitAt(b)
             IN  <<SubSeq(b, 1, at)>> \o f[SubSeq(b, at + 1, Len(b))]]

LEMMA ReshapeExists == \E f : f = ReshapeStep(f)
  <1> DEFINE D == Seq(Nat)
             V == Seq(Seq(Nat))
             size == [b \in D |-> Len(b)]
             rest == [b \in D |-> IF b \in TooLong THEN Behind(b, SplitAt(b)) ELSE b]
             base == [b \in D |-> <<b>>]
             comb == [p \in D \X V |-> IF p[1] \in TooLong
                                       THEN <<Upto(p[1], SplitAt(p[1]))>> \o p[2] ELSE p[2]]
  <1>1. size \in [D -> Nat] /\ base \in [D -> V]
    OBVIOUS
  <1>2. rest \in [D -> D]
    BY SplitOf
  <1>3. comb \in [D \X V -> V]
    <2> SUFFICES ASSUME NEW p \in D \X V
                 PROVE  (IF p[1] \in TooLong
                         THEN <<Upto(p[1], SplitAt(p[1]))>> \o p[2] ELSE p[2]) \in V
      OBVIOUS
    <2>1. ASSUME p[1] \in TooLong PROVE <<Upto(p[1], SplitAt(p[1]))>> \in V
      <3>1. Upto(p[1], SplitAt(p[1])) \in Seq(Nat)
        BY <2>1, SplitOf
      <3> QED BY <3>1
    <2> QED BY <2>1
  <1>4. \A d \in D : d \in TooLong => size[rest[d]] < size[d]
    BY <1>2, SplitOf
  <1>5. PICK f \in [D -> V] : f = [d \in D |-> IF d \in TooLong THEN comb[<<d, f[rest[d]]>>] ELSE base[d]]
    <2> HIDE DEF D, V, size, rest, base, comb
    <2> QED
      <3>1. Shrinks(D, size, TooLong, rest)
        BY <1>1, <1>2, <1>4 DEF Shrinks
      <3>2. \E f : Folds(f, D, V, TooLong, rest, base, comb)
        BY <1>1, <1>3, <3>1, SizedRecursion
      <3> QED BY <3>2 DEF Folds
  <1>6. ASSUME NEW b \in Seq(Nat)
        PROVE  f[b] = IF Len(b) < MaxFrameContent THEN <<b>>
                      ELSE <<Upto(b, SplitAt(b))>> \o f[Behind(b, SplitAt(b))]
    <2>1. f[b] = IF b \in TooLong THEN comb[<<b, f[rest[b]]>>] ELSE base[b]
      BY <1>5
    <2>2. Len(b) \in Nat /\ MaxFrameContent \in Nat
      BY ContentNat
    <2>3. CASE Len(b) < MaxFrameContent
      <3>1. b \notin TooLong
        BY <2>2, <2>3 DEF TooLong
      <3> QED BY <2>1, <2>3, <3>1
    <2>4. CASE ~(Len(b) < MaxFrameContent)
      <3>1. b \in TooLong
        BY <2>2, <2>4 DEF TooLong
      <3>2. rest[b] = Behind(b, SplitAt(b)) /\ rest[b] \in D
        BY <1>2, <3>1
      <3>3. f[rest[b]] \in V
        BY <1>5, <3>2
      <3>4. comb[<<b, f[rest[b]]>>] = <<Upto(b, SplitAt(b))>> \o f[rest[b]]
        BY <3>1, <3>3
      <3> QED BY <2>1, <2>4, <3>1, <3>2, <3>4
    <2> QED BY <2>3, <2>4
  <1>7. f = ReshapeStep(f)
    BY <1>5, <1>6 DEF ReshapeStep, Upto, Behind
  <1> QED BY <1>7

LEMMA ReshapeIs ==
    ASSUME NEW b \in Seq(Nat)
    PROVE  /\ Len(b) < MaxFrameContent => Reshape[b] = <<b>>
           /\ b \in TooLong => Reshape[b] = <<Upto(b, SplitAt(b))>> \o Reshape[Behind(b, SplitAt(b))]
  <1>1. Reshape = CHOOSE f : f = ReshapeStep(f)
    BY DEF Reshape, ReshapeStep
  <1>2. Reshape = ReshapeStep(Reshape)
    BY <1>1, ReshapeExists
  <1>3. Reshape[b] = ReshapeStep(Reshape)[b]
    BY <1>2
  <1>4. ReshapeStep(Reshape)[b] =
           IF Len(b) < MaxFrameContent THEN <<b>>
           ELSE <<SubSeq(b, 1, SplitAt(b))>> \o Reshape[SubSeq(b, SplitAt(b) + 1, Len(b))]
    BY DEF ReshapeStep
  <1>5. b \in TooLong => ~(Len(b) < MaxFrameContent)
    BY ContentNat DEF TooLong
  <1> QED BY <1>3, <1>4, <1>5 DEF Upto, Behind

\* The pieces put together are the write, and each fits into a frame.
PiecesOf(b, ps) ==
    /\ ps \in Seq(Seq(Nat)) /\ ps # <<>> /\ FlattenSeq(ps) = b
    /\ Len(ps) = 1 \/ Len(ps) <= Len(b)
    /\ \A i \in 1..Len(ps) : Len(ps[i]) \in Nat /\ Len(ps[i]) <= MaxFrameContent

LEMMA ReshapePieces == \A b \in Seq(Nat) : PiecesOf(b, Reshape[b])
  <1> DEFINE T == {n \in Nat : \A b \in Seq(Nat) : Len(b) <= n => PiecesOf(b, Reshape[b])}
  <1>1. ASSUME NEW b \in Seq(Nat), Len(b) < MaxFrameContent PROVE PiecesOf(b, Reshape[b])
    <2>1. Reshape[b] = <<b>>
      BY <1>1, ReshapeIs
    <2>2. <<b>> = Append(<<>>, b) /\ <<>> \in Seq(Seq(Nat))
      OBVIOUS
    <2>3. FlattenSeq(Append(<<>>, b)) = FlattenSeq(<<>>) \o b
      BY <2>2, FlattenAppend
    <2>4. FlattenSeq(<<b>>) = b
      BY <2>2, <2>3, FlattenEmpty, ConcatEmptySeq
    <2>5. <<b>> \in Seq(Seq(Nat)) /\ Len(<<b>>) = 1 /\ <<b>> # <<>> /\ <<b>>[1] = b
      OBVIOUS
    <2>6. \A i \in 1..1 : Len(<<b>>[i]) \in Nat /\ Len(<<b>>[i]) <= MaxFrameContent
      BY <1>1, <2>5, ContentNat
    <2> QED BY <2>1, <2>4, <2>5, <2>6 DEF PiecesOf
  <1>2. ASSUME NEW b \in TooLong, PiecesOf(Behind(b, SplitAt(b)), Reshape[Behind(b, SplitAt(b))])
        PROVE  PiecesOf(b, Reshape[b])
    <2> DEFINE x == Upto(b, SplitAt(b))
               c == Behind(b, SplitAt(b))
               ps == Reshape[c]
    <2>1. /\ b \in Seq(Nat) /\ x \in Seq(Nat) /\ c \in Seq(Nat)
          /\ Len(x) \in Nat /\ Len(x) <= MaxFrameContent /\ SplitAt(b) \in 0..Len(b)
      BY SplitOf
    <2>2. Reshape[b] = <<x>> \o ps
      BY <2>1, ReshapeIs
    <2>3. x \o c = b
      BY <2>1, CutInTwo
    <2> HIDE DEF x, c
    <2>4. /\ ps \in Seq(Seq(Nat)) /\ FlattenSeq(ps) = c
          /\ Len(ps) = 1 \/ Len(ps) <= Len(c)
          /\ \A i \in 1..Len(ps) : Len(ps[i]) \in Nat /\ Len(ps[i]) <= MaxFrameContent
      BY <1>2 DEF PiecesOf, c
    <2> HIDE DEF ps
    <2>5. <<x>> = Append(<<>>, x) /\ <<>> \in Seq(Seq(Nat)) /\ <<x>> \in Seq(Seq(Nat))
      BY <2>1
    <2>6. FlattenSeq(Append(<<>>, x)) = FlattenSeq(<<>>) \o x
      BY <2>1, <2>5, FlattenAppend
    <2>7. FlattenSeq(<<x>>) = x
      BY <2>1, <2>5, <2>6, FlattenEmpty, ConcatEmptySeq
    <2>8. FlattenSeq(<<x>> \o ps) = FlattenSeq(<<x>>) \o FlattenSeq(ps)
      BY <2>4, <2>5, FlattenConcat
    <2>11. Len(c) < Len(b) /\ Len(b) >= 3 /\ Len(c) \in Nat /\ Len(b) \in Nat
      BY <2>1, SplitOf DEF c
    <2>9. /\ <<x>> \o ps \in Seq(Seq(Nat)) /\ <<x>> \o ps # <<>>
          /\ Len(<<x>> \o ps) <= Len(b)
          /\ \A i \in 1..Len(<<x>> \o ps) :
                Len((<<x>> \o ps)[i]) \in Nat /\ Len((<<x>> \o ps)[i]) <= MaxFrameContent
      <3> DEFINE y == <<x>> \o ps
                 one == <<x>>
      <3>1. one \in Seq(Seq(Nat)) /\ Len(one) = 1 /\ one[1] = x
        BY <2>5
      <3>2. /\ one \o ps \in Seq(Seq(Nat)) /\ Len(one \o ps) = Len(one) + Len(ps)
            /\ \A i \in 1..Len(one) + Len(ps) :
                  (one \o ps)[i] = IF i <= Len(one) THEN one[i] ELSE ps[i - Len(one)]
        <4> HIDE DEF one
        <4> QED BY <2>4, <3>1, ConcatProperties
      <3>3. /\ y \in Seq(Seq(Nat)) /\ Len(y) = 1 + Len(ps) /\ Len(ps) \in Nat
            /\ \A i \in 1..1 + Len(ps) : y[i] = IF i <= 1 THEN one[i] ELSE ps[i - 1]
        BY <2>4, <3>1, <3>2
      <3> HIDE DEF y, one
      <3>4. ASSUME NEW i \in 1..Len(y) PROVE Len(y[i]) \in Nat /\ Len(y[i]) <= MaxFrameContent
        <4>1. CASE i = 1
          BY <2>1, <3>1, <3>3, <4>1
        <4>2. CASE i # 1
          <5>1. i - 1 \in 1..Len(ps) /\ y[i] = ps[i - 1]
            BY <3>3, <4>2
          <5> QED BY <2>4, <5>1
        <4> QED BY <4>1, <4>2
      <3>5. y # <<>>
        BY <3>3
      <3>6. Len(y) <= Len(b)
        <4>1. PICK k \in Nat, l \in Nat, m \in Nat : k = Len(ps) /\ l = Len(b) /\ m = Len(c)
          BY <2>11, <3>3
        <4>2. (k = 1 \/ k <= m) /\ m < l /\ l >= 3
          BY <2>4, <2>11, <4>1
        <4>3. Len(y) = 1 + k
          BY <3>3, <4>1
        <4> QED BY <4>1, <4>2, <4>3
      <3> QED BY <3>3, <3>4, <3>5, <3>6 DEF y
    <2>10. FlattenSeq(<<x>> \o ps) = b
      BY <2>3, <2>4, <2>7, <2>8
    <2> QED BY <2>2, <2>9, <2>10 DEF PiecesOf
  <1>3. 0 \in T
    <2> SUFFICES ASSUME NEW b \in Seq(Nat), Len(b) <= 0 PROVE PiecesOf(b, Reshape[b])
      OBVIOUS
    <2>1. Len(b) < MaxFrameContent
      BY ContentNat
    <2> QED BY <1>1, <2>1
  <1>4. ASSUME NEW n \in Nat, n \in T PROVE n + 1 \in T
    <2> SUFFICES ASSUME NEW b \in Seq(Nat), Len(b) <= n + 1 PROVE PiecesOf(b, Reshape[b])
      OBVIOUS
    <2>1. CASE Len(b) < MaxFrameContent
      BY <1>1, <2>1
    <2>2. CASE ~(Len(b) < MaxFrameContent)
      <3>1. b \in TooLong
        BY <2>2, ContentNat DEF TooLong
      <3>2. Behind(b, SplitAt(b)) \in Seq(Nat) /\ Len(Behind(b, SplitAt(b))) < Len(b)
        BY <3>1, SplitOf
      <3>3. Len(Behind(b, SplitAt(b))) <= n
        BY <3>2
      <3> QED BY <1>2, <1>4, <3>1, <3>2, <3>3
    <2> QED BY <2>1, <2>2
  <1>5. \A n \in Nat : n \in T
    <2> HIDE DEF T
    <2> QED BY <1>3, <1>4, Induction
  <1> SUFFICES ASSUME NEW b \in Seq(Nat) PROVE PiecesOf(b, Reshape[b])
    OBVIOUS
  <1>6. Len(b) \in Nat /\ Len(b) <= Len(b)
    OBVIOUS
  <1> QED BY <1>5, <1>6

---------------------------------------------------------------------------
(***************************************************************************)
(* The padding of a frame, and which command each frame of a write is      *)
(* given.                                                                  *)
(***************************************************************************)
LEMMA PaddingFits ==
    ASSUME NEW n \in Nat, n <= MaxFrameContent, NEW long, NEW r \in Nat
    PROVE  /\ PaddingLen(n, long, r) \in Nat
           /\ UuidLen + 3 + n + PaddingLen(n, long, r) <= BufSize
           /\ PaddingLen(n, long, r) < FieldWidth
  <1> DEFINE room == SaturatingSub(BufSize, UuidLen + HeaderLen + n)
             d == Drawn(n, long, r)
  <1>1. room \in Nat /\ UuidLen + 3 + n + room = BufSize
    BY ContentNat DEF SaturatingSub, HeaderLen
  <1>2. d \in Nat
    <2>1. LongRange \in Nat \ {0} /\ ShortRange \in Nat \ {0} /\ LongBase \in Nat
      BY SizesAssumption
    <2>2. r % ShortRange \in Nat /\ (r % LongRange) + LongBase \in Nat
      BY <2>1
    <2>3. SaturatingSub((r % LongRange) + LongBase, n) \in Nat
      BY <2>2 DEF SaturatingSub
    <2> QED BY <2>2, <2>3 DEF Drawn
  <1> DEFINE m == PaddingLen(n, long, r)
  <1>3. m = CHOOSE x \in {d, room} : \A y \in {d, room} : x <= y
    BY DEF PaddingLen, Min
  <1> HIDE DEF d, room
  <1>4. \E x \in {d, room} : \A y \in {d, room} : x <= y
    <2>1. CASE d <= room
      BY <1>1, <1>2, <2>1
    <2>2. CASE ~(d <= room)
      BY <1>1, <1>2, <2>2
    <2> QED BY <2>1, <2>2
  <1>5. m \in {d, room} /\ m <= room
    BY <1>3, <1>4
  <1> HIDE DEF m
  <1>6. m \in Nat
    BY <1>1, <1>2, <1>5
  <1>7. UuidLen + 3 + n + m <= BufSize /\ m <= BufSize
    <2>1. PICK a \in Nat, b \in Nat, c \in Nat : a = room /\ b = BufSize /\ c = UuidLen
      BY <1>1, ContentNat
    <2>2. c + 3 + n + a = b /\ m <= a /\ b < FieldWidth
      BY <1>1, <1>5, <2>1, ContentNat
    <2>3. c + 3 + n + m <= b /\ m <= b
      BY <1>6, <2>1, <2>2
    <2> QED BY <2>1, <2>3
  <1>8. m < FieldWidth
    BY <1>6, <1>7, ContentNat
  <1> QED BY <1>6, <1>7, <1>8 DEF m

\* A frame begins with what is in front of its header.
LEMMA FrameBegins ==
    ASSUME NEW data \in Seq(Nat), NEW uuid \in Seq(Nat), NEW pad \in Nat, NEW command \in Commands,
           FieldWidth \in Nat \ {0}
    PROVE  \E w \in Seq(Nat) : XtlsPadding(data, command, uuid, pad) = uuid \o w
  <1> DEFINE three == <<CommandByte[command], Len(data) % FieldWidth, pad % FieldWidth>>
             zeros == [i \in 1..pad |-> 0]
  <1>1. three \in Seq(Nat) /\ zeros \in Seq(Nat)
    <2>1. CommandByte[command] \in Nat /\ Len(data) % FieldWidth \in Nat /\ pad % FieldWidth \in Nat
      BY DEF Commands, CommandByte
    <2> QED BY <2>1
  <1>2. XtlsPadding(data, command, uuid, pad) = ((uuid \o three) \o data) \o zeros
    BY DEF XtlsPadding
  <1> HIDE DEF three, zeros
  <1>3. /\ (uuid \o three) \o data = uuid \o (three \o data) /\ three \o data \in Seq(Nat)
        /\ (three \o data) \o zeros \in Seq(Nat)
    BY <1>1, ConcatBytes, SMTT(30)
  <1>4. (uuid \o (three \o data)) \o zeros = uuid \o ((three \o data) \o zeros)
    BY <1>1, <1>3, ConcatBytes
  <1> QED BY <1>2, <1>3, <1>4

LEMMA StopIs ==
    ASSUME NEW ts, NEW p, NEW n \in Nat, DOMAIN p.pieces = 1..n
    PROVE  StopAt(ts, p) \in 0..n
  <1> DEFINE open == {i \in DOMAIN p.pieces : ~InnerDone(ts, p, i)}
  <1>1. open \subseteq Nat /\ open \subseteq 1..n
    OBVIOUS
  <1>2. ASSUME open # {} PROVE (CHOOSE i \in open : \A j \in open : i <= j) \in open
    <2> HIDE DEF open
    <2>1. \E i \in open : \A j \in open : i <= j
      BY <1>1, <1>2, LeastNatural
    <2> QED BY <2>1
  <1>3. StopAt(ts, p) = IF GiveUp(ts) /\ open # {} THEN CHOOSE i \in open : \A j \in open : i <= j ELSE 0
    BY DEF StopAt
  <1> HIDE DEF open
  <1>4. CASE GiveUp(ts) /\ open # {}
    <2>1. StopAt(ts, p) \in open
      BY <1>2, <1>3, <1>4
    <2>2. StopAt(ts, p) \in 1..n
      BY <1>1, <2>1
    <2> QED BY <2>2
  <1>5. CASE ~(GiveUp(ts) /\ open # {})
    BY <1>3, <1>5
  <1> QED BY <1>4, <1>5

\* What PadInto makes of the i-th piece.
Framing(ts, p, i) == StopAt(ts, p) = 0 \/ i <= StopAt(ts, p)
Ended(ts, p, n, k) ==
    (StopAt(ts, p) > 0 /\ k >= StopAt(ts, p)) \/ (k = n /\ PaddingEnds(ts, p))

LEMMA CommandIs ==
    ASSUME NEW ts, NEW p, NEW n \in Nat, DOMAIN p.pieces = 1..n, Len(p.pieces) = n,
           NEW i \in 1..n, Framing(ts, p, i)
    PROVE  /\ Command(ts, p, i) \in Commands
           /\ (Command(ts, p, i) # "CONTINUE") <=> Ended(ts, p, n, i)
  <1>1. StopAt(ts, p) \in 0..n
    BY StopIs
  <1>2. CASE i = StopAt(ts, p)
    BY <1>1, <1>2 DEF Command, Ended, Commands
  <1>3. CASE i # StopAt(ts, p)
    <2>1. ~(StopAt(ts, p) > 0 /\ i >= StopAt(ts, p))
      BY <1>1, <1>3 DEF Framing
    <2>2. EndCommand(ts) \in {"DIRECT", "END"}
      BY DEF EndCommand
    <2> QED BY <1>3, <2>1, <2>2 DEF Command, Ended, Commands
  <1> QED BY <1>2, <1>3

---------------------------------------------------------------------------
(***************************************************************************)
(* A write, chunk by chunk: PadInto, pad_write_buf.                        *)
(***************************************************************************)
\* What has been read, with nothing left over.
ReadAll(u, c, v, d) ==
    /\ u \in Unpadders /\ v \in Unpadders /\ c \in Seq(Nat) /\ d \in Seq(Nat)
    /\ Unpad(u, c) = [u |-> v, buf |-> <<>>, out |-> d]

LEMMA ReadMore ==
    ASSUME NEW u, NEW c, NEW v, NEW d, NEW x, NEW w, NEW e, ReadAll(u, c, v, d), ReadAll(v, x, w, e)
    PROVE  ReadAll(u, c \o x, w, d \o e)
  <1> DEFINE r == Unpad(u, c)
  <1>1. /\ u \in Unpadders /\ v \in Unpadders /\ w \in Unpadders
        /\ c \in Seq(Nat) /\ x \in Seq(Nat) /\ d \in Seq(Nat) /\ e \in Seq(Nat)
        /\ r = [u |-> v, buf |-> <<>>, out |-> d]
        /\ Unpad(v, x) = [u |-> w, buf |-> <<>>, out |-> e]
    BY DEF ReadAll
  <1>2. Unpad(u, c \o x) = Prepend(r.out, Unpad(r.u, r.buf \o x))
    BY <1>1, UnpadInParts
  <1>3. r.u = v /\ r.buf \o x = x /\ r.out = d
    BY <1>1, ConcatEmptySeq
  <1> HIDE DEF r
  <1>4. Unpad(u, c \o x) = [u |-> w, buf |-> <<>>, out |-> d \o e]
    <2>1. Unpad(u, c \o x) = Prepend(d, Unpad(v, x))
      BY <1>2, <1>3
    <2>2. Unpad(u, c \o x) = Prepend(d, [u |-> w, buf |-> <<>>, out |-> e])
      BY <1>1, <2>1
    <2> QED BY <2>2 DEF Prepend
  <1>5. c \o x \in Seq(Nat) /\ d \o e \in Seq(Nat)
    BY <1>1
  <1> QED BY <1>1, <1>4, <1>5 DEF ReadAll

---------------------------------------------------------------------------
(* Writing                                                                  *)

Prefix(pd, uuid, i) == IF pd.fresh /\ i = 1 THEN uuid ELSE <<>>

\* The i-th chunk c of a write, made of the piece x.
ChunkIs(ts, p, pd, uuid, i, x, c) ==
    /\ Framing(ts, p, i) =>
          \E pad \in Nat : /\ c = XtlsPadding(x, Command(ts, p, i), Prefix(pd, uuid, i), pad)
                           /\ UuidLen + 3 + Len(x) + pad <= BufSize /\ pad < FieldWidth
    /\ ~Framing(ts, p, i) => c = x

Padding(ts, pd, data, uuid, rs) ==
    /\ pd.padding /\ data \in Seq(Nat) /\ data # <<>>
    /\ uuid \in Seq(Nat) /\ Len(uuid) = UuidLen
    /\ rs \in [1..Len(data) -> Nat]

LEMMA PacketPieces ==
    ASSUME NEW data \in Seq(Nat)
    PROVE  /\ Len(Reshape[data]) \in Nat \ {0}
           /\ DOMAIN PacketOf(data).pieces = 1..Len(Reshape[data])
           /\ Len(PacketOf(data).pieces) = Len(Reshape[data])
  <1> DEFINE ps == Reshape[data]
             q == [i \in DOMAIN ps |-> /\ Len(ps[i]) > RecordHeaderLen
                                       /\ IsPrefix(AppDataStart, ps[i])]
  <1>1. ps \in Seq(Seq(Nat)) /\ ps # <<>>
    BY ReshapePieces DEF PiecesOf
  <1>2. Len(ps) \in Nat \ {0} /\ DOMAIN ps = 1..Len(ps)
    BY <1>1
  <1>3. PacketOf(data).pieces = q
    BY DEF PacketOf
  <1> HIDE DEF ps
  <1>4. DOMAIN q = 1..Len(ps) /\ Len(q) = Len(ps)
    BY <1>2
  <1> QED BY <1>2, <1>3, <1>4 DEF ps

LEMMA Chunks ==
    ASSUME NEW ts, NEW pd, NEW data, NEW uuid, NEW rs, Padding(ts, pd, data, uuid, rs)
    PROVE  /\ DOMAIN PadInto(ts, pd, data, uuid, rs) = 1..Len(Reshape[data])
           /\ \A i \in 1..Len(Reshape[data]) :
                 ChunkIs(ts, PacketOf(data), pd, uuid, i, Reshape[data][i],
                         PadInto(ts, pd, data, uuid, rs)[i])
  <1> DEFINE p == PacketOf(data)
             ps == Reshape[data]
             n == Len(ps)
             cs == PadInto(ts, pd, data, uuid, rs)
             len(i) == PaddingLen(Len(ps[i]), LongPadding(ts, p, i), rs[i])
             frame(i) == XtlsPadding(ps[i], Command(ts, p, i), Prefix(pd, uuid, i), len(i))
  <1>1. /\ pd.padding /\ data \in Seq(Nat) /\ data # <<>> /\ rs \in [1..Len(data) -> Nat]
    BY DEF Padding
  <1>2. n \in Nat \ {0} /\ DOMAIN p.pieces = 1..n
    BY <1>1, PacketPieces
  <1>3. /\ ps \in Seq(Seq(Nat)) /\ (n = 1 \/ n <= Len(data))
        /\ \A i \in 1..n : Len(ps[i]) \in Nat /\ Len(ps[i]) <= MaxFrameContent
    BY <1>1, ReshapePieces DEF PiecesOf
  <1>4. DOMAIN ps = 1..n
    BY <1>3
  <1>5. cs = [i \in DOMAIN ps |-> IF StopAt(ts, p) > 0 /\ i > StopAt(ts, p) THEN ps[i] ELSE frame(i)]
    BY <1>1 DEF PadInto, Prefix
  <1>6. n <= Len(data)
    <2>1. Len(data) \in Nat \ {0}
      BY <1>1
    <2> HIDE DEF n
    <2> QED BY <1>2, <1>3, <2>1
  <1>7. StopAt(ts, p) \in 0..n
    <2> HIDE DEF p, n, ps
    <2> QED BY <1>2, StopIs
  <1> HIDE DEF p, ps, cs
  <1>8. ASSUME NEW i \in 1..n PROVE ChunkIs(ts, p, pd, uuid, i, ps[i], cs[i])
    <2>1. rs[i] \in Nat
      <3>1. i \in 1..Len(data)
        BY <1>1, <1>2, <1>6
      <3> QED BY <1>1, <3>1
    <2>2. Len(ps[i]) \in Nat /\ Len(ps[i]) <= MaxFrameContent
      BY <1>3
    <2>3. /\ len(i) \in Nat /\ UuidLen + 3 + Len(ps[i]) + len(i) <= BufSize
          /\ len(i) < FieldWidth
      BY <2>1, <2>2, PaddingFits
    <2> HIDE DEF len
    <2>4. CASE Framing(ts, p, i)
      <3>1. ~(StopAt(ts, p) > 0 /\ i > StopAt(ts, p))
        BY <1>2, <1>7, <2>4 DEF Framing
      <3>2. cs[i] = frame(i)
        BY <1>4, <1>5, <3>1
      <3> QED BY <2>3, <2>4, <3>2 DEF ChunkIs
    <2>5. CASE ~Framing(ts, p, i)
      <3>1. StopAt(ts, p) > 0 /\ i > StopAt(ts, p)
        BY <1>2, <1>7, <2>5 DEF Framing
      <3>2. cs[i] = ps[i]
        BY <1>4, <1>5, <3>1
      <3> QED BY <2>5, <3>2 DEF ChunkIs
    <2> QED BY <2>4, <2>5
  <1>9. DOMAIN cs = 1..n
    BY <1>4, <1>5
  <1> QED BY <1>8, <1>9 DEF p, ps, cs

\* A chunk is a sequence of bytes no longer than the reader's buffer.
LEMMA ChunkFits ==
    ASSUME NEW ts, NEW p, NEW pd, NEW uuid \in Seq(Nat), Len(uuid) = UuidLen, NEW n \in Nat,
           DOMAIN p.pieces = 1..n, Len(p.pieces) = n, NEW i \in 1..n,
           NEW x \in Seq(Nat), Len(x) <= MaxFrameContent, NEW c, ChunkIs(ts, p, pd, uuid, i, x, c)
    PROVE  c \in Seq(Nat) /\ Len(c) <= BufSize
  <1>0. /\ BufSize \in Nat /\ UuidLen \in Nat /\ FieldWidth \in Nat /\ MaxFrameContent \in Nat
        /\ MaxFrameContent <= BufSize /\ BufSize < FieldWidth
    BY ContentNat
  <1>1. CASE Framing(ts, p, i)
    <2>1. PICK pad \in Nat :
                /\ c = XtlsPadding(x, Command(ts, p, i), Prefix(pd, uuid, i), pad)
                /\ UuidLen + 3 + Len(x) + pad <= BufSize /\ pad < FieldWidth
      BY <1>1 DEF ChunkIs
    <2>2. Command(ts, p, i) \in Commands
      BY <1>1, CommandIs
    <2>3. Prefix(pd, uuid, i) \in Seq(Nat) /\ Len(Prefix(pd, uuid, i)) <= UuidLen /\ Len(Prefix(pd, uuid, i)) \in Nat
      BY <1>0 DEF Prefix
    <2>4. PICK l \in Nat : l = Len(x)
      OBVIOUS
    <2>5. Len(x) < FieldWidth
      BY <1>0, <2>1, <2>4
    <2>6. FrameIs(c, x, Command(ts, p, i), Len(Prefix(pd, uuid, i)), pad)
      BY <1>0, <2>1, <2>2, <2>3, <2>5, FrameParts
    <2>7. c \in Seq(Nat) /\ Len(c) = Len(Prefix(pd, uuid, i)) + 3 + l + pad
      BY <2>4, <2>6 DEF FrameIs
    <2> QED BY <1>0, <2>1, <2>3, <2>4, <2>7
  <1>2. CASE ~Framing(ts, p, i)
    <2>1. c = x
      BY <1>2 DEF ChunkIs
    <2> QED BY <1>0, <2>1
  <1> QED BY <1>1, <1>2

---------------------------------------------------------------------------
(***************************************************************************)
(* What the unpadder makes of one chunk.                                   *)
(***************************************************************************)
\* One chunk, read.
LEMMA ChunkRead ==
    ASSUME NEW ts, NEW p, NEW pd, NEW uuid \in Seq(Nat), Len(uuid) = UuidLen, NEW n \in Nat,
           DOMAIN p.pieces = 1..n, Len(p.pieces) = n, NEW i \in 1..n,
           NEW x \in Seq(Nat), Len(x) <= MaxFrameContent, NEW c, ChunkIs(ts, p, pd, uuid, i, x, c),
           NEW u \in Unpadders, ~u.failed, u.done <=> ~Framing(ts, p, i),
           u.expectUuid <=> (pd.fresh /\ i = 1)
    PROVE  \E v \in Unpadders : /\ ReadAll(u, c, v, x) /\ ~v.failed /\ ~v.expectUuid
                                /\ v.done <=> (~Framing(ts, p, i) \/ Ended(ts, p, n, i))
  <1>0. /\ BufSize \in Nat /\ UuidLen \in Nat /\ FieldWidth \in Nat /\ MaxFrameContent \in Nat
        /\ MaxFrameContent <= BufSize /\ BufSize < FieldWidth
    BY ContentNat
  <1>1. CASE Framing(ts, p, i)
    <2>1. PICK pad \in Nat :
                /\ c = XtlsPadding(x, Command(ts, p, i), Prefix(pd, uuid, i), pad)
                /\ UuidLen + 3 + Len(x) + pad <= BufSize /\ pad < FieldWidth
      BY <1>1 DEF ChunkIs
    <2>2. /\ Command(ts, p, i) \in Commands
          /\ (Command(ts, p, i) # "CONTINUE") <=> Ended(ts, p, n, i)
      BY <1>1, CommandIs
    <2> DEFINE pre == Prefix(pd, uuid, i)
               cmd == Command(ts, p, i)
               v == AfterCommand(cmd)
    <2>3. /\ pre \in Seq(Nat) /\ (u.expectUuid => Len(pre) = UuidLen)
          /\ (~u.expectUuid => Len(pre) = 0)
      <3>1. pd.fresh /\ i = 1 => pre = uuid
        BY DEF Prefix
      <3>2. ~(pd.fresh /\ i = 1) => pre = <<>>
        BY DEF Prefix
      <3>3. u.expectUuid <=> (pd.fresh /\ i = 1)
        OBVIOUS
      <3> HIDE DEF pre
      <3>4. CASE pd.fresh /\ i = 1
        <4>1. pre \in Seq(Nat) /\ Len(pre) = UuidLen
          BY <3>1, <3>4
        <4> QED BY <3>3, <3>4, <4>1
      <3>5. CASE ~(pd.fresh /\ i = 1)
        <4>1. pre \in Seq(Nat) /\ Len(pre) = 0
          BY <3>2, <3>5
        <4> QED BY <3>3, <3>5, <4>1
      <3> QED BY <3>4, <3>5
    <2>4. Len(x) < FieldWidth
      BY <1>0
    <2>5. v \in Unpadders /\ ~v.failed /\ ~v.expectUuid /\ (v.done <=> cmd # "CONTINUE")
      <3> HIDE DEF cmd
      <3> QED BY DEF Unpadders, AfterCommand
    <2> HIDE DEF pre, cmd, v
    <2>6. XtlsPadding(x, cmd, pre, pad) = c /\ cmd \in Commands
      BY <2>1, <2>2 DEF pre, cmd
    <2>7. ~u.done
      BY <1>1
    <2>8. Unpad(u, XtlsPadding(x, cmd, pre, pad)) = [u |-> AfterCommand(cmd), buf |-> <<>>, out |-> x]
      BY <1>0, <2>1, <2>3, <2>4, <2>6, <2>7, UnpadFrame
    <2>9. c \in Seq(Nat)
      BY ChunkFits
    <2>10. ReadAll(u, c, v, x)
      BY <2>5, <2>6, <2>8, <2>9 DEF ReadAll, v
    <2> QED BY <1>1, <2>2, <2>5, <2>10 DEF cmd
  <1>2. CASE ~Framing(ts, p, i)
    <2>1. c = x /\ u.done
      BY <1>2 DEF ChunkIs
    <2>2. Unpad(u, x) = [u |-> u, buf |-> <<>>, out |-> x]
      BY <2>1, UnpadPlain
    <2>3. ReadAll(u, c, u, x)
      BY <2>1, <2>2 DEF ReadAll
    <2>4. ~u.expectUuid
      <3>1. StopAt(ts, p) \in 0..n
        BY StopIs
      <3>2. i # 1
        BY <1>2, <3>1 DEF Framing
      <3> QED BY <3>2
    <2> QED BY <1>2, <2>1, <2>3, <2>4
  <1> QED BY <1>1, <1>2

---------------------------------------------------------------------------
(***************************************************************************)
(* And of one chunk after another.                                         *)
(***************************************************************************)
LEMMA UptoNext ==
    ASSUME NEW X, NEW s \in Seq(X), NEW n \in Nat, n + 1 <= Len(s)
    PROVE  Upto(s, n + 1) = Append(Upto(s, n), s[n + 1]) /\ s[n + 1] \in X /\ Upto(s, n) \in Seq(X)
  <1>1. n \in 0..Len(s) /\ n + 1 \in 0..Len(s) /\ n + 1 \in 1..Len(s)
    OBVIOUS
  <1> DEFINE a == Upto(s, n + 1)
             b == Upto(s, n)
             c == Append(b, s[n + 1])
  <1>2. a \in Seq(X) /\ Len(a) = n + 1 /\ \A i \in 1..n + 1 : a[i] = s[i]
    BY <1>1, UptoIs
  <1>3. b \in Seq(X) /\ Len(b) = n /\ \A i \in 1..n : b[i] = s[i]
    BY <1>1, UptoIs
  <1>4. s[n + 1] \in X
    BY <1>1
  <1> HIDE DEF a, b
  <1>5. c \in Seq(X) /\ Len(c) = n + 1 /\ (\A i \in 1..n : c[i] = b[i]) /\ c[n + 1] = s[n + 1]
    BY <1>3, <1>4, AppendProperties
  <1> HIDE DEF c
  <1>6. \A i \in 1..Len(a) : a[i] = c[i]
    <2> SUFFICES ASSUME NEW i \in 1..n + 1 PROVE a[i] = c[i]
      BY <1>2
    <2>1. CASE i = n + 1
      BY <1>2, <1>5, <2>1
    <2>2. CASE i # n + 1
      <3>1. i \in 1..n
        BY <2>2
      <3> QED BY <1>2, <1>3, <1>5, <3>1
    <2> QED BY <2>1, <2>2
  <1>7. a = c
    BY <1>2, <1>5, <1>6, SeqEqual
  <1> QED BY <1>3, <1>4, <1>7 DEF a, b, c

\* The first k chunks of a write are read as its first k pieces.
ReadUpto(ts, p, pd, uuid, n, cs, ps, u, k, v) ==
    /\ ReadAll(u, FlattenSeq(Upto(cs, k)), v, FlattenSeq(Upto(ps, k))) /\ ~v.failed
    /\ k = 0 => v = u
    /\ k > 0 => /\ ~v.expectUuid
                /\ v.done <=> Ended(ts, p, n, k)
                /\ pd.fresh => \E w \in Seq(Nat) : FlattenSeq(Upto(cs, k)) = uuid \o w

LEMMA ReadOneMore ==
    ASSUME NEW ts, NEW p, NEW pd, NEW uuid \in Seq(Nat), Len(uuid) = UuidLen, NEW n \in Nat,
           DOMAIN p.pieces = 1..n, Len(p.pieces) = n,
           NEW cs \in Seq(Seq(Nat)), NEW ps \in Seq(Seq(Nat)), Len(cs) = n, Len(ps) = n,
           \A i \in 1..n : ChunkIs(ts, p, pd, uuid, i, ps[i], cs[i]) /\ Len(ps[i]) <= MaxFrameContent,
           NEW u \in Unpadders, ~u.done, ~u.failed, u.expectUuid <=> pd.fresh,
           NEW k \in Nat, k + 1 <= n,
           NEW v \in Unpadders, ReadUpto(ts, p, pd, uuid, n, cs, ps, u, k, v)
    PROVE  \E w \in Unpadders : ReadUpto(ts, p, pd, uuid, n, cs, ps, u, k + 1, w)
  <1> DEFINE i == k + 1
             c == cs[k + 1]
             x == ps[k + 1]
             a == FlattenSeq(Upto(cs, k))
             b == FlattenSeq(Upto(ps, k))
  <1>0. i \in 1..n
    OBVIOUS
  <1>1. /\ Upto(cs, k + 1) = Append(Upto(cs, k), c) /\ c \in Seq(Nat) /\ Upto(cs, k) \in Seq(Seq(Nat))
    BY UptoNext
  <1>2. /\ Upto(ps, k + 1) = Append(Upto(ps, k), x) /\ x \in Seq(Nat) /\ Upto(ps, k) \in Seq(Seq(Nat))
    BY UptoNext
  <1>3. FlattenSeq(Upto(cs, k + 1)) = a \o c
    <2>1. FlattenSeq(Append(Upto(cs, k), c)) = FlattenSeq(Upto(cs, k)) \o c
      BY <1>1, FlattenAppend
    <2> QED BY <1>1, <2>1
  <1>4. FlattenSeq(Upto(ps, k + 1)) = b \o x
    <2>1. FlattenSeq(Append(Upto(ps, k), x)) = FlattenSeq(Upto(ps, k)) \o x
      BY <1>2, FlattenAppend
    <2> QED BY <1>2, <2>1
  <1>5. ReadAll(u, a, v, b) /\ ~v.failed
    BY DEF ReadUpto
  <1>6. StopAt(ts, p) \in 0..n
    BY StopIs
  <1>7. v.done <=> ~Framing(ts, p, i)
    <2>1. CASE k = 0
      <3>1. v = u
        BY <2>1 DEF ReadUpto
      <3>2. Framing(ts, p, i)
        BY <1>6, <2>1 DEF Framing
      <3> QED BY <3>1, <3>2
    <2>2. CASE k # 0
      <3>1. v.done <=> Ended(ts, p, n, k)
        BY <2>2 DEF ReadUpto
      <3>2. Ended(ts, p, n, k) <=> (StopAt(ts, p) > 0 /\ k >= StopAt(ts, p))
        BY <1>0 DEF Ended
      <3>3. (StopAt(ts, p) > 0 /\ k >= StopAt(ts, p)) <=> ~Framing(ts, p, i)
        BY <1>6 DEF Framing
      <3> QED BY <3>1, <3>2, <3>3
    <2> QED BY <2>1, <2>2
  <1>8. v.expectUuid <=> (pd.fresh /\ i = 1)
    <2>1. CASE k = 0
      <3>1. v = u /\ i = 1
        BY <2>1 DEF ReadUpto
      <3> QED BY <3>1
    <2>2. CASE k # 0
      <3>1. ~v.expectUuid
        BY <2>2 DEF ReadUpto
      <3> QED BY <2>2, <3>1
    <2> QED BY <2>1, <2>2
  <1>9. ChunkIs(ts, p, pd, uuid, i, x, c) /\ Len(x) <= MaxFrameContent
    BY <1>0
  <1> HIDE DEF i, c, x, a, b
  <1>10. PICK w \in Unpadders :
            /\ ReadAll(v, c, w, x) /\ ~w.failed /\ ~w.expectUuid
            /\ w.done <=> (~Framing(ts, p, i) \/ Ended(ts, p, n, i))
    <2>1. i \in 1..n /\ x \in Seq(Nat)
      BY <1>0, <1>2
    <2> QED BY <1>5, <1>7, <1>8, <1>9, <2>1, ChunkRead
  <1>11. ReadAll(u, a \o c, w, b \o x)
    BY <1>5, <1>10, ReadMore
  <1>12. w.done <=> Ended(ts, p, n, i)
    <2>1. ~Framing(ts, p, i) => Ended(ts, p, n, i)
      BY <1>0, <1>6 DEF Framing, Ended
    <2> QED BY <1>10, <2>1
  <1>13. ASSUME pd.fresh PROVE \E z \in Seq(Nat) : a \o c = uuid \o z
    <2>1. CASE k = 0
      <3>1. a = <<>>
        <4>1. Upto(cs, 0) = <<>>
          BY BehindZero
        <4> QED BY <2>1, <4>1, FlattenEmpty DEF a
      <3>2. Framing(ts, p, i) /\ i = 1
        BY <1>6, <2>1 DEF Framing, i
      <3>3. PICK pad \in Nat : c = XtlsPadding(x, Command(ts, p, i), Prefix(pd, uuid, i), pad)
        BY <1>9, <3>2 DEF ChunkIs
      <3>4. Prefix(pd, uuid, i) = uuid
        BY <1>13, <3>2 DEF Prefix
      <3>5. Command(ts, p, i) \in Commands
        BY <1>0, <3>2, CommandIs
      <3>6. FieldWidth \in Nat \ {0}
        BY ContentNat
      <3>7. \E z \in Seq(Nat) : XtlsPadding(x, Command(ts, p, i), uuid, pad) = uuid \o z
        BY <1>2, <3>5, <3>6, FrameBegins
      <3>8. a \o c = c
        BY <1>1, <3>1, ConcatEmptySeq
      <3> QED BY <3>3, <3>4, <3>7, <3>8
    <2>2. CASE k # 0
      <3>1. \E z \in Seq(Nat) : FlattenSeq(Upto(cs, k)) = uuid \o z
        <4>1. k > 0
          BY <2>2
        <4> QED BY <1>13, <4>1 DEF ReadUpto
      <3>2. PICK z \in Seq(Nat) : a = uuid \o z
        BY <3>1 DEF a
      <3>3. c \in Seq(Nat)
        BY <1>1
      <3>4. (uuid \o z) \o c = uuid \o (z \o c)
        BY <3>3, ConcatBytes
      <3>5. z \o c \in Seq(Nat)
        BY <3>3, ConcatParts
      <3>6. a \o c = uuid \o (z \o c)
        BY <3>2, <3>4
      <3> QED BY <3>5, <3>6
    <2> QED BY <2>1, <2>2
  <1>14. ReadAll(u, FlattenSeq(Upto(cs, k + 1)), w, FlattenSeq(Upto(ps, k + 1)))
    BY <1>3, <1>4, <1>11
  <1>15. pd.fresh => \E z \in Seq(Nat) : FlattenSeq(Upto(cs, k + 1)) = uuid \o z
    BY <1>3, <1>13
  <1>16. ReadUpto(ts, p, pd, uuid, n, cs, ps, u, k + 1, w)
    <2>1. k + 1 > 0 /\ k + 1 # 0
      OBVIOUS
    <2>2. w.done <=> Ended(ts, p, n, k + 1)
      BY <1>12 DEF i
    <2> QED BY <1>10, <1>14, <1>15, <2>1, <2>2, Zenon DEF ReadUpto
  <1> QED BY <1>16

---------------------------------------------------------------------------
(***************************************************************************)
(* And of a write: what is padded is read back, in order, and the padding  *)
(* ends for the reader where it ends for the writer.                       *)
(***************************************************************************)
LEMMA ReadUptoAll ==
    ASSUME NEW ts, NEW p, NEW pd, NEW uuid \in Seq(Nat), Len(uuid) = UuidLen, NEW n \in Nat,
           DOMAIN p.pieces = 1..n, Len(p.pieces) = n,
           NEW cs \in Seq(Seq(Nat)), NEW ps \in Seq(Seq(Nat)), Len(cs) = n, Len(ps) = n,
           \A i \in 1..n : ChunkIs(ts, p, pd, uuid, i, ps[i], cs[i]) /\ Len(ps[i]) <= MaxFrameContent,
           NEW u \in Unpadders, ~u.done, ~u.failed, u.expectUuid <=> pd.fresh
    PROVE  \E w \in Unpadders : ReadUpto(ts, p, pd, uuid, n, cs, ps, u, n, w)
  <1> DEFINE T == {k \in Nat : k <= n => \E w \in Unpadders : ReadUpto(ts, p, pd, uuid, n, cs, ps, u, k, w)}
  <1>1. 0 \in T
    <2>1. Upto(cs, 0) = <<>> /\ Upto(ps, 0) = <<>>
      BY BehindZero
    <2>2. Unpad(u, <<>>) = [u |-> u, buf |-> <<>>, out |-> <<>>]
      BY UnpadNothing
    <2>5. ReadAll(u, <<>>, u, <<>>)
      <3>1. <<>> \in Seq(Nat)
        OBVIOUS
      <3> QED BY <2>2, <3>1 DEF ReadAll
    <2>3. ReadAll(u, FlattenSeq(Upto(cs, 0)), u, FlattenSeq(Upto(ps, 0)))
      BY <2>1, <2>5, FlattenEmpty
    <2>4. ReadUpto(ts, p, pd, uuid, n, cs, ps, u, 0, u)
      BY <2>3 DEF ReadUpto
    <2> QED BY <2>4
  <1>2. ASSUME NEW k \in Nat, k \in T PROVE k + 1 \in T
    <2> SUFFICES ASSUME k + 1 <= n
                 PROVE \E w \in Unpadders : ReadUpto(ts, p, pd, uuid, n, cs, ps, u, k + 1, w)
      OBVIOUS
    <2>1. k <= n
      OBVIOUS
    <2>2. PICK v \in Unpadders : ReadUpto(ts, p, pd, uuid, n, cs, ps, u, k, v)
      BY <1>2, <2>1
    <2> HIDE DEF T
    <2> QED BY <2>2, ReadOneMore
  <1>3. \A k \in Nat : k \in T
    <2> HIDE DEF T
    <2> QED BY <1>1, <1>2, Induction
  <1> QED BY <1>3

\* A write in frames fits the reader's buffer frame by frame, starts with the
\* identity if it is the first, and is read back as what was written.
FramesOf(ts, pd, data, uuid, rs) == FlattenSeq(PadInto(ts, pd, data, uuid, rs))

Fits(cs) == /\ cs \in Seq(Seq(Nat))
            /\ \A i \in DOMAIN cs : Len(cs[i]) \in Nat /\ Len(cs[i]) <= BufSize

ReadBack(ts, pd, data, uuid, rs, u, v) ==
    /\ ReadAll(u, FramesOf(ts, pd, data, uuid, rs), v, data)
    /\ ~v.failed /\ ~v.expectUuid
    /\ v.done <=> PaddingEnds(ts, PacketOf(data))
    /\ pd.fresh => \E w \in Seq(Nat) : FramesOf(ts, pd, data, uuid, rs) = uuid \o w

\* Whatever is written and whatever the padding's generator draws, every
\* chunk that pad_write_buf writes fits the buffer it is built in.
THEOREM ChunksFit ==
    ASSUME NEW ts, NEW pd, NEW data, NEW uuid, NEW rs, Padding(ts, pd, data, uuid, rs)
    PROVE  Fits(PadInto(ts, pd, data, uuid, rs))
  <1> DEFINE p == PacketOf(data)
             ps == Reshape[data]
             n == Len(ps)
             cs == PadInto(ts, pd, data, uuid, rs)
  <1>1. /\ DOMAIN cs = 1..n
        /\ \A i \in 1..n : ChunkIs(ts, p, pd, uuid, i, ps[i], cs[i])
    BY Chunks
  <1>2. data \in Seq(Nat) /\ uuid \in Seq(Nat) /\ Len(uuid) = UuidLen
    BY DEF Padding
  <1>3. n \in Nat \ {0} /\ DOMAIN p.pieces = 1..n /\ Len(p.pieces) = n
    BY <1>2, PacketPieces
  <1>4. ps \in Seq(Seq(Nat)) /\ \A i \in 1..n : Len(ps[i]) <= MaxFrameContent /\ ps[i] \in Seq(Nat)
    <2>1. PiecesOf(data, ps)
      BY <1>2, ReshapePieces
    <2>2. ps \in Seq(Seq(Nat)) /\ \A i \in 1..n : Len(ps[i]) <= MaxFrameContent
      BY <2>1 DEF PiecesOf
    <2> HIDE DEF ps
    <2> QED BY <2>2
  <1>5. \E l \in Nat : \E f : cs = [i \in 1..l |-> f[i]]
    <2>1. cs = [i \in DOMAIN ps |->
                  IF StopAt(ts, p) > 0 /\ i > StopAt(ts, p) THEN ps[i]
                  ELSE XtlsPadding(ps[i], Command(ts, p, i), Prefix(pd, uuid, i),
                                   PaddingLen(Len(ps[i]), LongPadding(ts, p, i), rs[i]))]
      BY DEF PadInto, Prefix, Padding
    <2>2. cs = [i \in 1..n |-> cs[i]]
      BY <1>1, <2>1
    <2> HIDE DEF cs, n
    <2> QED BY <1>3, <2>2
  <1> HIDE DEF p, ps, cs, n
  <1>6. ASSUME NEW i \in 1..n PROVE cs[i] \in Seq(Nat) /\ Len(cs[i]) <= BufSize
    <2>1. ChunkIs(ts, p, pd, uuid, i, ps[i], cs[i]) /\ ps[i] \in Seq(Nat) /\ Len(ps[i]) <= MaxFrameContent
      BY <1>1, <1>4
    <2> QED BY <1>2, <1>3, <2>1, ChunkFits
  <1>7. cs = [i \in 1..n |-> cs[i]]
    BY <1>1, <1>5
  <1>8. cs \in Seq(Seq(Nat))
    <2>1. [i \in 1..n |-> cs[i]] \in Seq(Seq(Nat))
      BY <1>3, <1>6
    <2> QED BY <1>7, <2>1
  <1>9. Fits(cs)
    BY <1>1, <1>6, <1>8 DEF Fits
  <1> QED BY <1>9 DEF cs

\* What pad_write_buf writes for a buffer is read back as that buffer,
\* whatever is drawn for the padding; the reader leaves the padded part
\* exactly when the writer does, and the first frame of a connection starts
\* with the user's UUID.
THEOREM WriteAndRead ==
    ASSUME NEW ts, NEW pd, NEW data, NEW uuid, NEW rs, Padding(ts, pd, data, uuid, rs),
           NEW u \in Unpadders, ~u.done, ~u.failed, u.expectUuid <=> pd.fresh
    PROVE  \E v \in Unpadders : ReadBack(ts, pd, data, uuid, rs, u, v)
  <1> DEFINE p == PacketOf(data)
             ps == Reshape[data]
             n == Len(ps)
             cs == PadInto(ts, pd, data, uuid, rs)
  <1>1. /\ DOMAIN cs = 1..n
        /\ \A i \in 1..n : ChunkIs(ts, p, pd, uuid, i, ps[i], cs[i])
    BY Chunks
  <1>2. data \in Seq(Nat) /\ uuid \in Seq(Nat) /\ Len(uuid) = UuidLen
    BY DEF Padding
  <1>3. n \in Nat \ {0} /\ DOMAIN p.pieces = 1..n /\ Len(p.pieces) = n
    BY <1>2, PacketPieces
  <1>4. /\ ps \in Seq(Seq(Nat)) /\ \A i \in 1..n : Len(ps[i]) <= MaxFrameContent
        /\ FlattenSeq(ps) = data
    BY <1>2, ReshapePieces DEF PiecesOf
  <1>5. Fits(cs)
    BY ChunksFit
  <1>6. Len(cs) = n
    <2> HIDE DEF n, cs
    <2> QED BY <1>1, <1>3, <1>5 DEF Fits
  <1>7. cs \in Seq(Seq(Nat))
    BY <1>5 DEF Fits
  <1> HIDE DEF p, ps, cs, n
  <1>8. Len(ps) = n /\ n \in Nat /\ n # 0
    BY <1>3 DEF n
  <1>9. \A i \in 1..n : ChunkIs(ts, p, pd, uuid, i, ps[i], cs[i]) /\ Len(ps[i]) <= MaxFrameContent
    BY <1>1, <1>4
  <1>10. PICK v \in Unpadders : ReadUpto(ts, p, pd, uuid, n, cs, ps, u, n, v)
    BY <1>2, <1>3, <1>4, <1>6, <1>7, <1>8, <1>9, ReadUptoAll
  <1>11. Upto(cs, n) = cs /\ Upto(ps, n) = ps
    BY <1>4, <1>6, <1>7, <1>8, BehindZero
  <1>12. n > 0
    BY <1>8
  <1>13. Ended(ts, p, n, n) <=> PaddingEnds(ts, p)
    <2>1. StopAt(ts, p) \in 0..n
      BY <1>3, <1>8, StopIs
    <2> QED BY <2>1 DEF Ended, PaddingEnds
  <1>14. ReadAll(u, FlattenSeq(cs), v, data)
    BY <1>4, <1>10, <1>11 DEF ReadUpto
  <1>15. /\ ~v.failed /\ ~v.expectUuid
         /\ v.done <=> PaddingEnds(ts, p)
         /\ pd.fresh => \E w \in Seq(Nat) : FlattenSeq(cs) = uuid \o w
    BY <1>10, <1>11, <1>12, <1>13 DEF ReadUpto
  <1>16. ReadBack(ts, pd, data, uuid, rs, u, v)
    BY <1>14, <1>15 DEF ReadBack, FramesOf, cs, p
  <1> QED BY <1>16

---------------------------------------------------------------------------
(***************************************************************************)
(* Hex texts, parse_hex of config.rs.                                      *)
(***************************************************************************)
LEMMA HexDigitIs ==
    ASSUME NEW c \in Nat
    PROVE  /\ C!NibbleOf(c) = {} \/ \E v \in 0..15 : C!NibbleOf(c) = {v}
           /\ \A v \in 0..15 : c \in HexDigits(v) <=> v \in C!NibbleOf(c)
  <1>1. C!NibbleOf(c) = IF c \in 48..57 THEN {c - 48} ELSE IF c \in 97..102 THEN {c - 87}
                        ELSE IF c \in 65..70 THEN {c - 55} ELSE {}
    BY DEF C!NibbleOf, C!Digits
  <1>0. \A v \in 0..15 : c \in HexDigits(v) <=>
            (v < 10 /\ c = 48 + v) \/ (v >= 10 /\ (c = 55 + v \/ c = 87 + v))
    BY DEF HexDigits
  <1>2. CASE c \in 48..57
    <2>1. c - 48 \in 0..15 /\ C!NibbleOf(c) = {c - 48}
      BY <1>1, <1>2
    <2>2. \A v \in 0..15 : v = c - 48 <=> c \in HexDigits(v)
      BY <1>0, <1>2
    <2> QED BY <2>1, <2>2
  <1>3. CASE c \in 97..102
    <2>1. c - 87 \in 0..15 /\ C!NibbleOf(c) = {c - 87}
      BY <1>1, <1>3
    <2>2. \A v \in 0..15 : v = c - 87 <=> c \in HexDigits(v)
      BY <1>0, <1>3
    <2> QED BY <2>1, <2>2
  <1>4. CASE c \in 65..70
    <2>1. c - 55 \in 0..15 /\ C!NibbleOf(c) = {c - 55}
      BY <1>1, <1>4
    <2>2. \A v \in 0..15 : v = c - 55 <=> c \in HexDigits(v)
      BY <1>0, <1>4
    <2> QED BY <2>1, <2>2
  <1>5. CASE c \notin 48..57 /\ c \notin 97..102 /\ c \notin 65..70
    BY <1>0, <1>1, <1>5
  <1> QED BY <1>2, <1>3, <1>4, <1>5

\* A text's two digits for a byte.
LEMMA HexPair ==
    ASSUME NEW v \in 0..15, NEW w \in 0..15
    PROVE  v * 16 + w \in 0..255 /\ (v * 16 + w) \div 16 = v /\ (v * 16 + w) % 16 = w
  OBVIOUS

LEMMA TextCells == \A text \in Seq(0..127) : \A i \in DOMAIN text : text[i] \in Nat
  <1> SUFFICES ASSUME NEW text \in Seq(0..127), NEW i \in DOMAIN text PROVE text[i] \in Nat
    OBVIOUS
  <1>1. text[i] \in 0..127
    <2>1. \A X : \A s \in Seq(X) : \A k \in DOMAIN s : s[k] \in X
      OBVIOUS
    <2> QED BY <2>1
  <1>2. \A c \in 0..127 : c \in Nat
    OBVIOUS
  <1> QED BY <1>1, <1>2

\* parse_hex either refuses a text or returns the bytes that the text
\* writes.
THEOREM HexRead ==
    ASSUME NEW text \in Seq(0..127)
    PROVE  C!ParseHex(text) = {} \/ \E b \in Seq(0..255) : C!ParseHex(text) = {b} /\ WritesHex(text, b)
  <1> DEFINE bad == \E i \in DOMAIN text : C!NibbleOf(text[i]) = {}
             nibble(i) == CHOOSE v \in C!NibbleOf(text[i]) : TRUE
             b == [i \in 1..(Len(text) \div 2) |-> nibble(2 * i - 1) * 16 + nibble(2 * i)]
  <1>1. C!ParseHex(text) = IF Len(text) % 2 # 0 \/ bad THEN {} ELSE {b}
    BY DEF C!ParseHex
  <1> SUFFICES ASSUME Len(text) % 2 = 0, ~bad PROVE b \in Seq(0..255) /\ WritesHex(text, b)
    BY <1>1
  <1>2. Len(text) \in Nat /\ DOMAIN text = 1..Len(text)
    OBVIOUS
  <1>3. PICK n \in Nat : n = Len(text) \div 2 /\ Len(text) = 2 * n
    <2>1. \A l \in Nat : l % 2 = 0 => l \div 2 \in Nat /\ l = 2 * (l \div 2)
      OBVIOUS
    <2>2. Len(text) \div 2 \in Nat /\ Len(text) = 2 * (Len(text) \div 2)
      BY <1>2, <2>1
    <2> QED BY <2>2
  <1>4. ASSUME NEW i \in 1..Len(text)
        PROVE  nibble(i) \in 0..15 /\ text[i] \in HexDigits(nibble(i))
    <2>1. i \in DOMAIN text /\ C!NibbleOf(text[i]) # {}
      BY <1>2
    <2>6. text[i] \in Nat
      BY <2>1, TextCells
    <2>2. PICK v \in 0..15 : C!NibbleOf(text[i]) = {v}
      BY <2>1, <2>6, HexDigitIs
    <2>3. text[i] \in HexDigits(v)
      BY <2>6, <2>2, HexDigitIs
    <2>4. nibble(i) = v
      BY <2>2
    <2> QED BY <2>3, <2>4
  <1> HIDE DEF nibble, bad
  <1>5. ASSUME NEW i \in 1..n
        PROVE  /\ 2 * i - 1 \in 1..Len(text) /\ 2 * i \in 1..Len(text)
               /\ b[i] = nibble(2 * i - 1) * 16 + nibble(2 * i)
    BY <1>3
  <1>6. ASSUME NEW i \in 1..n
        PROVE  /\ b[i] \in 0..255 /\ b[i] \div 16 = nibble(2 * i - 1) /\ b[i] % 16 = nibble(2 * i)
    <2>1. PICK v \in 0..15, w \in 0..15 : v = nibble(2 * i - 1) /\ w = nibble(2 * i)
      BY <1>4, <1>5
    <2>2. b[i] = v * 16 + w
      BY <1>5, <2>1
    <2> HIDE DEF b
    <2>3. v * 16 + w \in 0..255 /\ (v * 16 + w) \div 16 = v /\ (v * 16 + w) % 16 = w
      BY HexPair
    <2> QED BY <2>1, <2>2, <2>3
  <1>7. DOMAIN b = 1..n /\ b = [i \in 1..n |-> b[i]]
    BY <1>3
  <1> HIDE DEF b
  <1>8. b \in Seq(0..255) /\ Len(b) = n
    <2>1. [i \in 1..n |-> b[i]] \in Seq(0..255) /\ Len([i \in 1..n |-> b[i]]) = n
      BY <1>6
    <2> QED BY <1>7, <2>1, ZenonT(30)
  <1>9. IsHex(text, Len(b))
    BY <1>2, <1>3, <1>4, <1>8 DEF IsHex
  <1>10. \A i \in DOMAIN b : /\ text[2 * i - 1] \in HexDigits(b[i] \div 16)
                             /\ text[2 * i] \in HexDigits(b[i] % 16)
    BY <1>4, <1>5, <1>6, <1>7
  <1> QED BY <1>8, <1>9, <1>10 DEF WritesHex

LEMMA HexIs ==
    ASSUME NEW text \in Seq(0..127), NEW n \in Nat, IsHex(text, n)
    PROVE  C!ParseHex(text) # {}
  <1> DEFINE bad == \E i \in DOMAIN text : C!NibbleOf(text[i]) = {}
             nibble(i) == CHOOSE v \in C!NibbleOf(text[i]) : TRUE
             b == [i \in 1..(Len(text) \div 2) |-> nibble(2 * i - 1) * 16 + nibble(2 * i)]
  <1>1. C!ParseHex(text) = IF Len(text) % 2 # 0 \/ bad THEN {} ELSE {b}
    BY DEF C!ParseHex
  <1>2. Len(text) % 2 = 0
    BY DEF IsHex
  <1>3. ASSUME NEW i \in DOMAIN text PROVE C!NibbleOf(text[i]) # {}
    <2>1. text[i] \in Nat
      BY TextCells
    <2>2. PICK v \in 0..15 : text[i] \in HexDigits(v)
      BY DEF IsHex
    <2>3. v \in C!NibbleOf(text[i])
      BY <2>1, <2>2, HexDigitIs
    <2> QED BY <2>3
  <1> QED BY <1>1, <1>2, <1>3

\* A text writes one sequence of bytes.
LEMMA HexUnique ==
    ASSUME NEW text \in Seq(0..127), NEW a \in Seq(0..255), NEW b \in Seq(0..255),
           WritesHex(text, a), WritesHex(text, b)
    PROVE  a = b
  <1>1. Len(a) \in Nat /\ Len(b) \in Nat /\ DOMAIN a = 1..Len(a) /\ DOMAIN b = 1..Len(b)
    OBVIOUS
  <1>2. Len(text) = 2 * Len(a) /\ Len(text) = 2 * Len(b)
    BY DEF WritesHex, IsHex
  <1>3. Len(a) = Len(b)
    <2>1. \A k, m \in Nat : 2 * k = 2 * m => k = m
      OBVIOUS
    <2> QED BY <1>1, <1>2, <2>1
  <1>4. ASSUME NEW i \in 1..Len(a) PROVE a[i] = b[i]
    <2>1. /\ a[i] \in 0..255 /\ b[i] \in 0..255 /\ i \in DOMAIN a /\ i \in DOMAIN b
          /\ 2 * i - 1 \in DOMAIN text /\ 2 * i \in DOMAIN text
      BY <1>1, <1>2, <1>3
    <2>2. text[2 * i - 1] \in Nat /\ text[2 * i] \in Nat
      BY <2>1, TextCells
    <2>3. /\ text[2 * i - 1] \in HexDigits(a[i] \div 16) /\ text[2 * i - 1] \in HexDigits(b[i] \div 16)
          /\ text[2 * i] \in HexDigits(a[i] % 16) /\ text[2 * i] \in HexDigits(b[i] % 16)
      BY <2>1 DEF WritesHex
    <2>4. \A x \in 0..255 : x \div 16 \in 0..15 /\ x % 16 \in 0..15
      OBVIOUS
    <2>5. a[i] \div 16 = b[i] \div 16 /\ a[i] % 16 = b[i] % 16
      <3>1. \A c \in Nat : \A v, w \in 0..15 : c \in HexDigits(v) /\ c \in HexDigits(w) => v = w
        BY HexDigitIs
      <3> QED BY <2>1, <2>2, <2>3, <2>4, <3>1
    <2>6. \A x, y \in 0..255 : x \div 16 = y \div 16 /\ x % 16 = y % 16 => x = y
      OBVIOUS
    <2> QED BY <2>1, <2>5, <2>6
  <1> QED BY <1>3, <1>4, SeqEqual

---------------------------------------------------------------------------
(***************************************************************************)
(* Base64 texts: the low twelve bits of base64_decode's accumulator, whose *)
(* upper bits overflow, are the last two characters.                       *)
(***************************************************************************)
Sextet == 0..63
Cells12 == 0..4095
Bytes8 == 0..255

LEMMA Product == \A k, q \in Nat : 4096 * (k * q) = (4096 * k) * q /\ k * q \in Nat
  OBVIOUS

LEMMA DivMod == \A x \in Nat : \A d \in Nat \ {0} :
                   x = d * (x \div d) + (x % d) /\ x \div d \in Nat /\ x % d \in 0..(d - 1)
  OBVIOUS

LEMMA ModOfMultiple == \A z, r \in Nat : (4096 * z + r) % 4096 = r % 4096
  OBVIOUS

\* The last twelve bits.
Low12(b) == b % 4096

LEMMA ModMod ==
    ASSUME NEW x \in Nat, NEW w \in Nat, w > 0, w % 4096 = 0
    PROVE  Low12(x % w) = Low12(x)
  <1>1. PICK k \in Nat : w = 4096 * k
    <2>1. w = 4096 * (w \div 4096) /\ w \div 4096 \in Nat
      OBVIOUS
    <2> QED BY <2>1
  <1>2. PICK q \in Nat, r \in Nat : x = w * q + r /\ r = x % w
    <2>1. x = w * (x \div w) + (x % w) /\ x \div w \in Nat /\ x % w \in Nat
      <3>1. w \in Nat \ {0}
        OBVIOUS
      <3>2. x = w * (x \div w) + (x % w) /\ x \div w \in Nat /\ x % w \in 0..(w - 1)
        BY <3>1, DivMod
      <3> QED BY <3>2
    <2> QED BY <2>1
  <1>3. w * q = 4096 * (k * q) /\ k * q \in Nat
    BY <1>1, Product
  <1>4. PICK z \in Nat : z = k * q
    BY <1>3
  <1>5. x = 4096 * z + r
    BY <1>2, <1>3, <1>4
  <1> QED BY <1>2, <1>5, ModOfMultiple DEF Low12

Twelve(v, w) == 64 * v + w
Out(b, d) == (b \div d) % 256

LEMMA TwelveIs == \A v, w \in Sextet : Twelve(v, w) \in Cells12
  BY DEF Twelve, Sextet, Cells12

LEMMA ShiftIn == \A b \in Nat : \A v \in Sextet :
                    b * 64 + v \in Nat /\ Low12(b * 64 + v) = Twelve(b % 64, v)
  BY DEF Low12, Twelve, Sextet

LEMMA LowSextet ==
    \A b \in Nat : \A p, q \in Sextet : Low12(b) = Twelve(p, q) => b % 64 = q
  BY DEF Low12, Twelve, Sextet

LEMMA OutIs == \A b \in Nat : \A c \in Cells12 : \A d \in {1, 4, 16} :
                  /\ Out(b, d) \in Bytes8
                  /\ Low12(b) = c => Out(b, d) = Out(c, d)
  <1> SUFFICES ASSUME NEW b \in Nat, NEW c \in Cells12
               PROVE  \A d \in {1, 4, 16} : /\ Out(b, d) \in Bytes8
                                            /\ Low12(b) = c => Out(b, d) = Out(c, d)
    OBVIOUS
  <1>1. Out(b, 1) \in Bytes8 /\ (Low12(b) = c => Out(b, 1) = Out(c, 1))
    BY DEF Out, Low12, Cells12, Bytes8
  <1>2. Out(b, 4) \in Bytes8 /\ (Low12(b) = c => Out(b, 4) = Out(c, 4))
    BY DEF Out, Low12, Cells12, Bytes8
  <1>3. Out(b, 16) \in Bytes8 /\ (Low12(b) = c => Out(b, 16) = Out(c, 16))
    BY DEF Out, Low12, Cells12, Bytes8
  <1> QED BY <1>1, <1>2, <1>3

LEMMA ByteAt ==
    ASSUME NEW i \in Nat, NEW l \in Nat, NEW bits \in {0, 2, 4, 6}, 6 * i = 8 * l + bits
    PROVE  /\ (6 * i) \div 8 = l
           /\ bits = 0 => (6 * (i + 1)) \div 8 = l
           /\ bits # 0 => /\ (6 * (i + 1)) \div 8 = l + 1 /\ (4 * l) \div 3 + 1 = i /\ i # 0
                          /\ bits = 2 => (l + 1) % 3 = 0
                          /\ bits = 4 => (l + 1) % 3 = 2
                          /\ bits = 6 => (l + 1) % 3 = 1
  <1>1. CASE bits = 0
    BY <1>1
  <1>2. CASE bits = 2
    BY <1>2
  <1>3. CASE bits = 4
    BY <1>3
  <1>4. CASE bits = 6
    BY <1>4
  <1> QED BY <1>1, <1>2, <1>3, <1>4

LEMMA SextetIs ==
    ASSUME NEW c \in Nat
    PROVE  /\ C!SextetOf(c) = {} \/ \E v \in 0..63 : C!SextetOf(c) = {v}
           /\ \A v \in 0..63 : c \in Base64Chars(v) <=> v \in C!SextetOf(c)
  <1>0. \A v \in 0..63 : c \in Base64Chars(v) <=>
            \/ v < 26 /\ c = 65 + v
            \/ v \in 26..51 /\ c = 71 + v
            \/ v \in 52..61 /\ c = v - 4
            \/ v = 62 /\ c \in {43, 45}
            \/ v = 63 /\ c \in {47, 95}
    <2> SUFFICES ASSUME NEW v \in 0..63
                 PROVE  c \in Base64Chars(v) <=>
                          \/ v < 26 /\ c = 65 + v
                          \/ v \in 26..51 /\ c = 71 + v
                          \/ v \in 52..61 /\ c = v - 4
                          \/ v = 62 /\ c \in {43, 45}
                          \/ v = 63 /\ c \in {47, 95}
      OBVIOUS
    <2>1. CASE v < 26
      BY <2>1 DEF Base64Chars
    <2>2. CASE v \in 26..51
      BY <2>2 DEF Base64Chars
    <2>3. CASE v \in 52..61
      BY <2>3 DEF Base64Chars
    <2>4. CASE v = 62
      BY <2>4 DEF Base64Chars
    <2>5. CASE v = 63
      BY <2>5 DEF Base64Chars
    <2> QED BY <2>1, <2>2, <2>3, <2>4, <2>5
  <1>1. C!SextetOf(c) = IF c \in 65..90 THEN {c - 65} ELSE IF c \in 97..122 THEN {c - 71}
                        ELSE IF c \in 48..57 THEN {c + 4} ELSE IF c \in {43, 45} THEN {62}
                        ELSE IF c \in {47, 95} THEN {63} ELSE {}
    BY DEF C!SextetOf, C!Upper, C!Lower, C!Digits
  <1>2. CASE c \in 65..90
    <2>1. c - 65 \in 0..63 /\ C!SextetOf(c) = {c - 65}
      BY <1>1, <1>2
    <2>2. \A v \in 0..63 : v = c - 65 <=> c \in Base64Chars(v)
      BY <1>0, <1>2
    <2> QED BY <2>1, <2>2
  <1>3. CASE c \in 97..122
    <2>1. c - 71 \in 0..63 /\ C!SextetOf(c) = {c - 71}
      BY <1>1, <1>3
    <2>2. \A v \in 0..63 : v = c - 71 <=> c \in Base64Chars(v)
      BY <1>0, <1>3
    <2> QED BY <2>1, <2>2
  <1>4. CASE c \in 48..57
    <2>1. c + 4 \in 0..63 /\ C!SextetOf(c) = {c + 4}
      BY <1>1, <1>4
    <2>2. \A v \in 0..63 : v = c + 4 <=> c \in Base64Chars(v)
      BY <1>0, <1>4
    <2> QED BY <2>1, <2>2
  <1>5. CASE c \in {43, 45}
    <2>1. 62 \in 0..63 /\ C!SextetOf(c) = {62}
      BY <1>1, <1>5
    <2>2. \A v \in 0..63 : v = 62 <=> c \in Base64Chars(v)
      BY <1>0, <1>5
    <2> QED BY <2>1, <2>2
  <1>6. CASE c \in {47, 95}
    <2>1. 63 \in 0..63 /\ C!SextetOf(c) = {63}
      BY <1>1, <1>6
    <2>2. \A v \in 0..63 : v = 63 <=> c \in Base64Chars(v)
      BY <1>0, <1>6
    <2> QED BY <2>1, <2>2
  <1>7. CASE c \notin 65..90 /\ c \notin 97..122 /\ c \notin 48..57 /\ c \notin {43, 45, 47, 95}
    <2>1. C!SextetOf(c) = {}
      BY <1>1, <1>7
    <2>2. \A v \in 0..63 : c \notin Base64Chars(v)
      BY <1>0, <1>7
    <2> QED BY <2>1, <2>2
  <1> QED BY <1>2, <1>3, <1>4, <1>5, <1>6, <1>7

---------------------------------------------------------------------------
(***************************************************************************)
(* One character of base64_decode: at every third of four characters there *)
(* is a byte to put out.                                                   *)
(***************************************************************************)
Accs == [buf : Nat, bits : {0, 2, 4, 6}, out : Seq(0..255)]
Value(s, i) == IF i = 0 THEN 0 ELSE CHOOSE v \in C!SextetOf(s[i]) : TRUE
FirstOf(k) == (4 * (k - 1)) \div 3 + 1

\* What the first i characters of s are decoded to.
Decoded(s, i, acc) ==
    /\ acc \in Accs /\ 6 * i = 8 * Len(acc.out) + acc.bits
    /\ i = 0 => acc.buf = 0
    /\ i > 0 => Low12(acc.buf) = Twelve(Value(s, i - 1), Value(s, i))
    /\ \A k \in 1..Len(acc.out) :
          /\ FirstOf(k) \in 1..i /\ FirstOf(k) + 1 \in 1..i
          /\ InSextets(acc.out[k], k, Value(s, FirstOf(k)), Value(s, FirstOf(k) + 1))

LEMMA TakeIs ==
    ASSUME NEW acc \in Accs, NEW v \in Sextet
    PROVE  LET b == (acc.buf * 64 + v) % AccWidth
           IN  /\ acc.bits = 0 => C!TakeSextet(acc, v) = [buf |-> b, bits |-> 6, out |-> acc.out]
               /\ acc.bits # 0 => C!TakeSextet(acc, v) =
                     [buf |-> b, bits |-> acc.bits - 2,
                      out |-> Append(acc.out, (b \div C!Weight[acc.bits - 2]) % 256)]
  <1> DEFINE b == (acc.buf * 64 + v) % AccWidth
  <1>1. acc.bits \in {0, 2, 4, 6} /\ acc = [buf |-> acc.buf, bits |-> acc.bits, out |-> acc.out]
    BY DEF Accs
  <1>2. C!TakeSextet(acc, v) =
          IF acc.bits + 6 < 8 THEN [buf |-> b, bits |-> acc.bits + 6, out |-> acc.out]
          ELSE [buf |-> b, bits |-> (acc.bits + 6) - 8,
                out |-> Append(acc.out, (b \div C!Weight[(acc.bits + 6) - 8]) % 256)]
    BY DEF C!TakeSextet
  <1> HIDE DEF b
  <1>3. CASE acc.bits = 0
    <2>1. C!TakeSextet(acc, v) = [buf |-> b, bits |-> 6, out |-> acc.out]
      BY <1>2, <1>3
    <2> QED BY <1>3, <2>1 DEF b
  <1>4. CASE acc.bits # 0
    <2>1. (acc.bits + 6) - 8 = acc.bits - 2 /\ ~(acc.bits + 6 < 8)
      BY <1>1, <1>4
    <2>2. C!TakeSextet(acc, v) = [buf |-> b, bits |-> acc.bits - 2,
                out |-> Append(acc.out, (b \div C!Weight[acc.bits - 2]) % 256)]
      BY <1>2, <2>1
    <2> QED BY <1>4, <2>2 DEF b
  <1> QED BY <1>3, <1>4

LEMMA WeightIs == C!Weight[0] = 1 /\ C!Weight[2] = 4 /\ C!Weight[4] = 16
  BY DEF C!Weight

\* The byte that uses up k bytes' worth of sextets, and the bits left before it.
Third(bits, k) == /\ bits = 2 => k % 3 = 0
                  /\ bits = 4 => k % 3 = 2
                  /\ bits = 6 => k % 3 = 1

EndsIn(b, v, w) == Low12(b) = Twelve(v, w)

LEMMA ByteIs ==
    ASSUME NEW b \in Nat, NEW v \in Sextet, NEW w \in Sextet, EndsIn(b, v, w),
           NEW bits \in {2, 4, 6}, NEW k \in Nat, Third(bits, k)
    PROVE  /\ InSextets((b \div C!Weight[bits - 2]) % 256, k, v, w)
           /\ (b \div C!Weight[bits - 2]) % 256 \in Bytes8
  <1>1. \A d \in {1, 4, 16} : Out(b, d) \in Bytes8 /\ Out(b, d) = Out(Twelve(v, w), d)
    <2>4. Twelve(v, w) \in Cells12
      BY TwelveIs
    <2>1. PICK c \in Cells12 : c = Twelve(v, w)
      BY <2>4
    <2>2. Low12(b) = c
      BY <2>1 DEF EndsIn
    <2>5. \A d \in {1, 4, 16} : /\ Out(b, d) \in Bytes8
                                /\ Low12(b) = c => Out(b, d) = Out(c, d)
      BY OutIs
    <2>3. \A d \in {1, 4, 16} : Out(b, d) \in Bytes8 /\ Out(b, d) = Out(c, d)
      BY <2>2, <2>5
    <2> QED BY <2>1, <2>3
  <1> DEFINE m == CASE k % 3 = 1 -> 16 [] k % 3 = 2 -> 4 [] k % 3 = 0 -> 1
  <1>2. \A y : InSextets(y, k, v, w) <=> y = Out(Twelve(v, w), m)
    BY DEF InSextets, Out, Twelve
  <1>3. m \in {1, 4, 16} /\ C!Weight[bits - 2] = m
    <2>1. CASE bits = 2
      BY <2>1, WeightIs DEF Third
    <2>2. CASE bits = 4
      BY <2>2, WeightIs DEF Third
    <2>3. CASE bits = 6
      BY <2>3, WeightIs DEF Third
    <2> QED BY <2>1, <2>2, <2>3
  <1> HIDE DEF m
  <1>4. (b \div C!Weight[bits - 2]) % 256 = Out(b, m)
    BY <1>3 DEF Out
  <1> QED BY <1>1, <1>2, <1>3, <1>4

LEMMA TakeDecoded ==
    ASSUME NEW s, NEW i \in Nat, NEW acc, Decoded(s, i, acc), NEW v \in Sextet,
           v = Value(s, i + 1), Value(s, i) \in Sextet, i > 0 => Value(s, i - 1) \in Sextet
    PROVE  Decoded(s, i + 1, C!TakeSextet(acc, v))
  <1> DEFINE b == (acc.buf * 64 + v) % AccWidth
             t == C!TakeSextet(acc, v)
             l == Len(acc.out)
  <1>1. /\ acc.buf \in Nat /\ acc.bits \in {0, 2, 4, 6} /\ acc.out \in Seq(0..255) /\ acc \in Accs
        /\ l \in Nat /\ 6 * i = 8 * l + acc.bits
    BY DEF Decoded, Accs
  <1>2. AccWidth \in Nat /\ AccWidth > 0 /\ AccWidth % 4096 = 0
    BY WidthsAssumption
  <1>3. b \in Nat /\ Low12(b) = Twelve(Value(s, i), v)
    <2>1. PICK x \in Nat : x = acc.buf * 64 + v /\ Low12(x) = Twelve(acc.buf % 64, v)
      BY <1>1, ShiftIn
    <2>2. Low12(x % AccWidth) = Low12(x) /\ x % AccWidth \in Nat
      BY <1>2, ModMod
    <2>4. acc.buf % 64 = Value(s, i)
      <3>1. CASE i = 0
        <4>1. acc.buf = 0 /\ Value(s, i) = 0
          BY <3>1 DEF Decoded, Value
        <4> QED BY <4>1
      <3>2. CASE i # 0
        <4>1. i > 0 /\ Low12(acc.buf) = Twelve(Value(s, i - 1), Value(s, i))
          BY <3>2 DEF Decoded
        <4>2. Value(s, i - 1) \in Sextet /\ Value(s, i) \in Sextet
          BY <4>1
        <4> HIDE DEF l
        <4> QED BY <1>1, <4>1, <4>2, LowSextet
      <3> QED BY <3>1, <3>2
    <2> QED BY <2>1, <2>2, <2>4
  <1>4. /\ i + 1 > 0 /\ i + 1 # 0 /\ (i + 1) - 1 = i
    OBVIOUS
  <1>5. \A k \in 1..l :
           /\ FirstOf(k) \in 1..(i + 1) /\ FirstOf(k) + 1 \in 1..(i + 1)
           /\ InSextets(acc.out[k], k, Value(s, FirstOf(k)), Value(s, FirstOf(k) + 1))
    <2>1. \A k \in 1..l :
           /\ FirstOf(k) \in 1..i /\ FirstOf(k) + 1 \in 1..i
           /\ InSextets(acc.out[k], k, Value(s, FirstOf(k)), Value(s, FirstOf(k) + 1))
      BY DEF Decoded
    <2>2. \A j \in 1..i : j \in 1..(i + 1)
      OBVIOUS
    <2> QED BY <2>1, <2>2
  <1>6. CASE acc.bits = 0
    <2>1. t = [buf |-> b, bits |-> 6, out |-> acc.out]
      BY <1>1, <1>6, TakeIs
    <2> HIDE DEF t, b
    <2>2. t.buf = b /\ t.bits = 6 /\ t.out = acc.out
      BY <2>1
    <2>3. t \in Accs
      BY <1>1, <1>3, <2>1 DEF Accs
    <2>4. 6 * (i + 1) = 8 * Len(t.out) + t.bits
      <3>1. PICK m \in Nat : m = l
        BY <1>1
      <3>2. 6 * i = 8 * m
        BY <1>1, <1>6, <3>1 DEF l
      <3>3. Len(t.out) = m /\ t.bits = 6
        BY <2>2, <3>1
      <3> QED BY <3>2, <3>3
    <2>5. Low12(t.buf) = Twelve(Value(s, (i + 1) - 1), Value(s, i + 1))
      BY <1>3, <1>4, <2>2
    <2>6. Decoded(s, i + 1, t)
      <3>1. \A k \in 1..Len(t.out) :
              /\ FirstOf(k) \in 1..(i + 1) /\ FirstOf(k) + 1 \in 1..(i + 1)
              /\ InSextets(t.out[k], k, Value(s, FirstOf(k)), Value(s, FirstOf(k) + 1))
        BY <1>5, <2>2
      <3> QED BY <1>4, <2>3, <2>4, <2>5, <3>1 DEF Decoded
    <2> QED BY <2>6 DEF t
  <1>7. CASE acc.bits # 0
    <2> DEFINE byte == (b \div C!Weight[acc.bits - 2]) % 256
    <2>1. t = [buf |-> b, bits |-> acc.bits - 2, out |-> Append(acc.out, byte)]
      BY <1>1, <1>7, TakeIs, ZenonT(60)
    <2>2. /\ (4 * l) \div 3 + 1 = i /\ i # 0
          /\ acc.bits = 2 => (l + 1) % 3 = 0
          /\ acc.bits = 4 => (l + 1) % 3 = 2
          /\ acc.bits = 6 => (l + 1) % 3 = 1
      <3> HIDE DEF l
      <3>1. PICK bits \in {0, 2, 4, 6} : bits = acc.bits
        BY <1>1
      <3>4. l \in Nat
        BY <1>1
      <3>2. 6 * i = 8 * l + bits /\ bits # 0
        BY <1>1, <1>7, <3>1
      <3>3. /\ (4 * l) \div 3 + 1 = i /\ i # 0
            /\ bits = 2 => (l + 1) % 3 = 0
            /\ bits = 4 => (l + 1) % 3 = 2
            /\ bits = 6 => (l + 1) % 3 = 1
        BY <3>2, <3>4, ByteAt
      <3> QED BY <3>1, <3>3
    <2> HIDE DEF t, b, l
    <2>3. InSextets(byte, l + 1, Value(s, i), v) /\ byte \in 0..255
      <3>1. acc.bits \in {2, 4, 6} /\ l + 1 \in Nat
        BY <1>1, <1>7
      <3>2. PICK k \in Nat, bits \in {2, 4, 6} : k = l + 1 /\ bits = acc.bits
        BY <3>1
      <3>3. Third(bits, k)
        BY <2>2, <3>2 DEF Third
      <3>6. PICK z \in Sextet : z = Value(s, i)
        OBVIOUS
      <3>7. Low12(b) = Twelve(z, v) /\ b \in Nat
        BY <1>3, <3>6
      <3>9. EndsIn(b, z, v)
        BY <3>7 DEF EndsIn
      <3>8. /\ InSextets((b \div C!Weight[bits - 2]) % 256, k, z, v)
            /\ (b \div C!Weight[bits - 2]) % 256 \in Bytes8
        BY <1>3, <3>3, <3>9, ByteIs
      <3> QED BY <3>2, <3>6, <3>8 DEF Bytes8
    <2> HIDE DEF byte
    <2>4. FirstOf(l + 1) = i /\ FirstOf(l + 1) \in 1..(i + 1) /\ FirstOf(l + 1) + 1 \in 1..(i + 1)
      <3>1. (l + 1) - 1 = l
        BY <1>1
      <3>2. FirstOf(l + 1) = i
        BY <2>2, <3>1 DEF FirstOf
      <3>3. i \in 1..(i + 1) /\ i + 1 \in 1..(i + 1)
        BY <2>2
      <3> QED BY <3>2, <3>3
    <2>5. /\ t.buf = b /\ t.bits = acc.bits - 2 /\ t.out = Append(acc.out, byte)
          /\ t.out \in Seq(0..255) /\ Len(t.out) = l + 1
          /\ (\A k \in 1..l : t.out[k] = acc.out[k]) /\ t.out[l + 1] = byte
      <3>1. /\ Append(acc.out, byte) \in Seq(0..255) /\ Len(Append(acc.out, byte)) = Len(acc.out) + 1
            /\ \A k \in 1..Len(acc.out) : Append(acc.out, byte)[k] = acc.out[k]
            /\ Append(acc.out, byte)[Len(acc.out) + 1] = byte
        <4>1. acc.out \in Seq(0..255) /\ byte \in 0..255
          BY <1>1, <2>3
        <4>2. \A X : \A a \in Seq(X) : \A e \in X :
                 /\ Append(a, e) \in Seq(X) /\ Len(Append(a, e)) = Len(a) + 1
                 /\ \A k \in 1..Len(a) : Append(a, e)[k] = a[k]
                 /\ Append(a, e)[Len(a) + 1] = e
          BY AppendProperties
        <4> QED BY <4>1, <4>2
      <3>2. t.buf = b /\ t.bits = acc.bits - 2 /\ t.out = Append(acc.out, byte)
        BY <2>1
      <3> QED BY <3>1, <3>2 DEF l
    <2>6. t \in Accs
      <3>1. acc.bits - 2 \in {0, 2, 4, 6}
        BY <1>1, <1>7
      <3> QED BY <1>3, <2>1, <2>5, <3>1 DEF Accs
    <2>7. 6 * (i + 1) = 8 * Len(t.out) + t.bits
      <3>1. PICK m \in Nat, bits \in {2, 4, 6} : m = l /\ bits = acc.bits
        BY <1>1, <1>7
      <3>2. 6 * i = 8 * m + bits
        BY <1>1, <3>1 DEF l
      <3>3. Len(t.out) = m + 1 /\ t.bits = bits - 2
        BY <2>5, <3>1
      <3> QED BY <3>2, <3>3
    <2>8. Low12(t.buf) = Twelve(Value(s, (i + 1) - 1), Value(s, i + 1))
      BY <1>3, <1>4, <2>5
    <2>9. \A k \in 1..Len(t.out) :
            /\ FirstOf(k) \in 1..(i + 1) /\ FirstOf(k) + 1 \in 1..(i + 1)
            /\ InSextets(t.out[k], k, Value(s, FirstOf(k)), Value(s, FirstOf(k) + 1))
      <3> SUFFICES ASSUME NEW k \in 1..(l + 1)
                   PROVE /\ FirstOf(k) \in 1..(i + 1) /\ FirstOf(k) + 1 \in 1..(i + 1)
                         /\ InSextets(t.out[k], k, Value(s, FirstOf(k)), Value(s, FirstOf(k) + 1))
        BY <2>5
      <3>1. CASE k = l + 1
        <4>1. Value(s, FirstOf(k)) = Value(s, i) /\ Value(s, FirstOf(k) + 1) = v /\ t.out[k] = byte
          BY <2>4, <2>5, <3>1
        <4> QED BY <2>3, <2>4, <3>1, <4>1
      <3>2. CASE k # l + 1
        <4>1. k \in 1..l
          BY <1>1, <3>2
        <4> QED BY <1>5, <2>5, <4>1
      <3> QED BY <3>1, <3>2
    <2>10. Decoded(s, i + 1, t)
      BY <1>4, <2>6, <2>7, <2>8, <2>9 DEF Decoded
    <2> QED BY <2>10 DEF t
  <1> QED BY <1>6, <1>7

---------------------------------------------------------------------------
(***************************************************************************)
(* The '=' at the end of a base64 text.                                    *)
(***************************************************************************)
LEMMA GreatestNatural ==
    ASSUME NEW n \in Nat, NEW T, T \subseteq 1..n, T # {}
    PROVE  \E m \in T : \A k \in T : m >= k
  <1> DEFINE U == {n - k : k \in T}
  <1>1. \A k \in T : k \in 1..n
    OBVIOUS
  <1>2. U \subseteq Nat /\ U # {}
    <2>1. \A k \in T : n - k \in Nat
      BY <1>1
    <2> QED BY <2>1
  <1>3. PICK u \in U : \A v \in U : u <= v
    BY <1>2, LeastNatural
  <1>4. PICK m \in T : u = n - m
    BY <1>3
  <1>5. ASSUME NEW k \in T PROVE m >= k
    <2>1. n - m <= n - k
      BY <1>3, <1>4
    <2> QED BY <1>1, <2>1
  <1> QED BY <1>5

Kept(text) == {i \in DOMAIN text : text[i] # 61}
Trimmed(text) == IF Kept(text) = {} THEN <<>> ELSE SubSeq(text, 1, Max(Kept(text)))

\* What is left without the padding characters at the end.
Ends64(text, n) == /\ n \in 0..Len(text) /\ \A i \in (n + 1)..Len(text) : text[i] = 61
                   /\ n > 0 => text[n] # 61

LEMMA TrimmedIs ==
    ASSUME NEW text \in Seq(0..127)
    PROVE  \E n \in 0..Len(text) : Trimmed(text) = Upto(text, n) /\ Ends64(text, n)
  <1>1. Len(text) \in Nat /\ DOMAIN text = 1..Len(text)
    OBVIOUS
  <1>2. CASE Kept(text) = {}
    <2>1. \A i \in 1..Len(text) : text[i] = 61
      BY <1>1, <1>2 DEF Kept
    <2>2. Upto(text, 0) = <<>>
      BY BehindZero
    <2>3. 0 \in 0..Len(text) /\ Ends64(text, 0)
      BY <1>1, <2>1 DEF Ends64
    <2> QED BY <1>2, <2>2, <2>3 DEF Trimmed
  <1>3. CASE Kept(text) # {}
    <2> DEFINE n == Max(Kept(text))
    <2>1. Kept(text) \subseteq 1..Len(text)
      BY <1>1 DEF Kept
    <2>2. n \in Kept(text) /\ \A k \in Kept(text) : n >= k
      <3>1. n = CHOOSE m \in Kept(text) : \A k \in Kept(text) : m >= k
        BY DEF Max
      <3>2. \E m \in Kept(text) : \A k \in Kept(text) : m >= k
        BY <1>1, <1>3, <2>1, GreatestNatural
      <3> QED BY <3>1, <3>2
    <2> HIDE DEF n
    <2>3. n \in 1..Len(text) /\ text[n] # 61
      BY <2>1, <2>2 DEF Kept
    <2>4. ASSUME NEW i \in (n + 1)..Len(text) PROVE text[i] = 61
      <3>1. i \in DOMAIN text /\ ~(n >= i)
        BY <1>1, <2>3
      <3> QED BY <2>2, <3>1 DEF Kept
    <2>5. n \in 0..Len(text)
      BY <1>1, <2>3
    <2>6. Ends64(text, n)
      BY <2>3, <2>4, <2>5 DEF Ends64
    <2>7. Trimmed(text) = Upto(text, n)
      BY <1>3 DEF Trimmed, Upto, n
    <2> QED BY <2>5, <2>6, <2>7
  <1> QED BY <1>2, <1>3

LEMMA NoSextetAtEnd == C!SextetOf(61) = {} /\ \A v \in Sextet : 61 \notin Base64Chars(v)
  <1>1. C!SextetOf(61) = {}
    BY DEF C!SextetOf, C!Upper, C!Lower, C!Digits
  <1>2. \A v \in 0..63 : 61 \in Base64Chars(v) <=> v \in C!SextetOf(61)
    BY SextetIs
  <1> QED BY <1>1, <1>2 DEF Sextet

LEMMA EndsUnique ==
    ASSUME NEW text \in Seq(0..127), NEW n, NEW m, Ends64(text, n), Is64(text, m)
    PROVE  m = n
  <1>1. Len(text) \in Nat /\ n \in 0..Len(text) /\ m \in 0..Len(text)
    BY DEF Ends64, Is64
  <1>2. CASE m < n
    <2>1. n \in (m + 1)..Len(text) /\ n > 0
      BY <1>1, <1>2
    <2>2. text[n] = 61 /\ text[n] # 61
      BY <2>1 DEF Ends64, Is64
    <2> QED BY <2>2
  <1>3. CASE n < m
    <2>1. m \in (n + 1)..Len(text) /\ m \in 1..m
      BY <1>1, <1>3
    <2>2. text[m] = 61 /\ \E v \in Sextet : text[m] \in Base64Chars(v)
      BY <2>1 DEF Ends64, Is64, Sextet
    <2> QED BY <2>2, NoSextetAtEnd
  <1> QED BY <1>1, <1>2, <1>3

---------------------------------------------------------------------------
(***************************************************************************)
(* The accumulator behind every character.                                 *)
(***************************************************************************)
Nothing64 == [buf |-> 0, bits |-> 0, out |-> <<>>]

LEMMA TakeTyped ==
    ASSUME NEW acc \in Accs, NEW v \in Sextet
    PROVE  C!TakeSextet(acc, v) \in Accs
  <1> DEFINE b == (acc.buf * 64 + v) % AccWidth
  <1>1. acc.buf \in Nat /\ acc.bits \in {0, 2, 4, 6} /\ acc.out \in Seq(0..255)
    BY DEF Accs
  <1>2. b \in Nat
    <2>1. AccWidth \in Nat \ {0}
      BY WidthsAssumption
    <2>2. acc.buf * 64 + v \in Nat
      BY <1>1, ShiftIn
    <2>3. \A x \in Nat : x % AccWidth \in Nat
      BY <2>1
    <2> QED BY <2>2, <2>3
  <1>3. CASE acc.bits = 0
    <2>1. C!TakeSextet(acc, v) = [buf |-> b, bits |-> 6, out |-> acc.out]
      BY <1>3, TakeIs
    <2> HIDE DEF b
    <2> QED BY <1>1, <1>2, <2>1 DEF Accs
  <1>4. CASE acc.bits # 0
    <2> DEFINE byte == (b \div C!Weight[acc.bits - 2]) % 256
    <2>1. C!TakeSextet(acc, v) = [buf |-> b, bits |-> acc.bits - 2, out |-> Append(acc.out, byte)]
      BY <1>4, TakeIs
    <2> HIDE DEF b
    <2>2. PICK w \in {1, 4, 16} : w = C!Weight[acc.bits - 2]
      <3>1. acc.bits = 2 \/ acc.bits = 4 \/ acc.bits = 6
        BY <1>1, <1>4
      <3> QED BY <3>1, WeightIs
    <2>3. byte \in 0..255
      <3>1. (b \div w) % 256 \in 0..255
        <4>1. \A x \in Nat : \A d \in {1, 4, 16} : (x \div d) % 256 \in 0..255
          OBVIOUS
        <4> QED BY <1>2, <4>1
      <3> QED BY <2>2, <3>1
    <2> HIDE DEF byte
    <2>4. Append(acc.out, byte) \in Seq(0..255)
      BY <1>1, <2>3
    <2>5. acc.bits - 2 \in {0, 2, 4, 6}
      BY <1>1, <1>4
    <2> QED BY <1>2, <2>1, <2>4, <2>5 DEF Accs
  <1> QED BY <1>3, <1>4

After64(s, f) == f = [i \in 0..Len(s) |->
    IF i = 0 THEN Nothing64 ELSE C!TakeSextet(f[i - 1], CHOOSE v \in C!SextetOf(s[i]) : TRUE)]

AllSextets(s) == s \in Seq(0..127) /\ \A i \in DOMAIN s : C!SextetOf(s[i]) # {}

LEMMA ValueTyped ==
    ASSUME NEW s, AllSextets(s), NEW i \in 0..Len(s)
    PROVE  /\ Value(s, i) \in Sextet
           /\ i > 0 => /\ s[i] \in Base64Chars(Value(s, i))
                       /\ Value(s, i) = CHOOSE v \in C!SextetOf(s[i]) : TRUE
  <1>1. s \in Seq(0..127)
    BY DEF AllSextets
  <1>2. CASE i = 0
    BY <1>2 DEF Value, Sextet
  <1>3. CASE i # 0
    <2>1. i \in DOMAIN s
      BY <1>1, <1>3
    <2>2. s[i] \in Nat /\ C!SextetOf(s[i]) # {}
      BY <1>1, <2>1, TextCells DEF AllSextets
    <2>3. PICK v \in 0..63 : C!SextetOf(s[i]) = {v}
      BY <2>2, SextetIs
    <2>4. (CHOOSE w \in C!SextetOf(s[i]) : TRUE) = v
      BY <2>3
    <2>5. Value(s, i) = v
      BY <1>3, <2>4 DEF Value
    <2>6. s[i] \in Base64Chars(v)
      BY <2>2, <2>3, SextetIs
    <2> QED BY <2>4, <2>5, <2>6 DEF Sextet
  <1> QED BY <1>2, <1>3

LEMMA AfterExists ==
    ASSUME NEW s, AllSextets(s)
    PROVE  \E f : After64(s, f)
  <1> DEFINE D == 0..Len(s)
             step(i, acc) == IF i = 0 THEN acc ELSE C!TakeSextet(acc, Value(s, i))
             F == [p \in D \X Accs |-> step(p[1], p[2])]
  <1>0. Len(s) \in Nat
    BY DEF AllSextets
  <1>1. \A i \in D : \A acc \in Accs : step(i, acc) \in Accs
    <2> SUFFICES ASSUME NEW i \in D, NEW acc \in Accs PROVE step(i, acc) \in Accs
      OBVIOUS
    <2>1. Value(s, i) \in Sextet
      BY ValueTyped
    <2>2. C!TakeSextet(acc, Value(s, i)) \in Accs
      BY <2>1, TakeTyped
    <2> QED BY <2>2
  <1>2. F \in [D \X Accs -> Accs] /\ \A i \in D : \A acc \in Accs : F[<<i, acc>>] = step(i, acc)
    <2> HIDE DEF step, D
    <2> QED BY <1>1
  <1>3. Initial(D)
    BY <1>0 DEF Initial
  <1>4. Nothing64 \in Accs
    BY DEF Nothing64, Accs
  <1>5. PICK g : Recursive(g, D, Accs, Nothing64, F)
    <2> HIDE DEF F, D
    <2> QED BY <1>2, <1>3, <1>4, Recursion
  <1>6. g \in [D -> Accs] /\ \A n \in D : g[n] = IF n = 0 THEN Nothing64 ELSE F[<<n, g[n - 1]>>]
    BY <1>5 DEF Recursive
  <1> HIDE DEF F
  <1>7. \A i \in D : g[i] = IF i = 0 THEN Nothing64
                            ELSE C!TakeSextet(g[i - 1], CHOOSE v \in C!SextetOf(s[i]) : TRUE)
    <2> SUFFICES ASSUME NEW i \in D
                 PROVE  g[i] = IF i = 0 THEN Nothing64
                               ELSE C!TakeSextet(g[i - 1], CHOOSE v \in C!SextetOf(s[i]) : TRUE)
      OBVIOUS
    <2>1. CASE i = 0
      BY <1>6, <2>1
    <2>2. CASE i # 0
      <3>1. i - 1 \in D /\ i > 0
        BY <1>0, <2>2
      <3>2. g[i] = F[<<i, g[i - 1]>>] /\ g[i - 1] \in Accs
        BY <1>6, <2>2, <3>1
      <3>3. g[i] = step(i, g[i - 1])
        BY <1>2, <3>2
      <3>4. g[i] = C!TakeSextet(g[i - 1], Value(s, i))
        BY <2>2, <3>3
      <3>5. Value(s, i) = CHOOSE v \in C!SextetOf(s[i]) : TRUE
        BY <3>1, ValueTyped
      <3> QED BY <2>2, <3>4, <3>5
    <2> QED BY <2>1, <2>2
  <1>8. After64(s, g)
    <2>1. g = [i \in D |-> g[i]]
      BY <1>6
    <2> QED BY <1>7, <2>1 DEF After64
  <1> QED BY <1>8

LEMMA AfterDecoded ==
    ASSUME NEW s, AllSextets(s), NEW h, After64(s, h)
    PROVE  Decoded(s, Len(s), h[Len(s)])
  <1>0. Len(s) \in Nat
    BY DEF AllSextets
  <1>1. \A i \in 0..Len(s) : h[i] = IF i = 0 THEN Nothing64
                            ELSE C!TakeSextet(h[i - 1], CHOOSE v \in C!SextetOf(s[i]) : TRUE)
    BY DEF After64
  <1> DEFINE T == {i \in Nat : i <= Len(s) => Decoded(s, i, h[i])}
  <1>2. 0 \in T
    <2>3. 0 \in 0..Len(s)
      BY <1>0
    <2>1. h[0] = Nothing64
      BY <1>1, <2>3
    <2>2. Decoded(s, 0, Nothing64)
      <3>1. Nothing64 \in Accs
        BY DEF Nothing64, Accs
      <3>2. Nothing64.out = <<>> /\ Nothing64.buf = 0 /\ Nothing64.bits = 0 /\ Len(<<>>) = 0
        BY DEF Nothing64
      <3> QED BY <3>1, <3>2 DEF Decoded
    <2> QED BY <2>1, <2>2
  <1>3. ASSUME NEW i \in Nat, i \in T PROVE i + 1 \in T
    <2> SUFFICES ASSUME i + 1 <= Len(s) PROVE Decoded(s, i + 1, h[i + 1])
      OBVIOUS
    <2>1. /\ i \in 0..Len(s) /\ i + 1 \in 0..Len(s) /\ i + 1 # 0 /\ i + 1 > 0 /\ (i + 1) - 1 = i
          /\ i > 0 => i - 1 \in 0..Len(s)
      BY <1>0
    <2>2. Decoded(s, i, h[i])
      BY <1>3, <2>1
    <2> DEFINE v == CHOOSE v \in C!SextetOf(s[i + 1]) : TRUE
    <2>3. h[i + 1] = C!TakeSextet(h[i], v)
      BY <1>1, <2>1
    <2>4. v = Value(s, i + 1) /\ v \in Sextet
      BY <2>1, ValueTyped
    <2>5. Value(s, i) \in Sextet /\ (i > 0 => Value(s, i - 1) \in Sextet)
      BY <2>1, ValueTyped
    <2> HIDE DEF v, T
    <2>6. Decoded(s, i + 1, C!TakeSextet(h[i], v))
      BY <2>2, <2>4, <2>5, TakeDecoded
    <2> QED BY <2>3, <2>6
  <1>4. \A i \in Nat : i \in T
    <2> HIDE DEF T
    <2> QED BY <1>2, <1>3, Induction
  <1> QED BY <1>0, <1>4

---------------------------------------------------------------------------
(***************************************************************************)
(* What base64_decode returns.                                             *)
(***************************************************************************)
LEMMA Base64DecodeIs ==
    ASSUME NEW text \in Seq(0..127)
    PROVE  C!Base64Decode(text) =
             IF \E i \in DOMAIN Trimmed(text) : C!SextetOf(Trimmed(text)[i]) = {} THEN {}
             ELSE {(CHOOSE f : After64(Trimmed(text), f))[Len(Trimmed(text))].out}
  <1> DEFINE s == Trimmed(text)
  <1>1. s = IF {i \in DOMAIN text : text[i] # 61} = {} THEN <<>>
            ELSE SubSeq(text, 1, C!Max({i \in DOMAIN text : text[i] # 61}))
    BY DEF Trimmed, Kept, Max, C!Max
  <1> HIDE DEF s
  <1>2. C!Base64Decode(text) =
          IF \E i \in DOMAIN s : C!SextetOf(s[i]) = {} THEN {}
          ELSE {(CHOOSE f : After64(s, f))[Len(s)].out}
    BY <1>1 DEF C!Base64Decode, After64, Nothing64
  <1> QED BY <1>2 DEF s

\* base64_decode either refuses a text or returns the bytes that the text
\* writes, for every width of the accumulator that holds two characters:
\* the bits that overflow are never looked at again.
THEOREM Base64Read ==
    ASSUME NEW text \in Seq(0..127)
    PROVE  \/ C!Base64Decode(text) = {}
           \/ \E b \in Seq(0..255) : C!Base64Decode(text) = {b} /\ Writes64(text, b)
  <1> DEFINE s == Trimmed(text)
             h == CHOOSE f : After64(s, f)
             b == h[Len(s)].out
  <1> SUFFICES ASSUME \A i \in DOMAIN s : C!SextetOf(s[i]) # {}
               PROVE  b \in Seq(0..255) /\ Writes64(text, b)
    BY Base64DecodeIs
  <1>1. PICK n \in 0..Len(text) : s = Upto(text, n) /\ Ends64(text, n)
    BY TrimmedIs
  <1>2. s \in Seq(0..127) /\ Len(s) = n /\ \A i \in 1..n : s[i] = text[i]
    BY <1>1, UptoIs
  <1> HIDE DEF s
  <1>3. AllSextets(s)
    BY <1>2 DEF AllSextets
  <1>4. After64(s, h)
    BY <1>3, AfterExists
  <1> HIDE DEF h
  <1>5. Decoded(s, n, h[n])
    <2>1. Decoded(s, Len(s), h[Len(s)])
      BY <1>3, <1>4, AfterDecoded
    <2> QED BY <1>2, <2>1
  <1>6. b = h[n].out
    BY <1>2
  <1> HIDE DEF b
  <1>7. /\ b \in Seq(0..255) /\ Len(b) \in Nat /\ h[n].bits \in {0, 2, 4, 6}
        /\ 6 * n = 8 * Len(b) + h[n].bits /\ n \in Nat
    BY <1>5, <1>6 DEF Decoded, Accs
  <1>8. Len(b) = (6 * n) \div 8
    <2>1. PICK l \in Nat, bits \in {0, 2, 4, 6} : l = Len(b) /\ bits = h[n].bits
      BY <1>7
    <2>2. 6 * n = 8 * l + bits
      BY <1>7, <2>1
    <2>3. (6 * n) \div 8 = l
      BY <1>7, <2>2
    <2> QED BY <2>1, <2>3
  <1>9. \A i \in 1..n : text[i] \in Base64Chars(Value(s, i)) /\ Value(s, i) \in Sextet
    <2> SUFFICES ASSUME NEW i \in 1..n
                 PROVE text[i] \in Base64Chars(Value(s, i)) /\ Value(s, i) \in Sextet
      OBVIOUS
    <2>1. i \in 0..Len(s) /\ i > 0
      BY <1>2
    <2> QED BY <1>2, <1>3, <2>1, ValueTyped
  <1>10. Is64(text, n)
    BY <1>1, <1>9 DEF Is64, Ends64, Sextet
  <1>11. \A i \in DOMAIN b :
            \E v, w \in 0..63 : /\ text[FirstOf(i)] \in Base64Chars(v)
                                /\ text[FirstOf(i) + 1] \in Base64Chars(w)
                                /\ InSextets(b[i], i, v, w)
    <2> SUFFICES ASSUME NEW i \in DOMAIN b
                 PROVE  \E v, w \in 0..63 : /\ text[FirstOf(i)] \in Base64Chars(v)
                                            /\ text[FirstOf(i) + 1] \in Base64Chars(w)
                                            /\ InSextets(b[i], i, v, w)
      OBVIOUS
    <2>1. i \in 1..Len(b)
      BY <1>7
    <2>2. /\ FirstOf(i) \in 1..n /\ FirstOf(i) + 1 \in 1..n
          /\ InSextets(b[i], i, Value(s, FirstOf(i)), Value(s, FirstOf(i) + 1))
      BY <1>5, <1>6, <2>1 DEF Decoded
    <2> DEFINE v == Value(s, FirstOf(i))
               w == Value(s, FirstOf(i) + 1)
    <2>3. v \in 0..63 /\ w \in 0..63
      BY <1>9, <2>2 DEF Sextet
    <2>4. text[FirstOf(i)] \in Base64Chars(v) /\ text[FirstOf(i) + 1] \in Base64Chars(w)
      BY <1>9, <2>2
    <2>5. InSextets(b[i], i, v, w)
      BY <2>2
    <2> HIDE DEF v, w
    <2> QED BY <2>3, <2>4, <2>5
  <1> QED BY <1>7, <1>8, <1>10, <1>11 DEF Writes64, FirstOf

LEMMA Base64Is ==
    ASSUME NEW text \in Seq(0..127), NEW n, Is64(text, n)
    PROVE  C!Base64Decode(text) # {}
  <1> DEFINE s == Trimmed(text)
  <1>1. PICK m \in 0..Len(text) : s = Upto(text, m) /\ Ends64(text, m)
    BY TrimmedIs
  <1>2. m = n
    BY <1>1, EndsUnique
  <1>3. s \in Seq(0..127) /\ Len(s) = m /\ \A i \in 1..m : s[i] = text[i]
    BY <1>1, UptoIs
  <1> HIDE DEF s
  <1>4. ASSUME NEW i \in DOMAIN s PROVE C!SextetOf(s[i]) # {}
    <2>1. i \in 1..m
      BY <1>3
    <2>2. PICK v \in 0..63 : s[i] \in Base64Chars(v)
      BY <1>2, <1>3, <2>1 DEF Is64
    <2>3. s[i] \in Nat
      BY <1>3, TextCells
    <2>4. v \in C!SextetOf(s[i])
      BY <2>2, <2>3, SextetIs
    <2> QED BY <2>4
  <1> QED BY <1>4, Base64DecodeIs DEF s

LEMMA Base64Unique ==
    ASSUME NEW text \in Seq(0..127), NEW a \in Seq(0..255), NEW b \in Seq(0..255),
           Writes64(text, a), Writes64(text, b)
    PROVE  a = b
  <1>1. PICK n \in 0..Len(text) : Is64(text, n) /\ Len(a) = (6 * n) \div 8
    BY DEF Writes64
  <1>2. PICK m \in 0..Len(text) : Is64(text, m) /\ Len(b) = (6 * m) \div 8
    BY DEF Writes64
  <1>3. n = m
    <2>1. PICK k \in 0..Len(text) : Ends64(text, k)
      BY TrimmedIs
    <2> QED BY <1>1, <1>2, <2>1, EndsUnique
  <1>4. Len(a) = Len(b)
    BY <1>1, <1>2, <1>3
  <1>5. ASSUME NEW i \in 1..Len(a) PROVE a[i] = b[i]
    <2>1. i \in DOMAIN a /\ i \in DOMAIN b
      BY <1>4
    <2> DEFINE at == (4 * (i - 1)) \div 3 + 1
    <2>2. PICK v \in 0..63, w \in 0..63 : /\ text[at] \in Base64Chars(v) /\ text[at + 1] \in Base64Chars(w)
                                          /\ InSextets(a[i], i, v, w)
      BY <2>1 DEF Writes64
    <2>3. PICK x \in 0..63, y \in 0..63 : /\ text[at] \in Base64Chars(x) /\ text[at + 1] \in Base64Chars(y)
                                          /\ InSextets(b[i], i, x, y)
      BY <2>1 DEF Writes64
    <2> HIDE DEF at
    <2>4. \A c \in Nat : \A p, q \in Sextet : c \in Base64Chars(p) /\ c \in Base64Chars(q) => p = q
      <3> SUFFICES ASSUME NEW c \in Nat, NEW p \in 0..63, NEW q \in 0..63,
                          c \in Base64Chars(p), c \in Base64Chars(q)
                   PROVE  p = q
        BY DEF Sextet
      <3>2. p \in C!SextetOf(c) /\ q \in C!SextetOf(c)
        BY SextetIs
      <3>3. PICK z : C!SextetOf(c) = {z}
        BY <3>2, SextetIs
      <3> QED BY <3>2, <3>3
    <2>7. text[at] \in Nat /\ text[at + 1] \in Nat
      <3>1. n \in Nat /\ i \in Nat /\ i >= 1 /\ n <= Len(text) /\ Len(text) \in Nat
        BY <1>1, <2>1
      <3>2. i <= (6 * n) \div 8
        BY <1>1
      <3>3. \A h, k \in Nat : h >= 1 /\ h <= (6 * k) \div 8
               => (4 * (h - 1)) \div 3 + 1 \in 1..k /\ (4 * (h - 1)) \div 3 + 2 \in 1..k
        OBVIOUS
      <3>4. at \in 1..n /\ at + 1 \in 1..n
        BY <3>1, <3>2, <3>3 DEF at
      <3>5. at \in DOMAIN text /\ at + 1 \in DOMAIN text
        BY <3>1, <3>4
      <3> QED BY <3>5, TextCells
    <2>5. v \in Sextet /\ w \in Sextet /\ x \in Sextet /\ y \in Sextet
      BY DEF Sextet
    <2>6. v = x /\ w = y
      BY <2>2, <2>3, <2>4, <2>5, <2>7
    <2> QED BY <2>2, <2>3, <2>6 DEF InSextets
  <1> QED BY <1>4, <1>5, SeqEqual

---------------------------------------------------------------------------
(***************************************************************************)
(* The configuration: what load makes of the credentials' texts.           *)
(***************************************************************************)
LEMMA NoHyphensTyped ==
    ASSUME NEW text \in Seq(0..127)
    PROVE  C!NoHyphens(text) \in Seq(0..127)
  <1> DEFINE X == 0..127
             e(i) == IF text[i] = 45 THEN <<>> ELSE <<text[i]>>
             ss == [i \in DOMAIN text |-> e(i)]
  <1>1. \A Y : \A s \in Seq(Y) : /\ Len(s) \in Nat /\ DOMAIN s = 1..Len(s)
                                 /\ \A i \in DOMAIN s : s[i] \in Y
    OBVIOUS
  <1>2. text \in Seq(X)
    OBVIOUS
  <1> HIDE DEF X
  <1>3. \A i \in DOMAIN text : text[i] \in X
    BY <1>1, <1>2
  <1>4. \A i \in DOMAIN text : e(i) \in Seq(X)
    BY <1>3
  <1> HIDE DEF e
  <1>5. ss \in [1..Len(text) -> Seq(X)]
    BY <1>1, <1>2, <1>4
  <1>6. ss \in Seq(Seq(X))
    BY <1>5, <1>1, <1>2
  <1>7. C!NoHyphens(text) = FlattenSeq(ss)
    BY DEF C!NoHyphens, C!FlattenSeq, FlattenSeq, e
  <1> HIDE DEF ss
  <1>8. FlattenSeq(ss) \in Seq(X)
    BY <1>6, FlattenTyped
  <1> QED BY <1>7, <1>8 DEF X

\* What LoadConfig makes of credentials it accepts.
Loaded(raw, c) ==
    /\ WritesHex(C!NoHyphens(raw.uuid), c.uuid) /\ Len(c.uuid) = UuidLen
    /\ c.flow = raw.flow
    /\ Writes64(raw.publicKey, c.publicKey) /\ Len(c.publicKey) = KeyLen
    /\ WritesHex(raw.shortId, c.shortId)

\* load either refuses the credentials or returns the ones their texts
\* write, with the flow it requires.
THEOREM ConfigRead ==
    ASSUME NEW raw \in C!RawCredentials
    PROVE  C!LoadConfig(raw) = {} \/ \E c \in C!Credentials : C!LoadConfig(raw) = {c} /\ Loaded(raw, c)
  <1> DEFINE load(u, k, i) == [uuid |-> u, flow |-> raw.flow, publicKey |-> k, shortId |-> i]
             U == C!ParseUuid(raw.uuid)
             K == C!ParsePublicKey(raw.publicKey)
             I == C!ParseHex(raw.shortId)
  <1>1. /\ raw.uuid \in Seq(0..127) /\ raw.flow \in Seq(0..127)
        /\ raw.publicKey \in Seq(0..127) /\ raw.shortId \in Seq(0..127)
    BY DEF C!RawCredentials
  <1>2. C!LoadConfig(raw) = {load(u, k, i) : u \in U, k \in K, i \in I}
    BY DEF C!LoadConfig
  <1>3. U = {} \/ \E u \in Seq(0..255) : /\ U = {u} /\ Len(u) = UuidLen
                                         /\ WritesHex(C!NoHyphens(raw.uuid), u)
    <2>1. C!NoHyphens(raw.uuid) \in Seq(0..127)
      BY <1>1, NoHyphensTyped
    <2>2. \/ C!ParseHex(C!NoHyphens(raw.uuid)) = {}
          \/ \E b \in Seq(0..255) : /\ C!ParseHex(C!NoHyphens(raw.uuid)) = {b}
                                    /\ WritesHex(C!NoHyphens(raw.uuid), b)
      BY <2>1, HexRead
    <2>3. U = {id \in C!ParseHex(C!NoHyphens(raw.uuid)) : Len(id) = UuidLen}
      BY DEF C!ParseUuid
    <2> QED BY <2>2, <2>3
  <1>4. K = {} \/ \E k \in Seq(0..255) : K = {k} /\ Len(k) = KeyLen /\ Writes64(raw.publicKey, k)
    <2>1. \/ C!Base64Decode(raw.publicKey) = {}
          \/ \E b \in Seq(0..255) : C!Base64Decode(raw.publicKey) = {b} /\ Writes64(raw.publicKey, b)
      BY <1>1, Base64Read
    <2>2. K = {k \in C!Base64Decode(raw.publicKey) : Len(k) = KeyLen}
      BY DEF C!ParsePublicKey
    <2> QED BY <2>1, <2>2
  <1>5. I = {} \/ \E i \in Seq(0..255) : I = {i} /\ WritesHex(raw.shortId, i)
    BY <1>1, HexRead
  <1> HIDE DEF load, U, K, I
  <1>6. CASE U = {} \/ K = {} \/ I = {}
    BY <1>2, <1>6
  <1>7. CASE U # {} /\ K # {} /\ I # {}
    <2>1. PICK u \in Seq(0..255) : U = {u} /\ Len(u) = UuidLen
                                   /\ WritesHex(C!NoHyphens(raw.uuid), u)
      BY <1>3, <1>7
    <2>2. PICK k \in Seq(0..255) : K = {k} /\ Len(k) = KeyLen /\ Writes64(raw.publicKey, k)
      BY <1>4, <1>7
    <2>3. PICK i \in Seq(0..255) : I = {i} /\ WritesHex(raw.shortId, i)
      BY <1>5, <1>7
    <2>4. C!LoadConfig(raw) = {load(u, k, i)}
      BY <1>2, <2>1, <2>2, <2>3
    <2>5. load(u, k, i) \in C!Credentials
      BY <1>1 DEF C!Credentials, load
    <2>6. Loaded(raw, load(u, k, i))
      BY <2>1, <2>2, <2>3 DEF Loaded, load
    <2> QED BY <2>4, <2>5, <2>6
  <1> QED BY <1>6, <1>7

\* load refuses no credentials that a connection can be made with.
THEOREM ConfigUsable ==
    ASSUME NEW raw \in C!RawCredentials, Usable(raw)
    PROVE  C!LoadConfig(raw) # {}
  <1>1. /\ raw.uuid \in Seq(0..127) /\ raw.publicKey \in Seq(0..127) /\ raw.shortId \in Seq(0..127)
    BY DEF C!RawCredentials
  <1>2. PICK u : u \in C!ParseUuid(raw.uuid)
    <2>1. C!NoHyphens(raw.uuid) \in Seq(0..127)
      BY <1>1, NoHyphensTyped
    <2>2. IsHex(C!NoHyphens(raw.uuid), UuidLen) /\ UuidLen \in Nat
      BY SizesAssumption DEF Usable
    <2>3. C!ParseHex(C!NoHyphens(raw.uuid)) # {}
      BY <2>1, <2>2, HexIs
    <2>4. PICK b \in Seq(0..255) : /\ C!ParseHex(C!NoHyphens(raw.uuid)) = {b}
                                   /\ WritesHex(C!NoHyphens(raw.uuid), b)
      BY <2>1, <2>3, HexRead
    <2>5. Len(b) = UuidLen
      <3>1. Len(b) \in Nat /\ Len(C!NoHyphens(raw.uuid)) = 2 * Len(b)
        BY <2>4 DEF WritesHex, IsHex
      <3>2. Len(C!NoHyphens(raw.uuid)) = 2 * UuidLen
        BY <2>2 DEF IsHex
      <3> QED BY <2>2, <3>1, <3>2
    <2> QED BY <2>4, <2>5 DEF C!ParseUuid
  <1>3. PICK k : k \in C!ParsePublicKey(raw.publicKey)
    <2>1. PICK n \in 0..Len(raw.publicKey) : Is64(raw.publicKey, n) /\ (6 * n) \div 8 = KeyLen
      BY DEF Usable
    <2>2. C!Base64Decode(raw.publicKey) # {}
      BY <1>1, <2>1, Base64Is
    <2>3. PICK b \in Seq(0..255) : C!Base64Decode(raw.publicKey) = {b} /\ Writes64(raw.publicKey, b)
      BY <1>1, <2>2, Base64Read
    <2>4. PICK m \in 0..Len(raw.publicKey) : Is64(raw.publicKey, m) /\ Len(b) = (6 * m) \div 8
      BY <2>3 DEF Writes64
    <2>5. n = m
      <3>1. PICK e \in 0..Len(raw.publicKey) : Ends64(raw.publicKey, e)
        BY <1>1, TrimmedIs
      <3> QED BY <1>1, <2>1, <2>4, <3>1, EndsUnique
    <2> QED BY <2>1, <2>3, <2>4, <2>5 DEF C!ParsePublicKey
  <1>4. PICK i : i \in C!ParseHex(raw.shortId)
    <2>1. PICK n \in 0..MaxShortId : IsHex(raw.shortId, n)
      BY DEF Usable
    <2>2. n \in Nat
      BY WidthsAssumption
    <2> QED BY <1>1, <2>1, <2>2, HexIs
  <1> DEFINE load(x, y, z) == [uuid |-> x, flow |-> raw.flow, publicKey |-> y, shortId |-> z]
  <1>5. C!LoadConfig(raw) = {load(x, y, z) : x \in C!ParseUuid(raw.uuid),
                             y \in C!ParsePublicKey(raw.publicKey), z \in C!ParseHex(raw.shortId)}
    BY DEF C!LoadConfig
  <1> HIDE DEF load
  <1>6. load(u, k, i) \in C!LoadConfig(raw)
    BY <1>2, <1>3, <1>4, <1>5
  <1> QED BY <1>6

\* The result has what the server knows the user by.
Known(c, want) == /\ c.uuid = want.uuid /\ c.publicKey = want.key
                  /\ Len(c.shortId) <= MaxShortId /\ ShortIdField(c.shortId) = want.shortId

\* Credentials that load has accepted are those the server knows, when
\* their texts name what the server knows.
THEOREM ConfigNames ==
    ASSUME NEW raw \in C!RawCredentials, NEW c \in C!Credentials, Loaded(raw, c),
           NEW want, {want.uuid, want.key, want.shortId} \subseteq Seq(0..255), Names(raw, want)
    PROVE  Known(c, want)
  <1>1. /\ raw.uuid \in Seq(0..127) /\ raw.publicKey \in Seq(0..127) /\ raw.shortId \in Seq(0..127)
        /\ c.uuid \in Seq(0..255) /\ c.publicKey \in Seq(0..255) /\ c.shortId \in Seq(0..255)
        /\ C!NoHyphens(raw.uuid) \in Seq(0..127)
    BY NoHyphensTyped DEF C!RawCredentials, C!Credentials
  <1>2. want.uuid \in Seq(0..255) /\ want.key \in Seq(0..255) /\ want.shortId \in Seq(0..255)
    OBVIOUS
  <1>3. c.uuid = want.uuid
    BY <1>1, <1>2, HexUnique DEF Loaded, Names
  <1>4. c.publicKey = want.key
    BY <1>1, <1>2, Base64Unique DEF Loaded, Names
  <1>5. PICK n \in 0..MaxShortId : LET id == SubSeq(want.shortId, 1, n)
                                   IN  WritesHex(raw.shortId, id) /\ want.shortId = ShortIdField(id)
    BY DEF Names
  <1> DEFINE id == SubSeq(want.shortId, 1, n)
  <1>6. id \in Seq(0..255)
    <2>1. \A Y : \A s \in Seq(Y) : \A m \in Nat : m <= Len(s) => SubSeq(s, 1, m) \in Seq(Y)
      OBVIOUS
    <2>2. want.shortId = ShortIdField(id)
      BY <1>5
    <2>3. Len(want.shortId) = MaxShortId
      <3>1. DOMAIN want.shortId = 1..MaxShortId
        BY <2>2 DEF ShortIdField
      <3> QED BY <1>2, <3>1, WidthsAssumption
    <2>4. n \in Nat /\ n <= MaxShortId
      BY WidthsAssumption
    <2> HIDE DEF id
    <2>5. SubSeq(want.shortId, 1, n) \in Seq(0..255)
      BY <1>2, <2>1, <2>3, <2>4
    <2> QED BY <2>5 DEF id
  <1>7. WritesHex(raw.shortId, id) /\ want.shortId = ShortIdField(id)
    BY <1>5
  <1>8. Len(id) = n
    <2>1. DOMAIN want.shortId = 1..MaxShortId
      BY <1>7 DEF ShortIdField
    <2>2. Len(want.shortId) = MaxShortId /\ n \in Nat /\ n <= MaxShortId
      BY <1>2, <2>1, WidthsAssumption
    <2> QED BY <1>2, <2>2
  <1> HIDE DEF id
  <1>9. c.shortId = id
    BY <1>1, <1>6, <1>7, HexUnique DEF Loaded
  <1>10. n <= MaxShortId
    BY WidthsAssumption
  <1> QED BY <1>3, <1>4, <1>7, <1>8, <1>9, <1>10 DEF Known

LEMMA ConfigCause ==
    ASSUME NEW raw \in C!RawCredentials, NEW c \in C!Credentials, Loaded(raw, c),
           c.flow = RequiredFlow, Len(c.shortId) <= MaxShortId
    PROVE  Usable(raw)
  <1>1. c.shortId \in Seq(0..255)
    BY DEF C!Credentials
  <1>2. IsHex(C!NoHyphens(raw.uuid), UuidLen)
    BY DEF Loaded, WritesHex
  <1>3. \E n \in 0..Len(raw.publicKey) : Is64(raw.publicKey, n) /\ (6 * n) \div 8 = KeyLen
    BY DEF Loaded, Writes64
  <1>4. Len(c.shortId) \in 0..MaxShortId
    BY <1>1, WidthsAssumption
  <1>5. IsHex(raw.shortId, Len(c.shortId))
    BY DEF Loaded, WritesHex
  <1> QED BY <1>2, <1>3, <1>4, <1>5 DEF Usable, Loaded

---------------------------------------------------------------------------
(***************************************************************************)
(* Sniffing keeps its budget and its types, and the camouflage frame can   *)
(* be read back.                                                           *)
(***************************************************************************)
SniffStates == [budget : 0..FilterPackets, isTls : BOOLEAN, tls12 : BOOLEAN, xtls : BOOLEAN,
                cipher : Ciphers, rsh : Int]
SniffInput(p) == p.len \in Nat /\ p.ext \in Nat /\ p.shLen \in Int /\ p.cipher \in Ciphers

LEMMA FilterTyped ==
    ASSUME NEW ts \in SniffStates, NEW p, SniffInput(p)
    PROVE  Filter(ts, p) \in SniffStates
  <1> DEFINE less == [ts EXCEPT !.budget = @ - 1]
             seen == SeeHello(less, p)
  <1>0. p.len \in Nat /\ p.ext \in Nat /\ p.shLen \in Int /\ p.cipher \in Ciphers
    BY DEF SniffInput
  <1>1. CASE ts.budget <= 0
    BY <1>1 DEF Filter, Exhausted, SniffStates
  <1>2. CASE ts.budget > 0
    <2>2. less \in SniffStates
      BY <1>2, FilterPacketsAssumption DEF SniffStates
    <2>3. seen \in SniffStates
      <3> HIDE DEF less
      <3>1. CASE p.hello = "server"
        <4> DEFINE suite == IF p.cipher = "none" THEN less.cipher ELSE p.cipher
        <4>4. suite \in Ciphers
          BY <1>0, <2>2 DEF SniffStates
        <4>1. seen = [less EXCEPT !.rsh = p.shLen, !.tls12 = TRUE, !.isTls = TRUE,
                                  !.cipher = suite]
          BY <3>1 DEF SeeHello
        <4> HIDE DEF suite
        <4> QED BY <1>0, <2>2, <4>1, <4>4 DEF SniffStates
      <3>2. CASE p.hello = "client"
        BY <2>2, <3>2 DEF SniffStates, SeeHello
      <3>3. CASE p.hello \notin {"server", "client"}
        BY <2>2, <3>3 DEF SeeHello
      <3> QED BY <3>1, <3>2, <3>3
    <2> HIDE DEF seen
    <2>4. CASE seen.rsh > 0
      <3> DEFINE scan == ScanServerHello(seen, p)
      <3> DEFINE found == p.ext > 0 /\ p.ext <= seen.rsh
                 left  == seen.rsh - p.len
                 xtls  == IF found THEN seen.cipher = "xtls" ELSE seen.xtls
                 more  == IF found \/ left <= 0 THEN 0 ELSE seen.budget
      <3>1. left \in Int /\ more \in 0..FilterPackets
        BY <1>0, <2>3, FilterPacketsAssumption DEF SniffStates
      <3>2. seen.xtls \in BOOLEAN
        BY <2>3 DEF SniffStates
      <3>3. xtls \in BOOLEAN
        BY <3>2, Zenon
      <3>4. scan = [seen EXCEPT !.rsh = left, !.xtls = xtls, !.budget = more]
        BY DEF ScanServerHello, SaysTls13
      <3> HIDE DEF found, left, xtls, more
      <3>5. scan \in SniffStates
        BY <2>3, <3>1, <3>3, <3>4 DEF SniffStates
      <3>6. Filter(ts, p) = scan
        BY <1>2, <2>4 DEF Filter, Exhausted, seen, SniffStates
      <3> QED BY <3>5, <3>6
    <2>5. CASE ~(seen.rsh > 0)
      <3>1. Filter(ts, p) = seen
        BY <1>2, <2>5 DEF Filter, Exhausted, seen, SniffStates
      <3> QED BY <2>3, <3>1
    <2> QED BY <2>4, <2>5
  <1>3. ts.budget \in 0..FilterPackets
    BY DEF SniffStates
  <1> QED BY <1>1, <1>2, <1>3, FilterPacketsAssumption

LEMMA PacketSniffed ==
    ASSUME NEW b \in Seq(Nat)
    PROVE  SniffInput(PacketOf(b))
  <1> DEFINE p == PacketOf(b)
             exts == Occurrences(SupportedVersions, b)
  <1>1. /\ p.len = Len(b)
        /\ p.shLen = IF HelloOf(b) = "server" THEN b[RecordHeaderLen] + RecordHeaderLen ELSE 0
        /\ p.cipher = IF HelloOf(b) = "server" THEN CipherOf(b) ELSE "none"
        /\ p.ext = IF exts = {} THEN 0 ELSE Min(exts) + Len(SupportedVersions) - 1
    BY DEF PacketOf
  <1>2. p.len \in Nat
    BY <1>1
  <1>3. p.shLen \in Int
    <2>1. HelloOf(b) = "server" => Len(b) > 4
      BY DEF HelloOf, RecordHeaderLen
    <2>2. HelloOf(b) = "server" => b[4] \in Nat
      BY <2>1
    <2> QED BY <1>1, <2>2 DEF RecordHeaderLen
  <1>4. p.cipher \in Ciphers
    BY <1>1 DEF CipherOf, Ciphers
  <1>5. p.ext \in Nat
    <2>1. exts \subseteq Nat /\ \A i \in exts : i >= 1
      BY DEF Occurrences, SupportedVersions
    <2>2. CASE exts = {}
      BY <1>1, <2>2
    <2>3. CASE exts # {}
      <3>1. \E i \in exts : \A j \in exts : i <= j
        BY <2>1, <2>3, LeastNatural
      <3>2. Min(exts) \in exts
        BY <3>1 DEF Min
      <3>3. Len(SupportedVersions) = 2
        BY DEF SupportedVersions
      <3> HIDE DEF exts, p
      <3>4. PICK m \in Nat : m = Min(exts) /\ m >= 1
        BY <2>1, <3>2
      <3> QED BY <1>1, <2>3, <3>3, <3>4
    <2> QED BY <2>2, <2>3
  <1> HIDE DEF p
  <1>6. SniffInput(p)
    BY <1>2, <1>3, <1>4, <1>5 DEF SniffInput
  <1> QED BY <1>6 DEF p

---------------------------------------------------------------------------
\* Bytes F are a beginning of what a reader takes d from and ends as v.
LEMMA PlainWrite ==
    ASSUME NEW ts, NEW pd, ~pd.padding, NEW data \in Seq(Nat), NEW uuid, NEW rs
    PROVE  FramesOf(ts, pd, data, uuid, rs) = data
  <1>1. PadInto(ts, pd, data, uuid, rs) = Append(<<>>, data)
    BY DEF PadInto
  <1>2. <<>> \in Seq(Seq(Nat)) /\ <<>> \o data = data
    OBVIOUS
  <1>3. FlattenSeq(Append(<<>>, data)) = FlattenSeq(<<>>) \o data
    BY <1>2, FlattenAppend
  <1> QED BY <1>1, <1>2, <1>3, FlattenEmpty DEF FramesOf

\* What the empty frame behind a request header is read back as.
CamouflageRead(uuid, u, f, v) ==
    /\ ReadAll(u, f, v, <<>>) /\ ~v.failed /\ ~v.done /\ ~v.expectUuid
    /\ \E w \in Seq(Nat) : f = uuid \o w
    /\ Len(f) \in Nat /\ Len(f) <= BufSize

LEMMA CamouflageIs ==
    ASSUME NEW pd, pd.fresh, NEW uuid \in Seq(Nat), Len(uuid) = UuidLen, NEW r \in Nat,
           NEW u \in Unpadders, ~u.done, ~u.failed, u.expectUuid
    PROVE  \E v \in Unpadders : CamouflageRead(uuid, u, CamouflageBytes(pd, uuid, r), v)
  <1> DEFINE pad == PaddingLen(0, TRUE, r)
             f == XtlsPadding(<<>>, "CONTINUE", uuid, pad)
             v == AfterCommand("CONTINUE")
  <1>1. CamouflageBytes(pd, uuid, r) = f
    BY DEF CamouflageBytes
  <1>2. pad \in Nat /\ UuidLen + 3 + 0 + pad <= BufSize /\ pad < FieldWidth
    <2>1. 0 \in Nat /\ 0 <= MaxFrameContent
      BY ContentNat
    <2> QED BY <2>1, PaddingFits
  <1> HIDE DEF pad
  <1>3. <<>> \in Seq(Nat) /\ Len(<<>>) = 0 /\ "CONTINUE" \in Commands
    BY DEF Commands
  <1>4. FieldWidth \in Nat \ {0} /\ FieldWidth \in Nat /\ 0 < FieldWidth
    BY ContentNat
  <1>5. FrameIs(f, <<>>, "CONTINUE", Len(uuid), pad)
    BY <1>2, <1>3, <1>4, FrameParts
  <1>6. f \in Seq(Nat) /\ Len(f) \in Nat /\ Len(f) <= BufSize
    BY <1>2, <1>3, <1>5, ContentNat DEF FrameIs
  <1>7. \E w \in Seq(Nat) : f = uuid \o w
    BY <1>2, <1>3, <1>4, FrameBegins, ZenonT(60)
  <1>8. v \in Unpadders /\ v.failed = FALSE /\ v.done = FALSE /\ v.expectUuid = FALSE
    BY DEF AfterCommand, Unpadders
  <1>9. Unpad(u, f) = [u |-> v, buf |-> <<>>, out |-> <<>>]
    <2>1. (u.expectUuid => Len(uuid) = UuidLen) /\ (~u.expectUuid => Len(uuid) = 0)
      OBVIOUS
    <2> DEFINE none == <<>>
               cmd == "CONTINUE"
    <2>2. none \in Seq(Nat) /\ Len(none) < FieldWidth /\ cmd \in Commands
      BY <1>3, <1>4
    <2> HIDE DEF none, cmd
    <2>3. Unpad(u, XtlsPadding(none, cmd, uuid, pad)) =
            [u |-> AfterCommand(cmd), buf |-> <<>>, out |-> none]
      BY <1>2, <1>4, <2>1, <2>2, UnpadFrame
    <2> QED BY <2>3 DEF none, cmd
  <1> HIDE DEF f, v
  <1>10. ReadAll(u, f, v, <<>>)
    BY <1>3, <1>6, <1>8, <1>9 DEF ReadAll
  <1>11. CamouflageRead(uuid, u, f, v)
    BY <1>6, <1>7, <1>8, <1>10 DEF CamouflageRead
  <1> QED BY <1>1, <1>8, <1>11

---------------------------------------------------------------------------
(***************************************************************************)
(* DecodeRequest, the server's reading of the request header.              *)
(***************************************************************************)
\* s starts with a.
Extended(s, a) == /\ s \in Seq(Nat) /\ a \in Seq(Nat) /\ Len(a) <= Len(s)
                  /\ \A i \in 1..Len(a) : s[i] = a[i]

LEMMA ExtendedConcat ==
    ASSUME NEW a \in Seq(Nat), NEW b \in Seq(Nat)
    PROVE  Extended(a \o b, a)
  BY ConcatParts DEF Extended

LEMMA ExtendedAgain ==
    ASSUME NEW s, NEW a, NEW b, Extended(s, a), Extended(a, b)
    PROVE  Extended(s, b)
  BY DEF Extended

LEMMA ExtendedPart ==
    ASSUME NEW a \in Seq(Nat), NEW m \in Seq(Nat), NEW s, Extended(s, a \o m)
    PROVE  /\ SubSeq(s, Len(a) + 1, Len(a) + Len(m)) = m
           /\ \A i \in 1..Len(m) : s[Len(a) + i] = m[i]
  <1>1. /\ Len(a \o m) = Len(a) + Len(m) /\ Len(a) \in Nat /\ Len(m) \in Nat
        /\ \A i \in 1..Len(m) : (a \o m)[Len(a) + i] = m[i]
    BY ConcatParts
  <1>2. s \in Seq(Nat) /\ Len(a) + Len(m) <= Len(s) /\ Len(s) \in Nat
    BY <1>1 DEF Extended
  <1>3. ASSUME NEW i \in 1..Len(m) PROVE s[Len(a) + i] = m[i]
    <2> DEFINE j == Len(a) + i
    <2>1. j \in 1..Len(a \o m) /\ (a \o m)[j] = m[i]
      BY <1>1
    <2> HIDE DEF j
    <2>2. s[j] = (a \o m)[j]
      BY <2>1 DEF Extended
    <2> QED BY <2>1, <2>2 DEF j
  <1> DEFINE c == SubSeq(s, Len(a) + 1, Len(a) + Len(m))
  <1>4. c \in Seq(Nat) /\ Len(c) = Len(m)
    BY <1>1, <1>2
  <1>5. \A i \in 1..Len(m) : c[i] = m[i]
    BY <1>1, <1>2, <1>3
  <1> HIDE DEF c
  <1>6. c = m
    BY <1>4, <1>5, SeqEqual
  <1> QED BY <1>3, <1>6 DEF c

LEMMA ExtendedCut ==
    ASSUME NEW s, NEW a, Extended(s, a), NEW i \in Nat, NEW j \in Nat, i >= 1, j <= Len(a)
    PROVE  SubSeq(s, i, j) = SubSeq(a, i, j)
  <1> DEFINE c == SubSeq(s, i, j)
             d == SubSeq(a, i, j)
  <1>1. s \in Seq(Nat) /\ a \in Seq(Nat) /\ Len(a) <= Len(s) /\ Len(a) \in Nat /\ Len(s) \in Nat
    BY DEF Extended
  <1>2. CASE i <= j
    <2>1. c \in Seq(Nat) /\ d \in Seq(Nat) /\ Len(c) = j - i + 1 /\ Len(d) = j - i + 1
      BY <1>1, <1>2, SMTT(30)
    <2>2. \A k \in 1..Len(c) : c[k] = d[k]
      BY <1>1, <1>2, <2>1 DEF Extended
    <2> HIDE DEF c, d
    <2> QED BY <2>1, <2>2, SeqEqual DEF c, d
  <1>3. CASE i > j
    BY <1>1, <1>3
  <1> QED BY <1>2, <1>3

---------------------------------------------------------------------------
\* The parts of a request header at the start of b.
CommandAt(b) == UuidLen + 3 + b[UuidLen + 2]
KindOf(b) == XrayAtyp[b[CommandAt(b) + 2]]
AddressAt(b) == CommandAt(b) + (IF KindOf(b) = "domain" THEN 4 ELSE 3)
AddressLen(b) == CASE KindOf(b) = "ip4" -> Ip4Len [] KindOf(b) = "ip6" -> Ip6Len
                   [] KindOf(b) = "domain" -> b[CommandAt(b) + 3]
RequestEnd(b) == AddressAt(b) + AddressLen(b) - 1
RequestIn(b) == [uuid |-> SubSeq(b, 2, UuidLen + 1),
               flow |-> SubSeq(b, UuidLen + 5, CommandAt(b) - 1),
               target |-> [kind |-> KindOf(b), addr |-> SubSeq(b, AddressAt(b), RequestEnd(b)),
                           port |-> b[CommandAt(b) + 1]],
               size |-> RequestEnd(b)]
Whole(b) == /\ Len(b) >= UuidLen + 2 /\ Len(b) >= CommandAt(b) + 3
            /\ b[1] = 0 /\ b[CommandAt(b)] = 1 /\ b[CommandAt(b) + 2] \in DOMAIN XrayAtyp
            /\ Len(b) >= RequestEnd(b)

LEMMA DecodeIs ==
    ASSUME NEW b \in Seq(Nat)
    PROVE  DecodeRequest(b) = IF Whole(b) THEN {RequestIn(b)} ELSE {}
  <1>1. UuidLen \in Nat /\ Len(b) \in Nat
    BY SizesAssumption
  <1>2. CASE Len(b) < UuidLen + 2
    BY <1>1, <1>2 DEF DecodeRequest, Whole
  <1>3. CASE Len(b) >= UuidLen + 2
    <2>1. b[UuidLen + 2] \in Nat
      BY <1>1, <1>3
    <2>2. CommandAt(b) \in Nat
      BY <1>1, <2>1 DEF CommandAt
    <2>3. CASE Len(b) < CommandAt(b) + 3
      BY <1>1, <1>3, <2>2, <2>3 DEF DecodeRequest, Whole, CommandAt
    <2>4. CASE Len(b) >= CommandAt(b) + 3
      <3>1. DecodeRequest(b) =
              IF b[1] # 0 \/ b[CommandAt(b)] # 1 \/ b[CommandAt(b) + 2] \notin DOMAIN XrayAtyp THEN {}
              ELSE IF Len(b) < RequestEnd(b) THEN {} ELSE {RequestIn(b)}
        <4>1. ~(Len(b) < UuidLen + 2) /\ ~(Len(b) < CommandAt(b) + 3)
          BY <1>1, <1>3, <2>2, <2>4
        <4> QED
          BY <4>1, Zenon DEF DecodeRequest, CommandAt, KindOf, AddressAt, AddressLen, RequestEnd, RequestIn
      <3>2. CASE b[1] # 0 \/ b[CommandAt(b)] # 1 \/ b[CommandAt(b) + 2] \notin DOMAIN XrayAtyp
        BY <3>1, <3>2 DEF Whole
      <3>3. CASE ~(b[1] # 0 \/ b[CommandAt(b)] # 1 \/ b[CommandAt(b) + 2] \notin DOMAIN XrayAtyp)
        <4>1. RequestEnd(b) \in Int
          <5>1. KindOf(b) \in {"ip4", "domain", "ip6"}
            BY <3>3 DEF KindOf, XrayAtyp
          <5>2. b[CommandAt(b) + 3] \in Nat
            BY <1>1, <2>2, <2>4
          <5>3. AddressLen(b) \in Nat
            BY <5>1, <5>2, WidthsAssumption DEF AddressLen
          <5> QED BY <2>2, <5>3 DEF RequestEnd, AddressAt
        <4> QED BY <1>1, <1>3, <2>4, <3>1, <3>3, <4>1 DEF Whole
      <3> QED BY <3>2, <3>3
    <2> QED BY <1>1, <2>2, <2>3, <2>4
  <1> QED BY <1>1, <1>2, <1>3

LEMMA WholeNat ==
    ASSUME NEW b \in Seq(Nat), Whole(b)
    PROVE  /\ UuidLen \in Nat /\ b[UuidLen + 2] \in Nat
           /\ CommandAt(b) \in Nat /\ CommandAt(b) >= UuidLen + 3
           /\ KindOf(b) \in {"ip4", "domain", "ip6"} /\ b[CommandAt(b) + 3] \in Nat
           /\ AddressAt(b) \in Nat /\ AddressAt(b) >= CommandAt(b) + 3 /\ AddressLen(b) \in Nat
           /\ RequestEnd(b) \in Nat /\ RequestEnd(b) <= Len(b) /\ Len(b) \in Nat
  <1>1. UuidLen \in Nat /\ Len(b) \in Nat /\ Len(b) >= UuidLen + 2
    BY SizesAssumption DEF Whole
  <1>2. b[UuidLen + 2] \in Nat
    BY <1>1
  <1>3. CommandAt(b) \in Nat /\ CommandAt(b) >= UuidLen + 3
    BY <1>1, <1>2 DEF CommandAt
  <1>4. KindOf(b) \in {"ip4", "domain", "ip6"}
    BY DEF KindOf, XrayAtyp, Whole
  <1>5. Len(b) >= CommandAt(b) + 3
    BY DEF Whole
  <1>6. b[CommandAt(b) + 3] \in Nat
    BY <1>1, <1>3, <1>5
  <1>7. AddressLen(b) \in Nat
    BY <1>4, <1>6, WidthsAssumption DEF AddressLen
  <1>8. AddressAt(b) \in Nat /\ AddressAt(b) >= CommandAt(b) + 3
    BY <1>3 DEF AddressAt
  <1>9. RequestEnd(b) \in Nat
    BY <1>3, <1>7, <1>8 DEF RequestEnd
  <1>10. RequestEnd(b) <= Len(b)
    BY <1>1, <1>9 DEF Whole
  <1> QED BY <1>1, <1>2, <1>3, <1>4, <1>6, <1>7, <1>8, <1>9, <1>10

\* More bytes behind a request change nothing about it.
LEMMA WholeExtended ==
    ASSUME NEW a \in Seq(Nat), Whole(a), NEW s, Extended(s, a)
    PROVE  Whole(s) /\ RequestIn(s) = RequestIn(a)
  <1>0. s \in Seq(Nat) /\ Len(s) \in Nat /\ Len(a) <= Len(s) /\ \A i \in 1..Len(a) : s[i] = a[i]
    BY DEF Extended
  <1>1. /\ UuidLen \in Nat /\ a[UuidLen + 2] \in Nat
        /\ CommandAt(a) \in Nat /\ CommandAt(a) >= UuidLen + 3
        /\ KindOf(a) \in {"ip4", "domain", "ip6"} /\ a[CommandAt(a) + 3] \in Nat
        /\ AddressAt(a) \in Nat /\ AddressAt(a) >= CommandAt(a) + 3 /\ AddressLen(a) \in Nat
        /\ RequestEnd(a) \in Nat /\ RequestEnd(a) <= Len(a) /\ Len(a) \in Nat
    BY WholeNat
  <1>2. /\ Len(a) >= UuidLen + 2 /\ Len(a) >= CommandAt(a) + 3
        /\ a[1] = 0 /\ a[CommandAt(a)] = 1 /\ a[CommandAt(a) + 2] \in DOMAIN XrayAtyp
    BY DEF Whole
  <1>3. s[UuidLen + 2] = a[UuidLen + 2]
    BY <1>0, <1>1, <1>2
  <1>4. CommandAt(s) = CommandAt(a)
    BY <1>3 DEF CommandAt
  <1> DEFINE k == CommandAt(a)
  <1>5. s[1] = a[1] /\ s[k] = a[k] /\ s[k + 1] = a[k + 1] /\ s[k + 2] = a[k + 2] /\ s[k + 3] = a[k + 3]
    <2> HIDE DEF k
    <2>1. k \in Nat /\ k >= 1 /\ k + 3 <= Len(a) /\ Len(a) \in Nat
      BY <1>1, <1>2 DEF k
    <2> QED BY <1>0, <2>1, SMTT(30)
  <1>6. KindOf(s) = KindOf(a)
    BY <1>4, <1>5 DEF KindOf
  <1>7. AddressAt(s) = AddressAt(a) /\ AddressLen(s) = AddressLen(a)
    BY <1>4, <1>5, <1>6, Zenon DEF AddressAt, AddressLen
  <1>8. RequestEnd(s) = RequestEnd(a)
    BY <1>7 DEF RequestEnd
  <1>9. Whole(s)
    <2>1. Len(s) >= UuidLen + 2 /\ Len(s) >= CommandAt(s) + 3 /\ Len(s) >= RequestEnd(s)
      <3>1. \A x, y, z \in Nat : x <= y /\ y <= z => x <= z
        OBVIOUS
      <3>2. UuidLen + 2 \in Nat /\ CommandAt(a) + 3 \in Nat
        BY <1>1, SMTT(30)
      <3>3. UuidLen + 2 <= Len(s) /\ CommandAt(a) + 3 <= Len(s) /\ RequestEnd(a) <= Len(s)
        BY <1>0, <1>1, <1>2, <3>1, <3>2
      <3> QED BY <1>4, <1>8, <3>3
    <2>2. s[1] = 0 /\ s[CommandAt(s)] = 1 /\ s[CommandAt(s) + 2] \in DOMAIN XrayAtyp
      BY <1>2, <1>4, <1>5
    <2> QED BY <2>1, <2>2 DEF Whole
  <1>10. SubSeq(s, 2, UuidLen + 1) = SubSeq(a, 2, UuidLen + 1)
    <2>1. 2 \in Nat /\ 2 >= 1 /\ UuidLen + 1 \in Nat /\ UuidLen + 1 <= Len(a)
      BY <1>1, <1>2
    <2> QED BY <2>1, ExtendedCut
  <1>11. SubSeq(s, UuidLen + 5, k - 1) = SubSeq(a, UuidLen + 5, k - 1)
    <2> HIDE DEF k
    <2>0. k \in Nat /\ k >= 3 /\ k + 3 <= Len(a) /\ Len(a) \in Nat
      BY <1>1, <1>2 DEF k
    <2>1. UuidLen + 5 \in Nat /\ UuidLen + 5 >= 1 /\ k - 1 \in Nat /\ k - 1 <= Len(a)
      BY <1>1, <2>0
    <2> QED BY <2>1, ExtendedCut
  <1>12. SubSeq(s, AddressAt(a), RequestEnd(a)) = SubSeq(a, AddressAt(a), RequestEnd(a))
    <2>1. AddressAt(a) \in Nat /\ AddressAt(a) >= 1 /\ RequestEnd(a) \in Nat /\ RequestEnd(a) <= Len(a)
      BY <1>1
    <2> QED BY <2>1, ExtendedCut
  <1>13. RequestIn(s) = RequestIn(a)
    BY <1>4, <1>5, <1>6, <1>7, <1>8, <1>10, <1>11, <1>12 DEF RequestIn
  <1> QED BY <1>9, <1>13

---------------------------------------------------------------------------
(***************************************************************************)
(* The header that encode_request writes, and what the server reads in it. *)
(***************************************************************************)
Destinations == [kind : {"ip4", "ip6", "domain"}, addr : Seq(Nat), port : Nat]
\* An address of the length its kind has.
Sized(t) == /\ t \in Destinations
            /\ t.kind = "ip4" => Len(t.addr) = Ip4Len
            /\ t.kind = "ip6" => Len(t.addr) = Ip6Len
            /\ t.kind = "domain" => Len(t.addr) < 256

LengthByte(t) == IF t.kind = "domain" THEN <<Len(t.addr) % 256>> ELSE <<>>

\* The header's parts, one behind the other.
HeaderParts(h, uuid, flow, t, b1, b2, b3, b4, b5) ==
    /\ b1 = <<0>> \o uuid
    /\ b2 = b1 \o <<Len(Addons(flow))>>
    /\ b3 = b2 \o Addons(flow)
    /\ b4 = b3 \o <<1, t.port, VlessAtyp[t.kind]>>
    /\ b5 = b4 \o LengthByte(t)
    /\ h = b5 \o t.addr

LEMMA ByteMod == \A x \in Nat : x < 256 => x % 256 = x
  OBVIOUS

LEMMA AddonsIs ==
    ASSUME NEW flow \in Seq(Nat), Len(flow) < 254
    PROVE  /\ Addons(flow) \in Seq(Nat) /\ Len(Addons(flow)) \in 0..255
           /\ Len(Addons(flow)) % 256 = Len(Addons(flow))
           /\ flow = <<>> => Len(Addons(flow)) = 0
           /\ flow # <<>> => \E c \in Seq(Nat) : /\ Addons(flow) = c \o flow /\ Len(c) = 2
                                                 /\ Len(Addons(flow)) = Len(flow) + 2
  <1>1. CASE flow = <<>>
    BY <1>1 DEF Addons
  <1>2. CASE flow # <<>>
    <2> DEFINE c == <<10, Len(flow) % 256>>
    <2>1. c \in Seq(Nat) /\ Len(c) = 2 /\ Addons(flow) = c \o flow
      BY <1>2 DEF Addons
    <2> HIDE DEF c
    <2>2. c \o flow \in Seq(Nat) /\ Len(c \o flow) = Len(c) + Len(flow) /\ Len(flow) \in Nat
      BY <2>1, ConcatParts
    <2>3. Len(Addons(flow)) = Len(flow) + 2 /\ Addons(flow) \in Seq(Nat)
      BY <2>1, <2>2
    <2>4. PICK n \in Nat : n = Len(Addons(flow)) /\ n < 256
      BY <2>2, <2>3
    <2>5. n % 256 = n /\ n \in 0..255
      <3>1. 256 \in Nat
        OBVIOUS
      <3>2. n % 256 = n
        BY <2>4, <3>1, ModSmall
      <3>3. n \in 0..255
        <4>1. n \in Nat /\ n < 256
          BY <2>4
        <4> QED BY <4>1
      <3> QED BY <3>2, <3>3
    <2> QED BY <1>2, <2>1, <2>3, <2>4, <2>5
  <1> QED BY <1>1, <1>2

LEMMA HeaderIs ==
    ASSUME NEW uuid \in Seq(Nat), NEW flow \in Seq(Nat), Len(flow) < 254, NEW t \in Destinations
    PROVE  \E b1, b2, b3, b4, b5 \in Seq(Nat) :
              HeaderParts(RequestHeader(uuid, flow, t), uuid, flow, t, b1, b2, b3, b4, b5)
  <1> DEFINE z == <<0>>
             n == <<Len(Addons(flow))>>
             a == Addons(flow)
             m == <<1, t.port, VlessAtyp[t.kind]>>
             l == LengthByte(t)
             d == t.addr
             b1 == z \o uuid
             b2 == b1 \o n
             b3 == b2 \o a
             b4 == b3 \o m
             b5 == b4 \o l
             h == RequestHeader(uuid, flow, t)
  <1>1. Len(Addons(flow)) % 256 = Len(Addons(flow)) /\ Len(Addons(flow)) \in Nat /\ a \in Seq(Nat)
    BY AddonsIs, SMTT(30)
  <1>2. z \in Seq(Nat) /\ n \in Seq(Nat) /\ d \in Seq(Nat) /\ l \in Seq(Nat)
    BY <1>1 DEF Destinations, LengthByte
  <1>3. m \in Seq(Nat)
    BY DEF Destinations, VlessAtyp
  <1>4. h = b5 \o d
    BY <1>1 DEF RequestHeader, LengthByte
  <1>5. b1 \in Seq(Nat)
    <2> HIDE DEF z
    <2> QED BY <1>2, ConcatParts
  <1>6. b2 \in Seq(Nat)
    <2> HIDE DEF b1, n
    <2> QED BY <1>2, <1>5, ConcatParts
  <1>7. b3 \in Seq(Nat)
    <2> HIDE DEF b2, a
    <2> QED BY <1>1, <1>6, ConcatParts
  <1>8. b4 \in Seq(Nat)
    <2> HIDE DEF b3, m
    <2> QED BY <1>3, <1>7, ConcatParts
  <1>9. b5 \in Seq(Nat)
    <2> HIDE DEF b4, l
    <2> QED BY <1>2, <1>8, ConcatParts
  <1>10. HeaderParts(h, uuid, flow, t, b1, b2, b3, b4, b5)
    <2> HIDE DEF h
    <2> QED BY <1>4 DEF HeaderParts
  <1> HIDE DEF b1, b2, b3, b4, b5, h
  <1>11. HeaderParts(RequestHeader(uuid, flow, t), uuid, flow, t, b1, b2, b3, b4, b5)
    BY <1>10 DEF h
  <1> QED BY <1>5, <1>6, <1>7, <1>8, <1>9, <1>11

\* The header that encode_request writes is a whole request for the server,
\* and says what was asked for: the user, the flow and the target.
THEOREM HeaderDecoded ==
    ASSUME NEW uuid \in Seq(Nat), Len(uuid) = UuidLen, NEW flow \in Seq(Nat), Len(flow) < 254,
           NEW t, Sized(t), NEW h, h = RequestHeader(uuid, flow, t)
    PROVE  /\ h \in Seq(Nat) /\ Whole(h)
           /\ RequestIn(h) = [uuid |-> uuid, flow |-> flow, target |-> t, size |-> Len(h)]
  <1>0. t \in Destinations
    BY DEF Sized
  <1>1. PICK b1 \in Seq(Nat), b2 \in Seq(Nat), b3 \in Seq(Nat), b4 \in Seq(Nat), b5 \in Seq(Nat) :
              HeaderParts(h, uuid, flow, t, b1, b2, b3, b4, b5)
    BY <1>0, HeaderIs
  <1> DEFINE z == <<0>>
             a == Addons(flow)
             n == <<Len(a)>>
             m == <<1, t.port, VlessAtyp[t.kind]>>
             l == LengthByte(t)
             d == t.addr
             U == UuidLen
             A == Len(a)
             D == Len(d)
             k == U + 3 + A
  <1>2. /\ a \in Seq(Nat) /\ A \in Nat
        /\ flow = <<>> => A = 0
        /\ flow # <<>> => \E c \in Seq(Nat) : a = c \o flow /\ Len(c) = 2 /\ A = Len(flow) + 2
    <2>1. /\ Addons(flow) \in Seq(Nat) /\ Len(Addons(flow)) \in 0..255
          /\ flow = <<>> => Len(Addons(flow)) = 0
          /\ flow # <<>> => \E c \in Seq(Nat) : /\ Addons(flow) = c \o flow /\ Len(c) = 2
                                                /\ Len(Addons(flow)) = Len(flow) + 2
      BY AddonsIs
    <2>2. A \in Nat
      BY <2>1
    <2>3. flow # <<>> => \E c \in Seq(Nat) : a = c \o flow /\ Len(c) = 2 /\ A = Len(flow) + 2
      BY <2>1
    <2> QED BY <2>1, <2>2, <2>3
  <1>3. /\ z \in Seq(Nat) /\ n \in Seq(Nat) /\ d \in Seq(Nat) /\ l \in Seq(Nat) /\ m \in Seq(Nat)
        /\ Len(z) = 1 /\ Len(n) = 1 /\ Len(m) = 3 /\ D \in Nat /\ U \in Nat
        /\ z[1] = 0 /\ n[1] = A /\ m[1] = 1 /\ m[2] = t.port /\ m[3] = VlessAtyp[t.kind]
    <2>1. t.port \in Nat /\ VlessAtyp[t.kind] \in Nat /\ d \in Seq(Nat)
      BY <1>0 DEF Destinations, VlessAtyp
    <2>2. m \in Seq(Nat) /\ Len(m) = 3 /\ m[1] = 1 /\ m[2] = t.port /\ m[3] = VlessAtyp[t.kind]
      BY <2>1
    <2>3. n \in Seq(Nat) /\ Len(n) = 1 /\ n[1] = A
      BY <1>2
    <2>4. z \in Seq(Nat) /\ Len(z) = 1 /\ z[1] = 0
      OBVIOUS
    <2>5. l \in Seq(Nat)
      <3>1. CASE t.kind = "domain"
        <4> DEFINE c == D % 256
        <4>1. D \in Nat
          BY <2>1
        <4>2. l = <<c>>
          BY <3>1 DEF LengthByte
        <4> HIDE DEF D
        <4>3. c \in Nat
          BY <4>1
        <4> HIDE DEF c, l
        <4> QED BY <4>2, <4>3
      <3>2. CASE t.kind # "domain"
        BY <3>2 DEF LengthByte
      <3> QED BY <3>1, <3>2
    <2>6. D \in Nat /\ U \in Nat
      BY <2>1, SizesAssumption, SMTT(30)
    <2> QED BY <2>1, <2>2, <2>3, <2>4, <2>5, <2>6
  <1>4. \/ t.kind = "domain" /\ Len(l) = 1 /\ l[1] = D
        \/ t.kind \in {"ip4", "ip6"} /\ l = <<>> /\ Len(l) = 0
    <2>1. CASE t.kind = "domain"
      <3>1. D % 256 = D
        <4>1. D \in Nat /\ D < 256 /\ 256 \in Nat
          BY <1>3, <2>1 DEF Sized
        <4> HIDE DEF D
        <4> QED BY <4>1, ByteMod
      <3>2. l = <<D>>
        BY <2>1, <3>1 DEF LengthByte
      <3> QED BY <2>1, <3>2
    <2>2. CASE t.kind # "domain"
      BY <1>0, <2>2 DEF Destinations, LengthByte
    <2> QED BY <2>1, <2>2
  <1>5. b1 = z \o uuid /\ b2 = b1 \o n /\ b3 = b2 \o a /\ b4 = b3 \o m /\ b5 = b4 \o l /\ h = b5 \o d
    BY <1>1 DEF HeaderParts
  <1>p. U = UuidLen /\ Len(uuid) = U
    OBVIOUS
  <1> HIDE DEF z, a, n, m, l, d, U, A, D
  <1>6. Len(b1) = 1 + U /\ Extended(b1, b1)
    <2>1. Len(z \o uuid) = Len(z) + Len(uuid)
      BY <1>3, ConcatParts
    <2> QED BY <1>3, <1>5, <1>p, <2>1 DEF Extended
  <1>7. Len(b2) = U + 2 /\ Extended(b2, b1)
    <2>1. Len(b1 \o n) = Len(b1) + Len(n) /\ Extended(b1 \o n, b1)
      BY <1>3, ConcatParts, ExtendedConcat
    <2> QED BY <1>3, <1>5, <1>6, <2>1
  <1>8. Len(b3) = U + 2 + A /\ Extended(b3, b2)
    <2>1. Len(b2 \o a) = Len(b2) + A /\ Extended(b2 \o a, b2)
      BY <1>2, ConcatParts, ExtendedConcat DEF A
    <2> QED BY <1>3, <1>5, <1>7, <2>1
  <1>9. Len(b4) = k + 2 /\ Extended(b4, b3)
    <2>1. Len(b3 \o m) = Len(b3) + Len(m) /\ Extended(b3 \o m, b3)
      BY <1>3, ConcatParts, ExtendedConcat
    <2> QED BY <1>2, <1>3, <1>5, <1>8, <2>1
  <1>10. Len(b5) = k + 2 + Len(l) /\ Extended(b5, b4) /\ Len(l) \in Nat
    <2>1. Len(b4 \o l) = Len(b4) + Len(l) /\ Extended(b4 \o l, b4) /\ Len(l) \in Nat
      BY <1>3, ConcatParts, ExtendedConcat
    <2> QED BY <1>2, <1>3, <1>5, <1>9, <2>1
  <1>11. Len(h) = k + 2 + Len(l) + D /\ Extended(h, b5) /\ h \in Seq(Nat)
    <2>1. Len(b5 \o d) = Len(b5) + D /\ Extended(b5 \o d, b5) /\ b5 \o d \in Seq(Nat)
      BY <1>3, ConcatParts, ExtendedConcat DEF D
    <2> QED BY <1>2, <1>3, <1>5, <1>10, <2>1
  <1>12. Extended(h, b1) /\ Extended(h, b2) /\ Extended(h, b3) /\ Extended(h, b4) /\ Extended(h, h)
    <2>1. Extended(h, b4)
      BY <1>10, <1>11, ExtendedAgain
    <2>2. Extended(h, b3)
      BY <1>9, <2>1, ExtendedAgain
    <2>3. Extended(h, b2)
      BY <1>8, <2>2, ExtendedAgain
    <2>4. Extended(h, b1)
      BY <1>7, <2>3, ExtendedAgain
    <2> QED BY <1>11, <2>1, <2>2, <2>3, <2>4 DEF Extended
  <1>13. h[1] = 0 /\ SubSeq(h, 2, U + 1) = uuid
    <2>1. /\ SubSeq(h, Len(z) + 1, Len(z) + Len(uuid)) = uuid
      BY <1>3, <1>5, <1>12, ExtendedPart
    <2>2. Extended(z \o uuid, z)
      BY <1>3, ExtendedConcat
    <2>3. Extended(h, z)
      BY <1>5, <1>12, <2>2, ExtendedAgain
    <2>4. h[1] = z[1]
      BY <1>3, <2>3 DEF Extended
    <2>5. Len(z) + 1 = 2 /\ Len(z) + Len(uuid) = U + 1
      BY <1>3, <1>p
    <2> QED BY <1>3, <2>1, <2>4, <2>5
  <1>14. h[U + 2] = A
    <2>0. Extended(h, b1 \o n) /\ n \in Seq(Nat)
      BY <1>3, <1>5, <1>12
    <2>1. \A i \in 1..Len(n) : h[Len(b1) + i] = n[i]
      BY <2>0, ExtendedPart
    <2>2. h[Len(b1) + 1] = n[1] /\ Len(b1) + 1 = U + 2
      BY <1>3, <1>6, <2>1
    <2> QED BY <1>3, <2>2
  <1>15. SubSeq(h, U + 5, k - 1) = flow
    <2>1. CASE flow = <<>>
      <3>1. k - 1 < U + 5 /\ k - 1 \in Int /\ U + 5 \in Int
        BY <1>2, <1>3, <2>1
      <3>2. SubSeq(h, U + 5, k - 1) = <<>>
        BY <1>11, <3>1, SMTT(30)
      <3> QED BY <2>1, <3>2
    <2>2. CASE flow # <<>>
      <3>1. PICK c \in Seq(Nat) : a = c \o flow /\ Len(c) = 2 /\ A = Len(flow) + 2
        BY <1>2, <2>2
      <3>2. b3 = (b2 \o c) \o flow /\ b2 \o c \in Seq(Nat) /\ Len(b2 \o c) = Len(b2) + Len(c)
        <4>0. \A e \in Seq(Nat) : (b2 \o c) \o e = b2 \o (c \o e)
          BY ConcatBytes
        <4>1. (b2 \o c) \o flow = b2 \o (c \o flow)
          BY <4>0
        <4>2. b2 \o c \in Seq(Nat) /\ Len(b2 \o c) = Len(b2) + Len(c)
          BY ConcatParts
        <4>3. b3 = b2 \o (c \o flow)
          BY <1>5, <3>1
        <4> QED BY <4>1, <4>2, <4>3
      <3> DEFINE e == b2 \o c
      <3>3. e \in Seq(Nat) /\ Len(e) = U + 4 /\ Extended(h, e \o flow)
        BY <1>3, <1>7, <1>12, <3>1, <3>2
      <3> HIDE DEF e
      <3>4. SubSeq(h, Len(e) + 1, Len(e) + Len(flow)) = flow
        BY <3>3, ExtendedPart
      <3>5. Len(e) + 1 = U + 5 /\ Len(e) + Len(flow) = k - 1
        BY <1>3, <3>1, <3>3
      <3> QED BY <3>4, <3>5
    <2> QED BY <2>1, <2>2
  <1>16. h[k] = 1 /\ h[k + 1] = t.port /\ h[k + 2] = VlessAtyp[t.kind]
    <2>0. Extended(h, b3 \o m) /\ m \in Seq(Nat)
      BY <1>3, <1>5, <1>12
    <2>1. \A i \in 1..Len(m) : h[Len(b3) + i] = m[i]
      BY <2>0, ExtendedPart
    <2>2. h[Len(b3) + 1] = m[1] /\ h[Len(b3) + 2] = m[2] /\ h[Len(b3) + 3] = m[3]
      BY <1>3, <2>1, SMTT(30)
    <2>3. Len(b3) + 1 = k /\ Len(b3) + 2 = k + 1 /\ Len(b3) + 3 = k + 2
      BY <1>2, <1>3, <1>8
    <2> QED BY <1>3, <2>2, <2>3
  <1>17. t.kind = "domain" => h[k + 3] = D
    <2>0. Extended(h, b4 \o l) /\ l \in Seq(Nat)
      BY <1>3, <1>5, <1>11
    <2>1. \A i \in 1..Len(l) : h[Len(b4) + i] = l[i]
      BY <2>0, ExtendedPart
    <2>2. Len(b4) + 1 = k + 3
      BY <1>2, <1>3, <1>9
    <2>3. CASE t.kind = "domain"
      <3>1. Len(l) = 1 /\ l[1] = D
        BY <1>4, <2>3
      <3>2. h[Len(b4) + 1] = l[1]
        BY <2>1, <3>1
      <3> QED BY <2>2, <3>1, <3>2
    <2> QED BY <2>3
  <1>18. SubSeq(h, Len(b5) + 1, Len(b5) + D) = d
    BY <1>3, <1>5, <1>12, ExtendedPart, SMTT(30) DEF D
  <1>19. CommandAt(h) = k
    BY <1>14, <1>3, <1>p DEF CommandAt
  <1>20. KindOf(h) = t.kind /\ h[CommandAt(h) + 2] \in DOMAIN XrayAtyp
    <2>1. h[CommandAt(h) + 2] = VlessAtyp[t.kind]
      BY <1>16, <1>19
    <2>2. t.kind \in {"ip4", "ip6", "domain"}
      BY <1>0 DEF Destinations
    <2> QED BY <2>1, <2>2 DEF KindOf, XrayAtyp, VlessAtyp
  <1>21. AddressLen(h) = D
    <2>1. CASE t.kind = "ip4"
      BY <1>20, <2>1 DEF AddressLen, Sized, D, d
    <2>2. CASE t.kind = "ip6"
      BY <1>20, <2>2 DEF AddressLen, Sized, D, d
    <2>3. CASE t.kind = "domain"
      BY <1>17, <1>19, <1>20, <2>3 DEF AddressLen
    <2> QED BY <1>0, <2>1, <2>2, <2>3 DEF Destinations
  <1>22. AddressAt(h) = Len(b5) + 1
    <2>1. Len(l) = (IF KindOf(h) = "domain" THEN 1 ELSE 0)
      BY <1>4, <1>20
    <2>2. AddressAt(h) = k + (IF KindOf(h) = "domain" THEN 4 ELSE 3)
      BY <1>19 DEF AddressAt
    <2>3. PICK K \in Nat : K = k
      BY <1>2, <1>3
    <2> HIDE DEF k
    <2>4. CASE KindOf(h) = "domain"
      BY <1>10, <2>1, <2>2, <2>3, <2>4
    <2>5. CASE KindOf(h) # "domain"
      BY <1>10, <2>1, <2>2, <2>3, <2>5
    <2> QED BY <2>4, <2>5
  <1>23. RequestEnd(h) = Len(b5) + D /\ Len(h) = Len(b5) + D
    BY <1>2, <1>3, <1>10, <1>11, <1>21, <1>22 DEF RequestEnd
  <1>24. Whole(h)
    <2>1. Len(h) >= k + 3
      <3>1. D + Len(l) >= 1
        <4>1. CASE t.kind \in {"ip4", "ip6"}
          <5>1. D \in {Ip4Len, Ip6Len}
            BY <4>1 DEF Sized, D, d
          <5>2. D \in Nat \ {0}
            BY <5>1, WidthsAssumption
          <5> QED BY <1>10, <5>2
        <4>2. CASE t.kind = "domain"
          <5>1. Len(l) = 1
            BY <1>4, <4>2
          <5> QED BY <1>3, <5>1
        <4> QED BY <1>4, <4>1, <4>2
      <3> QED BY <1>2, <1>3, <1>10, <1>11, <3>1
    <2>2. Len(h) >= U + 2
      BY <1>2, <1>3, <1>11, <2>1
    <2>3. Len(h) >= RequestEnd(h)
      BY <1>11, <1>23
    <2> QED BY <1>13, <1>16, <1>19, <1>20, <1>p, <2>1, <2>2, <2>3 DEF Whole
  <1>25. t = [kind |-> t.kind, addr |-> d, port |-> t.port]
    BY <1>0 DEF Destinations, d
  <1>26. RequestIn(h) = [uuid |-> uuid, flow |-> flow, target |-> t, size |-> Len(h)]
    BY <1>13, <1>15, <1>16, <1>18, <1>19, <1>20, <1>22, <1>23, <1>25, <1>p DEF RequestIn
  <1> QED BY <1>11, <1>24, <1>26

\* Whatever is behind the header that encode_request writes, the server takes just
\* that header from its buffer, and reads in it what was asked for (vless.rs:32-57).
THEOREM RequestReadBack ==
    ASSUME NEW uuid \in Seq(Nat), Len(uuid) = UuidLen, NEW flow \in Seq(Nat), Len(flow) < 254,
           NEW t, Sized(t), NEW h, h = RequestHeader(uuid, flow, t), NEW s, Extended(s, h)
    PROVE  DecodeRequest(s) = {[uuid |-> uuid, flow |-> flow, target |-> t, size |-> Len(h)]}
  <1>1. /\ h \in Seq(Nat) /\ Whole(h)
        /\ RequestIn(h) = [uuid |-> uuid, flow |-> flow, target |-> t, size |-> Len(h)]
    BY HeaderDecoded
  <1>2. s \in Seq(Nat)
    BY DEF Extended
  <1>3. Whole(s) /\ RequestIn(s) = RequestIn(h)
    BY <1>1, WholeExtended
  <1> QED
    BY <1>1, <1>2, <1>3, DecodeIs

---------------------------------------------------------------------------
(***************************************************************************)
(* The invariant. TypeInv is the type correctness with what bounds the     *)
(* counters. ConfigInv says what is known once the configuration is        *)
(* loaded, and that the server has authenticated nobody but the client of  *)
(* this run. HandshakeInv is what the SOCKS5 handler has understood of the *)
(* input at each of its awaits. UplinkInv ties the four places a byte from *)
(* the client can be in, the padder, the wire, the server's buffer and the *)
(* server's data, to one another by what the server would make of all that *)
(* is under way (Outstanding), for a read cuts frames anywhere, so nothing *)
(* can be said of the bytes in one place alone. DownlinkInv says the same  *)
(* of the client's reader and the bytes it has consumed.                   *)
(***************************************************************************)
Told == {<<5, 0>>, <<5, 255>>, <<5, 0, 0, 1>>}
Partial == [kind : {"none", "ip4", "ip6", "domain"}, addr : Seq(Nat), port : Nat]
Keys == [key : Seq(0..255), shortId : Seq(0..255)]
Asked == [uuid : Seq(Nat), flow : Seq(Nat), target : Destinations, size : Nat]
Servers == [auth : SUBSET Keys, req : SUBSET Asked, buf : Seq(Nat), prefix : Seq(Nat),
            unpadder : Unpadders, data : Seq(Nat), eof : BOOLEAN]
Readers == [at : Nat, header : BOOLEAN, buf : Seq(Nat), unpadder : Unpadders]

TypeInv ==
    /\ run \in Runs
    /\ phase \in HandshakePhases \cup {"load", "reply", "connect", "first", "relay", "failed", "lost"}
    /\ need \in Nat /\ target \in Partial /\ replies \in Seq(Told)
    /\ taken \in Nat /\ sent \in Nat /\ taken <= sent /\ sent <= Len(run.input)
    /\ traffic \in SniffStates
    /\ padder \in [padding : BOOLEAN, direct : BOOLEAN, fresh : BOOLEAN]
    /\ wire \in Seq(Nat) /\ closed \in BOOLEAN
    /\ largest \in Nat /\ largest <= BufSize
    /\ server \in Servers /\ reader \in Readers
    /\ answered \in Nat /\ reader.at <= answered /\ answered <= Len(run.answer)
    /\ received \in Seq(Nat) /\ ended \in BOOLEAN

Sound == run.fault \in {"none", "server"}

ConfigInv ==
    /\ cfg = (IF phase = "load" THEN {} ELSE C!LoadConfig(run.raw))
    /\ phase \notin {"load", "failed"} => cfg # {}
    /\ phase \in {"first", "relay"} \/ ~padder.fresh \/ server.auth # {} => Sound
    /\ \A a \in server.auth : a.key = run.want.key /\ a.shortId = run.want.shortId

MethodsEnd(b) == 2 + b[2]
Commanded(b, atyp) ==
    LET m == MethodsEnd(b)
    IN  /\ Greets(b) /\ OffersNone(b) /\ Len(b) >= m + 4
        /\ b[m + 1] = 5 /\ b[m + 2] = 1 /\ b[m + 4] = atyp
Address(b, kind, at, len) ==
    \/ kind = "ip4" /\ Commanded(b, 1) /\ at = MethodsEnd(b) + 4 /\ len = Ip4Len
    \/ kind = "ip6" /\ Commanded(b, 4) /\ at = MethodsEnd(b) + 4 /\ len = Ip6Len
    \/ kind = "domain" /\ Commanded(b, 3) /\ at = MethodsEnd(b) + 5 /\ Len(b) >= at /\ len = b[at]
NamesIt(b, t, at, len) ==
    /\ Address(b, t.kind, at, len) /\ Len(b) >= at + len
    /\ t.addr = SubSeq(b, at + 1, at + len)
    /\ t.kind = "domain" => \A i \in DOMAIN t.addr : t.addr[i] # 255

HandshakeInv ==
    /\ phase \in {"load", "greeting"} => taken = 0
    /\ phase = "greeting" => need = 2
    /\ phase = "methods" => /\ taken = 2 /\ need = run.input[2] /\ run.input[1] = 5
    /\ phase = "request" => /\ Greets(run.input) /\ OffersNone(run.input)
                            /\ taken = MethodsEnd(run.input) /\ need = 4
    /\ phase = "length" => /\ Commanded(run.input, 3) /\ target.kind = "domain"
                           /\ taken = MethodsEnd(run.input) + 4 /\ need = 1
    /\ phase = "address" => Address(run.input, target.kind, taken, need)
    /\ phase = "port" => /\ need = 1
                         /\ \E len \in 0..taken : NamesIt(run.input, target, taken - len, len)
    /\ phase \in {"reply", "connect", "first"} =>
          target \in Destinations /\ Asks(run.input, taken, target)

CauseInv ==
    /\ phase = "failed" => run.fault # "none"
    /\ \A i \in DOMAIN replies : replies[i] = <<5, 255>> => run.fault = "method"

Asking == RequestHeader(run.want.uuid, RequiredFlow, run.want.target)
AskedFor == [uuid |-> run.want.uuid, flow |-> RequiredFlow, target |-> run.want.target,
             size |-> Len(Asking)]

Untouched ==
    /\ padder = NewPadder /\ wire = <<>> /\ ~closed
    /\ server.req = {} /\ server.buf = <<>> /\ server.prefix = <<>>
    /\ server.unpadder = NewUnpadder /\ server.data = <<>> /\ ~server.eof

\* What the server has not made frames of yet.
Outstanding == IF server.req = {} THEN Behind(server.buf \o wire, Len(Asking)) ELSE server.buf \o wire

UplinkInv ==
    /\ phase = "relay" => ~padder.fresh
    /\ ~padder.fresh => phase \in {"relay", "failed"}
    /\ padder.fresh => Untouched
    /\ ~padder.fresh =>
          /\ run.head <= taken
          /\ IF server.req = {}
             THEN /\ DecodeRequest(server.buf) = {} /\ Extended(server.buf \o wire, Asking)
                  /\ server.unpadder = NewUnpadder /\ server.data = <<>> /\ server.prefix = <<>>
             ELSE server.req = {AskedFor}
          /\ LET rem == Unpad(server.unpadder, Outstanding)
             IN  /\ rem.buf = <<>> /\ ~rem.u.failed /\ ~rem.u.expectUuid
                 /\ rem.u.done <=> ~padder.padding
                 /\ server.data \o rem.out = SubSeq(run.input, run.head + 1, taken)
          /\ Len(server.prefix) <= UuidLen
          /\ Extended(server.prefix \o (IF server.req = {} THEN Outstanding ELSE wire), run.want.uuid)
          /\ closed => taken = Len(run.input)
          /\ server.eof => closed /\ wire = <<>>

DownlinkInv ==
    LET b == SubSeq(run.answer, 1, reader.at)
        fed == Feed(FALSE, b)
    IN  /\ ~AnswerFails(b) /\ reader.header = fed.done
        /\ IF fed.done
           THEN Unpad(NewUnpadder, fed.buf) =
                  [u |-> reader.unpadder, buf |-> reader.buf, out |-> received]
           ELSE reader.buf = b /\ reader.unpadder = NewUnpadder /\ received = <<>>
        /\ ended => reader.at = Len(run.answer)

---------------------------------------------------------------------------
(***************************************************************************)
(* The client's input, in its own terms: where the address is, and that an *)
(* input asks for one target at most.                                      *)
(***************************************************************************)
LEMMA CommandedIs ==
    ASSUME NEW b \in Seq(Nat), NEW atyp, Commanded(b, atyp)
    PROVE  /\ MethodsEnd(b) \in Nat /\ MethodsEnd(b) >= 2 /\ Len(b) \in Nat
           /\ Len(b) >= MethodsEnd(b) + 4 /\ b[MethodsEnd(b) + 4] = atyp
  <1>1. Len(b) >= 2 /\ Len(b) \in Nat
    BY DEF Commanded, Greets
  <1>2. b[2] \in Nat
    BY <1>1
  <1>3. MethodsEnd(b) \in Nat /\ MethodsEnd(b) >= 2
    BY <1>2 DEF MethodsEnd
  <1>4. Len(b) >= MethodsEnd(b) + 4 /\ b[MethodsEnd(b) + 4] = atyp
    BY DEF Commanded
  <1> QED BY <1>1, <1>3, <1>4

Located(b, kind, at, len) ==
    /\ MethodsEnd(b) \in Nat /\ MethodsEnd(b) >= 2 /\ Len(b) \in Nat
    /\ kind \in {"ip4", "ip6", "domain"} /\ at \in Nat /\ len \in Nat /\ at <= Len(b)
    /\ at = MethodsEnd(b) + (IF kind = "domain" THEN 5 ELSE 4)
    /\ Commanded(b, b[MethodsEnd(b) + 4])
    /\ b[MethodsEnd(b) + 4] = (CASE kind = "ip4" -> 1 [] kind = "ip6" -> 4 [] kind = "domain" -> 3)

LEMMA AddressIs ==
    ASSUME NEW b \in Seq(Nat), NEW kind, NEW at, NEW len, Address(b, kind, at, len)
    PROVE  Located(b, kind, at, len)
  <1>1. CASE kind = "ip4"
    <2>1. Commanded(b, 1) /\ at = MethodsEnd(b) + 4 /\ len = Ip4Len
      BY <1>1 DEF Address
    <2> QED BY <1>1, <2>1, CommandedIs, WidthsAssumption, SMTT(30) DEF Located
  <1>2. CASE kind = "ip6"
    <2>1. Commanded(b, 4) /\ at = MethodsEnd(b) + 4 /\ len = Ip6Len
      BY <1>2 DEF Address
    <2> QED BY <1>2, <2>1, CommandedIs, WidthsAssumption DEF Located
  <1>3. CASE kind = "domain"
    <2>1. Commanded(b, 3) /\ at = MethodsEnd(b) + 5 /\ Len(b) >= at /\ len = b[at]
      BY <1>3 DEF Address
    <2>2. /\ MethodsEnd(b) \in Nat /\ MethodsEnd(b) >= 2 /\ Len(b) \in Nat /\ b[MethodsEnd(b) + 4] = 3
      BY <2>1, CommandedIs
    <2>3. len \in Nat
      BY <2>1, <2>2, SMTT(30)
    <2> QED BY <1>3, <2>1, <2>2, <2>3, SMTT(30) DEF Located
  <1> QED BY <1>1, <1>2, <1>3 DEF Address

LEMMA AddressUnique ==
    ASSUME NEW b \in Seq(Nat), NEW kind, NEW at, NEW len, Address(b, kind, at, len),
           NEW other, NEW from, NEW size, Address(b, other, from, size)
    PROVE  other = kind /\ from = at /\ size = len
  <1>1. /\ kind \in {"ip4", "ip6", "domain"} /\ at = MethodsEnd(b) + (IF kind = "domain" THEN 5 ELSE 4)
        /\ b[MethodsEnd(b) + 4] = (CASE kind = "ip4" -> 1 [] kind = "ip6" -> 4 [] kind = "domain" -> 3)
    BY AddressIs DEF Located
  <1>2. /\ other \in {"ip4", "ip6", "domain"} /\ from = MethodsEnd(b) + (IF other = "domain" THEN 5 ELSE 4)
        /\ b[MethodsEnd(b) + 4] = (CASE other = "ip4" -> 1 [] other = "ip6" -> 4 [] other = "domain" -> 3)
    BY AddressIs DEF Located
  <1>3. kind = other
    BY <1>1, <1>2
  <1>4. from = at
    BY <1>1, <1>2, <1>3
  <1> QED BY <1>1, <1>3, <1>4 DEF Address

\* What Asks says, by the place of the address.
AsksAt(b, head, t, at, len) ==
    /\ NamesIt(b, t, at, len) /\ head = at + len + 1 /\ Len(b) >= head /\ t.port = b[head]

LEMMA AsksIs ==
    ASSUME NEW b \in Seq(Nat), NEW head, NEW t \in Destinations, Asks(b, head, t)
    PROVE  \E at, len \in Nat : AsksAt(b, head, t, at, len)
  <1> DEFINE m == 2 + b[2]
  <1>0. Len(b) >= 2 /\ Len(b) \in Nat /\ b[2] \in Nat /\ m \in Nat /\ m = MethodsEnd(b)
    <2>1. Len(b) >= 2 /\ Len(b) \in Nat
      BY DEF Asks, Greets
    <2>2. b[2] \in Nat
      BY <2>1
    <2>3. m = MethodsEnd(b)
      BY DEF MethodsEnd
    <2> QED BY <2>1, <2>2, <2>3
  <1>1. /\ Greets(b) /\ OffersNone(b) /\ Len(b) > m + 4 /\ b[m + 1] = 5 /\ b[m + 2] = 1
        /\ t.port = b[head]
    BY DEF Asks
  <1>2. Len(b) >= m + 4
    BY <1>0, <1>1, SMTT(30)
  <1>3. t.kind \in {"ip4", "ip6", "domain"}
    BY DEF Destinations
  <1>4. CASE t.kind = "ip4"
    <2>1. /\ b[m + 4] = 1 /\ head = (m + 4) + Ip4Len + 1 /\ Len(b) >= head
          /\ t.addr = SubSeq(b, (m + 4) + 1, (m + 4) + Ip4Len)
      BY <1>4 DEF Asks
    <2> DEFINE at == m + 4
               len == Ip4Len
    <2>2. at \in Nat /\ len \in Nat /\ head = at + len + 1 /\ Len(b) >= at + len
      <3>1. at \in Nat /\ len \in Nat
        BY <1>0, WidthsAssumption
      <3>2. head = at + len + 1 /\ Len(b) >= head
        BY <2>1
      <3> HIDE DEF at, len
      <3> QED BY <1>0, <3>1, <3>2
    <2>3. Address(b, t.kind, at, len)
      BY <1>0, <1>1, <1>2, <1>4, <2>1 DEF Address, Commanded, MethodsEnd
    <2>4. NamesIt(b, t, at, len)
      BY <1>4, <2>1, <2>2, <2>3 DEF NamesIt
    <2> HIDE DEF at, len, m
    <2>5. AsksAt(b, head, t, at, len)
      BY <1>1, <2>1, <2>2, <2>4 DEF AsksAt
    <2> QED BY <2>2, <2>5
  <1>5. CASE t.kind = "ip6"
    <2>1. /\ b[m + 4] = 4 /\ head = (m + 4) + Ip6Len + 1 /\ Len(b) >= head
          /\ t.addr = SubSeq(b, (m + 4) + 1, (m + 4) + Ip6Len)
      BY <1>5 DEF Asks
    <2> DEFINE at == m + 4
               len == Ip6Len
    <2>2. at \in Nat /\ len \in Nat /\ head = at + len + 1 /\ Len(b) >= at + len
      <3>1. at \in Nat /\ len \in Nat
        BY <1>0, WidthsAssumption
      <3>2. head = at + len + 1 /\ Len(b) >= head
        BY <2>1
      <3> HIDE DEF at, len
      <3> QED BY <1>0, <3>1, <3>2
    <2>3. Address(b, t.kind, at, len)
      BY <1>0, <1>1, <1>2, <1>5, <2>1 DEF Address, Commanded, MethodsEnd
    <2>4. NamesIt(b, t, at, len)
      BY <1>5, <2>1, <2>2, <2>3 DEF NamesIt
    <2> HIDE DEF at, len, m
    <2>5. AsksAt(b, head, t, at, len)
      BY <1>1, <2>1, <2>2, <2>4 DEF AsksAt
    <2> QED BY <2>2, <2>5
  <1>6. CASE t.kind = "domain"
    <2> DEFINE at == m + 5
               len == b[at]
    <2>1. /\ b[m + 4] = 3 /\ head = at + len + 1 /\ Len(b) >= head
          /\ t.addr = SubSeq(b, at + 1, at + len)
          /\ \A i \in DOMAIN t.addr : t.addr[i] # 255
      BY <1>6 DEF Asks
    <2>2. at \in Nat /\ Len(b) >= at /\ len \in Nat
      <3>0. m \in Nat /\ Len(b) \in Nat /\ Len(b) > m + 4
        BY <1>0, <1>1
      <3>1. Len(b) >= m + 5 /\ m + 5 \in 1..Len(b)
        <4> HIDE DEF m
        <4> QED BY <3>0
      <3> QED BY <1>0, <3>1, SMTT(30)
    <2>3. Len(b) >= at + len
      <3> HIDE DEF at, len
      <3> QED BY <1>0, <2>1, <2>2
    <2>4. Address(b, t.kind, at, len)
      BY <1>0, <1>1, <1>2, <1>6, <2>1, <2>2 DEF Address, Commanded, MethodsEnd
    <2> HIDE DEF at, len, m
    <2>5. NamesIt(b, t, at, len)
      BY <2>1, <2>3, <2>4 DEF NamesIt
    <2>6. AsksAt(b, head, t, at, len)
      BY <1>1, <2>1, <2>5 DEF AsksAt
    <2> QED BY <2>2, <2>6
  <1> QED BY <1>3, <1>4, <1>5, <1>6

LEMMA AsksWhen ==
    ASSUME NEW b \in Seq(Nat), NEW head, NEW t \in Destinations, NEW at \in Nat, NEW len \in Nat,
           AsksAt(b, head, t, at, len)
    PROVE  Asks(b, head, t)
  <1> DEFINE m == 2 + b[2]
  <1>1. /\ Address(b, t.kind, at, len) /\ t.addr = SubSeq(b, at + 1, at + len)
        /\ head = at + len + 1 /\ Len(b) >= head /\ t.port = b[head]
        /\ t.kind = "domain" => \A i \in DOMAIN t.addr : t.addr[i] # 255
    BY DEF AsksAt, NamesIt
  <1>2. /\ m = MethodsEnd(b) /\ m \in Nat /\ Len(b) \in Nat
        /\ at = m + (IF t.kind = "domain" THEN 5 ELSE 4)
    <2>1. /\ MethodsEnd(b) \in Nat /\ Len(b) \in Nat
          /\ at = MethodsEnd(b) + (IF t.kind = "domain" THEN 5 ELSE 4)
      <3>1. Located(b, t.kind, at, len)
        BY <1>1, AddressIs
      <3> QED BY <3>1 DEF Located
    <2> QED BY <2>1 DEF MethodsEnd
  <1>3. Len(b) > m + 4
    <2>1. at >= m + 4
      <3> HIDE DEF m
      <3> QED BY <1>2
    <2>2. head = at + len + 1 /\ Len(b) >= head
      BY <1>1
    <2> HIDE DEF m
    <2> QED BY <1>2, <2>1, <2>2
  <1>4. Commanded(b, b[m + 4])
    <2>1. Located(b, t.kind, at, len)
      BY <1>1, AddressIs
    <2> QED BY <1>2, <2>1 DEF Located
  <1>5. Greets(b) /\ OffersNone(b) /\ b[m + 1] = 5 /\ b[m + 2] = 1
    BY <1>4 DEF Commanded, MethodsEnd
  <1>6. CASE t.kind = "ip4"
    <2>1. Commanded(b, 1) /\ at = m + 4 /\ len = Ip4Len
      BY <1>1, <1>6 DEF Address, MethodsEnd
    <2>2. b[m + 4] = 1
      BY <2>1 DEF Commanded, MethodsEnd
    <2> QED BY <1>1, <1>3, <1>5, <1>6, <2>1, <2>2 DEF Asks
  <1>7. CASE t.kind = "ip6"
    <2>1. Commanded(b, 4) /\ at = m + 4 /\ len = Ip6Len
      BY <1>1, <1>7 DEF Address, MethodsEnd
    <2>2. b[m + 4] = 4
      BY <2>1 DEF Commanded, MethodsEnd
    <2> QED BY <1>1, <1>3, <1>5, <1>7, <2>1, <2>2 DEF Asks
  <1>8. CASE t.kind = "domain"
    <2>1. Commanded(b, 3) /\ at = m + 5 /\ len = b[m + 5]
      BY <1>1, <1>8 DEF Address, MethodsEnd
    <2>2. b[m + 4] = 3
      BY <2>1 DEF Commanded, MethodsEnd
    <2>3. head = (m + 5) + b[m + 5] + 1 /\ t.addr = SubSeq(b, (m + 5) + 1, (m + 5) + b[m + 5])
      BY <1>1, <2>1
    <2> QED BY <1>1, <1>3, <1>5, <1>8, <2>2, <2>3 DEF Asks
  <1> QED BY <1>6, <1>7, <1>8 DEF Destinations

\* A handshake asks for one target.
LEMMA AsksUnique ==
    ASSUME NEW b \in Seq(Nat), NEW head, NEW t \in Destinations, Asks(b, head, t),
           NEW end, NEW d \in Destinations, Asks(b, end, d)
    PROVE  end = head /\ d = t
  <1>1. PICK at \in Nat, len \in Nat : AsksAt(b, head, t, at, len)
    BY AsksIs
  <1>2. PICK from \in Nat, size \in Nat : AsksAt(b, end, d, from, size)
    BY AsksIs
  <1>3. Address(b, t.kind, at, len) /\ Address(b, d.kind, from, size)
    BY <1>1, <1>2 DEF AsksAt, NamesIt
  <1>4. d.kind = t.kind /\ from = at /\ size = len
    BY <1>3, AddressUnique
  <1>5. end = head
    BY <1>1, <1>2, <1>4 DEF AsksAt
  <1>6. d.addr = t.addr /\ d.port = t.port
    BY <1>1, <1>2, <1>4, <1>5 DEF AsksAt, NamesIt
  <1> QED BY <1>4, <1>5, <1>6 DEF Destinations

---------------------------------------------------------------------------
(***************************************************************************)
(* What the assumptions on Runs say about the run of this connection.      *)
(***************************************************************************)
\* What RunOK says of every run.
RunTyped(r) ==
    /\ r.raw \in C!RawCredentials /\ r.head \in Nat
    /\ r.fault \in {"none", "server", "config", "client", "method"}
    /\ r.input \in Seq(Nat) /\ r.answer \in Seq(Nat) /\ r.data \in Seq(Nat)
    /\ {r.want.uuid, r.want.key, r.want.shortId} \subseteq Seq(0..255)
    /\ r.cuts \subseteq 0..Len(r.input) /\ r.answerCuts \subseteq 0..Len(r.answer)

\* And of one neither the configuration nor the client spoils.
RunSound(r) ==
    /\ Usable(r.raw) /\ Names(r.raw, r.want)
    /\ Asks(r.input, r.head, r.want.target) /\ r.head <= Len(r.input)
    /\ r.want.target \in Destinations /\ Sized(r.want.target)
    /\ r.want.uuid \in Seq(Nat) /\ Len(r.want.uuid) = UuidLen

LEMMA RunIs ==
    ASSUME NEW r \in Runs
    PROVE  RunOK(r) /\ RunTyped(r)
  <1>1. RunOK(r)
    BY RunsAssumption
  <1> QED BY <1>1 DEF RunOK, RunTyped

LEMMA BytesAreNat == \A s \in Seq(0..255) : s \in Seq(Nat)
  <1> DEFINE X == 0..255
  <1>1. \A x \in X : x \in Nat
    OBVIOUS
  <1> HIDE DEF X
  <1>2. ASSUME NEW s \in Seq(X) PROVE s \in Seq(Nat)
    <2>1. Len(s) \in Nat /\ DOMAIN s = 1..Len(s) /\ \A i \in 1..Len(s) : s[i] \in X
      OBVIOUS
    <2>2. s = [i \in 1..Len(s) |-> s[i]]
      BY <2>1
    <2> QED BY <1>1, <2>1, <2>2
  <1> QED BY <1>2 DEF X

LEMMA RunIsSound ==
    ASSUME NEW r \in Runs, r.fault \in {"none", "server"}
    PROVE  RunSound(r)
  <1>1. RunOK(r) /\ RunTyped(r)
    BY RunIs
  <1> DEFINE t == r.want.target
             b == r.input
             u == r.want.uuid
  <1>2. /\ Usable(r.raw) /\ Names(r.raw, r.want) /\ Asks(b, r.head, t)
        /\ t \in [kind : {"ip4", "ip6", "domain"}, addr : Seq(Nat), port : Nat]
        /\ t.kind = "domain" => Len(t.addr) < 256
    BY <1>1 DEF RunOK
  <1>3. t \in Destinations
    BY <1>2 DEF Destinations
  <1>4. b \in Seq(Nat)
    BY <1>1 DEF RunTyped
  <1>5. u \in Seq(0..255)
    BY <1>1 DEF RunTyped
  <1> HIDE DEF t, b, u
  <1>6. PICK at \in Nat, len \in Nat : AsksAt(b, r.head, t, at, len)
    BY <1>2, <1>3, <1>4, AsksIs
  <1>7. /\ Address(b, t.kind, at, len) /\ t.addr = SubSeq(b, at + 1, at + len)
        /\ r.head = at + len + 1 /\ Len(b) >= r.head
    BY <1>6 DEF AsksAt, NamesIt
  <1>8. Len(t.addr) = len
    <2>1. Len(b) \in Nat /\ at + len <= Len(b)
      BY <1>4, <1>7
    <2>2. Len(SubSeq(b, at + 1, at + len)) = len
      BY <1>4, <2>1
    <2> QED BY <1>7, <2>2
  <1>9. Sized(t)
    BY <1>2, <1>3, <1>7, <1>8 DEF Sized, Address
  <1>10. u \in Seq(Nat)
    BY <1>5, BytesAreNat
  <1>11. Len(u) = UuidLen
    <2>1. IsHex(C!NoHyphens(r.raw.uuid), UuidLen)
      BY <1>2 DEF Usable
    <2>2. IsHex(C!NoHyphens(r.raw.uuid), Len(u))
      BY <1>2 DEF Names, WritesHex, u
    <2>3. Len(u) \in Nat /\ UuidLen \in Nat
      BY <1>10, SizesAssumption
    <2>4. Len(C!NoHyphens(r.raw.uuid)) = 2 * UuidLen /\ Len(C!NoHyphens(r.raw.uuid)) = 2 * Len(u)
      BY <2>1, <2>2 DEF IsHex
    <2> QED BY <2>3, <2>4
  <1>12. r.head <= Len(b)
    <2>1. Len(b) \in Nat /\ r.head \in Nat
      BY <1>1, <1>4 DEF RunTyped
    <2> QED BY <1>7, <2>1
  <1> QED BY <1>2, <1>3, <1>9, <1>10, <1>11, <1>12 DEF RunSound, t, b, u

\* A client at fault asks for nothing.
LEMMA ClientAtFault ==
    ASSUME NEW r \in Runs, r.fault \in {"client", "method"}, NEW head, NEW t \in Destinations
    PROVE  ~Asks(r.input, head, t)
  <1> SUFFICES ASSUME Asks(r.input, head, t) PROVE FALSE
    OBVIOUS
  <1>1. RunOK(r) /\ RunTyped(r)
    BY RunIs
  <1> DEFINE b == r.input
  <1>2. \A kind \in {"ip4", "ip6", "domain"}, i \in 1..Len(b), j \in 1..Len(b) :
           ~Asks(b, i, [kind |-> kind, addr |-> SubSeq(b, j, i - 1), port |-> b[i]])
    BY <1>1 DEF RunOK
  <1>3. b \in Seq(Nat) /\ Asks(b, head, t)
    BY <1>1 DEF RunTyped
  <1> HIDE DEF b
  <1>4. PICK at \in Nat, len \in Nat : AsksAt(b, head, t, at, len)
    BY <1>3, AsksIs
  <1>5. /\ t.addr = SubSeq(b, at + 1, at + len) /\ head = at + len + 1 /\ Len(b) >= head
        /\ t.port = b[head]
    BY <1>4 DEF AsksAt, NamesIt
  <1>6. head \in 1..Len(b) /\ at + 1 \in 1..Len(b) /\ head - 1 = at + len
    BY <1>3, <1>5
  <1>7. t = [kind |-> t.kind, addr |-> SubSeq(b, at + 1, head - 1), port |-> b[head]]
        /\ t.kind \in {"ip4", "ip6", "domain"}
    BY <1>5, <1>6 DEF Destinations
  <1> QED BY <1>2, <1>3, <1>6, <1>7

---------------------------------------------------------------------------
(***************************************************************************)
(* The handshake keeps HandshakeInv and CauseInv: greeting and methods.    *)
(***************************************************************************)
LEMMA RunFacts ==
    ASSUME TypeInv
    PROVE  /\ run \in Runs /\ RunOK(run) /\ RunTyped(run)
           /\ run.input \in Seq(Nat) /\ Len(run.input) \in Nat
           /\ run.answer \in Seq(Nat) /\ Len(run.answer) \in Nat /\ run.data \in Seq(Nat)
           /\ run.raw \in C!RawCredentials /\ run.head \in Nat
  <1>1. run \in Runs
    BY DEF TypeInv
  <1>2. RunOK(run) /\ RunTyped(run)
    BY <1>1, RunIs
  <1> QED BY <1>1, <1>2 DEF RunTyped

\* What read_exact returns.
LEMMA BytesRead ==
    ASSUME TypeInv, NEW p, ReadExact(p)
    PROVE  /\ phase = p /\ taken' = taken + need /\ taken' \in Nat /\ taken' <= sent
           /\ Len(run.input) \in Nat /\ taken + need <= Len(run.input) /\ taken \in Nat /\ need \in Nat
           /\ Bytes \in Seq(Nat) /\ Len(Bytes) = need /\ DOMAIN Bytes = 1..need
           /\ \A i \in 1..need : Bytes[i] = run.input[taken + i] /\ Bytes[i] \in Nat
  <1>1. /\ phase = p /\ taken' = taken + need /\ sent - taken >= need
    BY DEF ReadExact
  <1>2. taken \in Nat /\ sent \in Nat /\ need \in Nat /\ sent <= Len(run.input)
    BY DEF TypeInv
  <1>3. run.input \in Seq(Nat) /\ Len(run.input) \in Nat
    BY RunFacts
  <1>4. taken + need <= sent /\ taken + need <= Len(run.input) /\ taken + need \in Nat
    BY <1>1, <1>2, <1>3
  <1>5. /\ SubSeq(run.input, taken + 1, taken + need) \in Seq(Nat)
        /\ Len(SubSeq(run.input, taken + 1, taken + need)) = need
        /\ \A i \in 1..need : SubSeq(run.input, taken + 1, taken + need)[i] = run.input[taken + i]
    <2> DEFINE n == taken + need
    <2>1. n \in Nat /\ taken <= n /\ n <= Len(run.input) /\ n - taken = need
      BY <1>2, <1>4
    <2> HIDE DEF n
    <2>2. /\ SubSeq(run.input, taken + 1, n) \in Seq(Nat) /\ Len(SubSeq(run.input, taken + 1, n)) = n - taken
          /\ \A i \in 1..(n - taken) : SubSeq(run.input, taken + 1, n)[i] = run.input[taken + i]
      BY <1>2, <1>3, <2>1, ThreeParts
    <2> QED BY <2>1, <2>2 DEF n
  <1>6. \A i \in 1..need : run.input[taken + i] \in Nat
    BY <1>2, <1>3, <1>4, SMTT(30)
  <1>7. Bytes \in Seq(Nat) /\ Len(Bytes) = need /\ \A i \in 1..need : Bytes[i] = run.input[taken + i]
    BY <1>5 DEF Bytes
  <1>8. DOMAIN Bytes = 1..need
    BY <1>7
  <1> QED BY <1>1, <1>2, <1>3, <1>4, <1>6, <1>7, <1>8

\* What no action of the handshake changes.
HandshakeKeeps ==
    /\ UNCHANGED <<run, sent, traffic, uplinkVars, downlinkVars>>
    /\ server' = server

LEMMA HandshakeTyped ==
    ASSUME TypeInv, HandshakeKeeps,
           phase' \in HandshakePhases \cup {"load", "reply", "connect", "first", "relay", "failed", "lost"},
           need' \in Nat, target' \in Partial, replies' \in Seq(Told), taken' \in Nat, taken' <= sent
    PROVE  TypeInv'
  BY DEF TypeInv, HandshakeKeeps, uplinkVars, downlinkVars

LEMMA GreetingStep ==
    ASSUME TypeInv, HandshakeInv, CauseInv, Greeting
    PROVE  TypeInv' /\ HandshakeInv' /\ CauseInv'
  <1>1. ReadExact("greeting")
    BY DEF Greeting
  <1>2. /\ phase = "greeting" /\ taken' = taken + need /\ taken' \in Nat /\ taken' <= sent
        /\ Len(run.input) \in Nat /\ taken + need <= Len(run.input)
        /\ \A i \in 1..need : Bytes[i] = run.input[taken + i] /\ Bytes[i] \in Nat
    BY <1>1, BytesRead
  <1>3. taken = 0 /\ need = 2
    BY <1>2 DEF HandshakeInv
  <1>4. Bytes[1] = run.input[1] /\ Bytes[2] = run.input[2] /\ Bytes[2] \in Nat /\ taken' = 2
        /\ Len(run.input) >= 2
    BY <1>2, <1>3
  <1>5. /\ phase' = IF Bytes[1] = 5 THEN "methods" ELSE "failed"
        /\ need' = Bytes[2] /\ target' = target /\ replies' = replies
        /\ HandshakeKeeps /\ cfg' = cfg
    BY DEF Greeting, HandshakeKeeps
  <1>6. TypeInv'
    <2>1. target \in Partial /\ replies \in Seq(Told)
      BY DEF TypeInv
    <2>2. phase' \in {"methods", "failed"}
      BY <1>5
    <2>3. phase' \in HandshakePhases \cup {"load", "reply", "connect", "first", "relay", "failed", "lost"}
      BY <2>2 DEF HandshakePhases
    <2> QED BY <1>2, <1>4, <1>5, <2>1, <2>3, HandshakeTyped
  <1>7. run' = run
    BY <1>5 DEF HandshakeKeeps
  <1>8. HandshakeInv'
    <2>1. CASE Bytes[1] = 5
      <3>1. phase' = "methods" /\ taken' = 2 /\ need' = run.input[2] /\ run.input[1] = 5
        BY <1>4, <1>5, <2>1
      <3> QED BY <1>7, <3>1 DEF HandshakeInv
    <2>2. CASE Bytes[1] # 5
      <3>1. phase' = "failed"
        BY <1>5, <2>2
      <3> QED BY <3>1 DEF HandshakeInv
    <2> QED BY <2>1, <2>2
  <1>9. CauseInv'
    <2>1. \A i \in DOMAIN replies' : replies'[i] = <<5, 255>> => run'.fault = "method"
      BY <1>5, <1>7 DEF CauseInv
    <2>2. phase' = "failed" => run'.fault # "none"
      <3> SUFFICES ASSUME phase' = "failed", run'.fault = "none" PROVE FALSE
        OBVIOUS
      <3>1. run.input[1] # 5
        BY <1>4, <1>5
      <3>2. run \in Runs /\ run.fault \in {"none", "server"}
        BY <1>7, RunFacts
      <3>3. Asks(run.input, run.head, run.want.target)
        BY <3>2, RunIsSound DEF RunSound
      <3> QED BY <3>1, <3>3 DEF Asks, Greets
    <2> QED BY <2>1, <2>2 DEF CauseInv
  <1> QED BY <1>6, <1>8, <1>9

LEMMA ToldMore ==
    ASSUME NEW s \in Seq(Told), NEW t \in Told
    PROVE  Append(s, t) \in Seq(Told)
  OBVIOUS

LEMMA MethodsStep ==
    ASSUME TypeInv, HandshakeInv, CauseInv, Methods
    PROVE  TypeInv' /\ HandshakeInv' /\ CauseInv'
  <1> DEFINE b == run.input
             accepted == \E i \in DOMAIN Bytes : Bytes[i] = 0
             told == IF accepted THEN <<5, 0>> ELSE <<5, 255>>
  <1>1. ReadExact("methods")
    BY DEF Methods
  <1>2. /\ phase = "methods" /\ taken' = taken + need /\ taken' \in Nat /\ taken' <= sent
        /\ Len(b) \in Nat /\ taken + need <= Len(b) /\ need \in Nat /\ DOMAIN Bytes = 1..need
        /\ \A i \in 1..need : Bytes[i] = b[taken + i] /\ Bytes[i] \in Nat
    BY <1>1, BytesRead
  <1>3. taken = 2 /\ need = b[2] /\ b[1] = 5
    BY <1>2 DEF HandshakeInv
  <1>4. Greets(b) /\ taken' = MethodsEnd(b)
    BY <1>2, <1>3 DEF Greets, MethodsEnd
  <1>5. /\ replies' = Append(replies, told)
        /\ phase' = IF accepted THEN "request" ELSE "failed"
        /\ need' = 4 /\ target' = target /\ HandshakeKeeps /\ cfg' = cfg
    BY DEF Methods, HandshakeKeeps
  <1>6. accepted <=> OffersNone(b)
    <2>1. ASSUME accepted PROVE OffersNone(b)
      <3>1. PICK i \in 1..need : Bytes[i] = 0
        BY <1>2, <2>1
      <3>2. 2 + i \in 3..(2 + b[2]) /\ b[2 + i] = 0
        BY <1>2, <1>3, <3>1
      <3> QED BY <3>2 DEF OffersNone
    <2>2. ASSUME OffersNone(b) PROVE accepted
      <3>1. PICK j \in 3..(2 + b[2]) : b[j] = 0
        BY <2>2 DEF OffersNone
      <3>2. j - 2 \in 1..need /\ 2 + (j - 2) = j
        BY <1>2, <1>3, <3>1
      <3>3. Bytes[j - 2] = 0
        BY <1>2, <1>3, <3>1, <3>2
      <3> QED BY <1>2, <3>2, <3>3
    <2> QED BY <2>1, <2>2
  <1> HIDE DEF accepted
  <1>7. run' = run
    BY <1>5 DEF HandshakeKeeps
  <1>8. TypeInv'
    <2>1. target \in Partial /\ replies \in Seq(Told)
      BY DEF TypeInv
    <2>2. phase' \in {"request", "failed"}
      BY <1>5
    <2>3. phase' \in HandshakePhases \cup {"load", "reply", "connect", "first", "relay", "failed", "lost"}
      BY <2>2 DEF HandshakePhases
    <2>4. told \in Told
      BY DEF Told
    <2>5. replies' \in Seq(Told)
      BY <1>5, <2>1, <2>4, ToldMore
    <2>6. need' \in Nat /\ target' \in Partial
      BY <1>5, <2>1
    <2> QED BY <1>2, <1>5, <2>3, <2>5, <2>6, HandshakeTyped
  <1>9. HandshakeInv'
    <2>1. CASE accepted
      <3>1. phase' = "request" /\ Greets(b) /\ OffersNone(b) /\ taken' = MethodsEnd(b) /\ need' = 4
        BY <1>4, <1>5, <1>6, <2>1
      <3> QED BY <1>7, <3>1 DEF HandshakeInv
    <2>2. CASE ~accepted
      <3>1. phase' = "failed"
        BY <1>5, <2>2
      <3> QED BY <3>1 DEF HandshakeInv
    <2> QED BY <2>1, <2>2
  <1>10. ~accepted => run.fault = "method"
    <2>1. run.fault # "method" /\ Greets(b) => OffersNone(b)
      BY RunFacts DEF RunOK
    <2> QED BY <1>4, <1>6, <2>1
  <1>11. CauseInv'
    <2>1. phase' = "failed" => run'.fault # "none"
      BY <1>5, <1>7, <1>10
    <2>2. ASSUME NEW i \in DOMAIN replies', replies'[i] = <<5, 255>>
          PROVE  run'.fault = "method"
      <3>1. replies \in Seq(Told)
        BY DEF TypeInv
      <3>2. CASE i \in DOMAIN replies
        <4>1. replies'[i] = replies[i]
          BY <1>5, <3>1, <3>2
        <4> QED BY <1>7, <2>2, <3>2, <4>1 DEF CauseInv
      <3>3. CASE i \notin DOMAIN replies
        <4>1. replies'[i] = told
          BY <1>5, <3>1, <3>3
        <4>2. ~accepted
          BY <2>2, <4>1
        <4> QED BY <1>7, <1>10, <4>2
      <3> QED BY <3>2, <3>3
    <2> QED BY <2>1, <2>2 DEF CauseInv
  <1> QED BY <1>8, <1>9, <1>11

---------------------------------------------------------------------------
(***************************************************************************)
(* The handshake: request, address and port.                               *)
(***************************************************************************)
LEMMA SocksTypes ==
    /\ DOMAIN Socks5Atyp = {1, 3, 4}
    /\ Socks5Atyp[1] = "ip4" /\ Socks5Atyp[3] = "domain" /\ Socks5Atyp[4] = "ip6"
  BY DEF Socks5Atyp

LEMMA CauseKeeps ==
    ASSUME CauseInv, run' = run, replies' = replies, phase' # "failed" \/ run.fault # "none"
    PROVE  CauseInv'
  BY DEF CauseInv

\* Where a client that is not at fault names its target.
AskedAt(r, at, len) == /\ r.want.target \in Destinations
                       /\ AsksAt(r.input, r.head, r.want.target, at, len)
                       /\ Address(r.input, r.want.target.kind, at, len)
                       /\ Located(r.input, r.want.target.kind, at, len)

LEMMA SoundAsks ==
    ASSUME NEW r \in Runs, r.fault \in {"none", "server"}
    PROVE  \E at, len \in Nat : AskedAt(r, at, len)
  <1>1. Asks(r.input, r.head, r.want.target) /\ r.want.target \in Destinations
    BY RunIsSound DEF RunSound
  <1>2. r.input \in Seq(Nat)
    BY RunIs DEF RunTyped
  <1>3. PICK at \in Nat, len \in Nat : AsksAt(r.input, r.head, r.want.target, at, len)
    BY <1>1, <1>2, AsksIs
  <1>4. Address(r.input, r.want.target.kind, at, len)
    BY <1>3 DEF AsksAt, NamesIt
  <1>5. Located(r.input, r.want.target.kind, at, len)
    BY <1>2, <1>4, AddressIs
  <1>6. AskedAt(r, at, len)
    BY <1>1, <1>3, <1>4, <1>5 DEF AskedAt
  <1> QED BY <1>6

LEMMA PhaseTyped ==
    \A p \in {"load", "greeting", "methods", "request", "length", "address", "port", "reply",
              "connect", "first", "relay", "failed", "lost"} :
       p \in HandshakePhases \cup {"load", "reply", "connect", "first", "relay", "failed", "lost"}
  BY DEF HandshakePhases

LEMMA HandshakeFailed ==
    ASSUME run' = run, phase' = "failed" \/ phase' = "lost"
    PROVE  HandshakeInv'
  BY DEF HandshakeInv

LEMMA RequestStep ==
    ASSUME TypeInv, HandshakeInv, CauseInv, Request
    PROVE  TypeInv' /\ HandshakeInv' /\ CauseInv'
  <1> DEFINE b == run.input
             m == MethodsEnd(b)
             good == Bytes[1] = 5 /\ Bytes[2] = 1 /\ Bytes[4] \in DOMAIN Socks5Atyp
             kind == Socks5Atyp[Bytes[4]]
  <1>1. ReadExact("request")
    BY DEF Request
  <1>2. /\ phase = "request" /\ taken' = taken + need /\ taken' \in Nat /\ taken' <= sent
        /\ Len(b) \in Nat /\ taken + need <= Len(b) /\ taken \in Nat
        /\ \A i \in 1..need : Bytes[i] = b[taken + i] /\ Bytes[i] \in Nat
    BY <1>1, BytesRead
  <1>3. Greets(b) /\ OffersNone(b) /\ taken = m /\ need = 4
    BY <1>2 DEF HandshakeInv
  <1>4. Bytes[1] = b[m + 1] /\ Bytes[2] = b[m + 2] /\ Bytes[4] = b[m + 4] /\ Len(b) >= m + 4
        /\ m \in Nat /\ taken' = m + 4
    BY <1>2, <1>3
  <1>5. HandshakeKeeps /\ run' = run /\ replies' = replies
    BY DEF Request, HandshakeKeeps
  <1>6. target \in Partial /\ replies \in Seq(Told) /\ need \in Nat
    BY DEF TypeInv
  <1>7. CASE good
    <2>1. /\ target' = [target EXCEPT !.kind = kind]
          /\ phase' = IF kind = "domain" THEN "length" ELSE "address"
          /\ need' = CASE kind = "ip4" -> Ip4Len [] kind = "ip6" -> Ip6Len
                       [] kind = "domain" -> 1
      BY <1>7 DEF Request
    <2>2. \/ kind = "ip4" /\ b[m + 4] = 1
          \/ kind = "domain" /\ b[m + 4] = 3
          \/ kind = "ip6" /\ b[m + 4] = 4
      BY <1>4, <1>7, SocksTypes
    <2>3. b[m + 1] = 5 /\ b[m + 2] = 1
      BY <1>4, <1>7
    <2>4. Commanded(b, b[m + 4])
      BY <1>3, <1>4, <2>3 DEF Commanded
    <2> HIDE DEF kind, good
    <2>5. target' \in Partial /\ target'.kind = kind
      BY <1>6, <2>1, <2>2 DEF Partial
    <2>6. need' \in Nat
      BY <2>1, <2>2, WidthsAssumption
    <2>7. TypeInv'
      <3>1. phase' \in {"length", "address"}
        BY <2>1
      <3>2. phase' \in HandshakePhases \cup {"load", "reply", "connect", "first", "relay", "failed", "lost"}
        BY <3>1, PhaseTyped
      <3>3. replies' \in Seq(Told)
        BY <1>5, <1>6
      <3> QED BY <1>2, <1>5, <2>5, <2>6, <3>2, <3>3, HandshakeTyped
    <2>8. HandshakeInv'
      <3>1. CASE kind = "domain"
        <4>1. phase' = "length" /\ need' = 1 /\ Commanded(b, 3) /\ target'.kind = "domain" /\ taken' = m + 4
          BY <1>4, <2>1, <2>2, <2>4, <2>5, <3>1
        <4> QED BY <1>5, <4>1 DEF HandshakeInv
      <3>2. CASE kind = "ip4"
        <4>1. phase' = "address" /\ need' = Ip4Len /\ Commanded(b, 1) /\ target'.kind = "ip4" /\ taken' = m + 4
          BY <1>4, <2>1, <2>2, <2>4, <2>5, <3>2
        <4>2. Address(b, target'.kind, taken', need')
          BY <4>1 DEF Address
        <4> QED BY <1>5, <4>1, <4>2 DEF HandshakeInv
      <3>3. CASE kind = "ip6"
        <4>1. phase' = "address" /\ need' = Ip6Len /\ Commanded(b, 4) /\ target'.kind = "ip6" /\ taken' = m + 4
          BY <1>4, <2>1, <2>2, <2>4, <2>5, <3>3
        <4>2. Address(b, target'.kind, taken', need')
          BY <4>1 DEF Address
        <4> QED BY <1>5, <4>1, <4>2 DEF HandshakeInv
      <3> QED BY <2>2, <3>1, <3>2, <3>3
    <2>9. CauseInv'
      <3>1. phase' # "failed"
        BY <2>1
      <3> QED BY <1>5, <3>1, CauseKeeps
    <2> QED BY <2>7, <2>8, <2>9
  <1>8. CASE ~good
    <2>1. phase' = "failed" /\ target' = target /\ need' = need
      BY <1>8 DEF Request
    <2>2. TypeInv'
      <3>1. phase' \in HandshakePhases \cup {"load", "reply", "connect", "first", "relay", "failed", "lost"}
        BY <2>1, PhaseTyped
      <3>2. replies' \in Seq(Told) /\ need' \in Nat /\ target' \in Partial
        BY <1>5, <1>6, <2>1
      <3> QED BY <1>2, <1>5, <3>1, <3>2, HandshakeTyped
    <2>3. HandshakeInv'
      BY <1>5, <2>1, HandshakeFailed
    <2>4. run.fault # "none"
      <3> SUFFICES ASSUME run.fault = "none" PROVE FALSE
        OBVIOUS
      <3>1. run \in Runs
        BY DEF TypeInv
      <3>2. PICK at \in Nat, len \in Nat : AskedAt(run, at, len)
        BY <3>1, SoundAsks
      <3>3. /\ Commanded(b, b[m + 4])
            /\ run.want.target.kind \in {"ip4", "ip6", "domain"}
            /\ b[m + 4] = (CASE run.want.target.kind = "ip4" -> 1 [] run.want.target.kind = "ip6" -> 4
                             [] run.want.target.kind = "domain" -> 3)
        BY <3>2 DEF AskedAt, Located
      <3>4. b[m + 1] = 5 /\ b[m + 2] = 1
        BY <3>3 DEF Commanded
      <3>5. b[m + 4] \in {1, 3, 4}
        BY <3>3
      <3> QED BY <1>4, <1>8, <3>4, <3>5, SocksTypes
    <2>5. CauseInv'
      BY <1>5, <2>4, CauseKeeps
    <2> QED BY <2>2, <2>3, <2>5
  <1> QED BY <1>7, <1>8

LEMMA DomainLengthStep ==
    ASSUME TypeInv, HandshakeInv, CauseInv, DomainLength
    PROVE  TypeInv' /\ HandshakeInv' /\ CauseInv'
  <1> DEFINE b == run.input
             m == MethodsEnd(b)
  <1>1. ReadExact("length")
    BY DEF DomainLength
  <1>2. /\ phase = "length" /\ taken' = taken + need /\ taken' \in Nat /\ taken' <= sent
        /\ Len(b) \in Nat /\ taken + need <= Len(b) /\ taken \in Nat
        /\ \A i \in 1..need : Bytes[i] = b[taken + i] /\ Bytes[i] \in Nat
    BY <1>1, BytesRead
  <1>3. Commanded(b, 3) /\ target.kind = "domain" /\ taken = m + 4 /\ need = 1
    BY <1>2 DEF HandshakeInv
  <1>4. b \in Seq(Nat) /\ m \in Nat
    BY <1>3, RunFacts, CommandedIs
  <1>5. Bytes[1] = b[m + 5] /\ Bytes[1] \in Nat /\ Len(b) >= m + 5 /\ taken' = m + 5
    <2>1. 1 \in 1..need /\ taken + 1 = m + 5
      BY <1>3, <1>4
    <2>2. taken + need = m + 5
      BY <1>3, <1>4
    <2> QED BY <1>2, <2>1, <2>2
  <1>6. /\ HandshakeKeeps /\ run' = run /\ replies' = replies
        /\ need' = Bytes[1] /\ phase' = "address" /\ target' = target
    BY DEF DomainLength, HandshakeKeeps
  <1>7. TypeInv'
    <2>1. target' \in Partial /\ replies' \in Seq(Told)
      BY <1>6 DEF TypeInv
    <2>2. phase' \in HandshakePhases \cup {"load", "reply", "connect", "first", "relay", "failed", "lost"}
      BY <1>6, PhaseTyped
    <2>3. need' \in Nat
      BY <1>5, <1>6
    <2> QED BY <1>2, <1>6, <2>1, <2>2, <2>3, HandshakeTyped
  <1>8. HandshakeInv'
    <2>1. Address(b, "domain", m + 5, b[m + 5])
      BY <1>3, <1>5 DEF Address
    <2>2. Address(b, target'.kind, taken', need')
      BY <1>3, <1>5, <1>6, <2>1
    <2> QED BY <1>6, <2>2 DEF HandshakeInv
  <1>9. CauseInv'
    BY <1>6, CauseKeeps
  <1> QED BY <1>7, <1>8, <1>9

LEMMA AddressBytesStep ==
    ASSUME TypeInv, HandshakeInv, CauseInv, AddressBytes
    PROVE  TypeInv' /\ HandshakeInv' /\ CauseInv'
  <1> DEFINE b == run.input
             bad == target.kind = "domain" /\ \E i \in DOMAIN Bytes : Bytes[i] = 255
  <1>1. ReadExact("address")
    BY DEF AddressBytes
  <1>2. /\ phase = "address" /\ taken' = taken + need /\ taken' \in Nat /\ taken' <= sent
        /\ Len(b) \in Nat /\ taken + need <= Len(b) /\ taken \in Nat /\ need \in Nat
        /\ Bytes \in Seq(Nat)
    BY <1>1, BytesRead
  <1>3. Address(b, target.kind, taken, need)
    BY <1>2 DEF HandshakeInv
  <1>4. /\ HandshakeKeeps /\ run' = run /\ replies' = replies
        /\ target' = [target EXCEPT !.addr = Bytes]
        /\ phase' = IF bad THEN "failed" ELSE "port"
        /\ need' = 1
    BY DEF AddressBytes, HandshakeKeeps
  <1>5. Bytes = SubSeq(b, taken + 1, taken + need)
    BY DEF Bytes
  <1>6. target \in Partial /\ replies \in Seq(Told)
    BY DEF TypeInv
  <1>7. target' \in Partial /\ target'.kind = target.kind /\ target'.addr = Bytes
    BY <1>2, <1>4, <1>6 DEF Partial
  <1> HIDE DEF bad
  <1>8. TypeInv'
    <2>1. replies' \in Seq(Told) /\ need' \in Nat
      BY <1>4, <1>6
    <2>2. phase' \in {"port", "failed"}
      BY <1>4
    <2>3. phase' \in HandshakePhases \cup {"load", "reply", "connect", "first", "relay", "failed", "lost"}
      BY <2>2, PhaseTyped
    <2> QED BY <1>2, <1>4, <1>7, <2>1, <2>3, HandshakeTyped
  <1>9. CASE ~bad
    <2>1. phase' = "port"
      BY <1>4, <1>9
    <2>2. target'.kind = "domain" => \A i \in DOMAIN target'.addr : target'.addr[i] # 255
      BY <1>7, <1>9 DEF bad
    <2>3. NamesIt(b, target', taken, need)
      <3>1. target'.addr = SubSeq(b, taken + 1, taken + need)
        BY <1>5, <1>7
      <3>2. Address(b, target'.kind, taken, need) /\ Len(b) >= taken + need
        BY <1>2, <1>3, <1>7
      <3> QED BY <2>2, <3>1, <3>2 DEF NamesIt
    <2>4. need \in 0..taken' /\ taken' - need = taken
      BY <1>2
    <2>5. NamesIt(run'.input, target', taken' - need, need)
      BY <1>4, <2>3, <2>4
    <2>6. HandshakeInv'
      <3>1. \E len \in 0..taken' : NamesIt(run'.input, target', taken' - len, len)
        BY <2>4, <2>5
      <3> QED BY <1>4, <2>1, <3>1 DEF HandshakeInv
    <2>7. CauseInv'
      BY <1>4, <2>1, CauseKeeps
    <2> QED BY <1>8, <2>6, <2>7
  <1>10. CASE bad
    <2>1. phase' = "failed"
      BY <1>4, <1>10
    <2>2. run.fault # "none"
      <3> SUFFICES ASSUME run.fault = "none" PROVE FALSE
        OBVIOUS
      <3>1. run \in Runs /\ b \in Seq(Nat)
        BY RunFacts
      <3>2. PICK at \in Nat, len \in Nat : AskedAt(run, at, len)
        BY <3>1, SoundAsks
      <3> DEFINE t == run.want.target
      <3>3. /\ Address(b, t.kind, at, len) /\ t.addr = SubSeq(b, at + 1, at + len)
            /\ t.kind = "domain" => \A i \in DOMAIN t.addr : t.addr[i] # 255
        BY <3>2 DEF AskedAt, AsksAt, NamesIt
      <3>4. t.kind = target.kind /\ at = taken /\ len = need
        BY <1>3, <3>1, <3>3, AddressUnique
      <3>5. t.addr = Bytes
        BY <1>5, <3>3, <3>4
      <3> QED BY <1>10, <3>3, <3>4, <3>5 DEF bad
    <2>3. HandshakeInv' /\ CauseInv'
      BY <1>4, <2>1, <2>2, CauseKeeps, HandshakeFailed
    <2> QED BY <1>8, <2>3
  <1> QED BY <1>9, <1>10

LEMMA PortStep ==
    ASSUME TypeInv, HandshakeInv, CauseInv, Port
    PROVE  TypeInv' /\ HandshakeInv' /\ CauseInv'
  <1> DEFINE b == run.input
  <1>1. ReadExact("port")
    BY DEF Port
  <1>2. /\ phase = "port" /\ taken' = taken + need /\ taken' \in Nat /\ taken' <= sent
        /\ Len(b) \in Nat /\ taken + need <= Len(b) /\ taken \in Nat
        /\ \A i \in 1..need : Bytes[i] = b[taken + i] /\ Bytes[i] \in Nat
    BY <1>1, BytesRead
  <1>3. need = 1 /\ \E len \in 0..taken : NamesIt(b, target, taken - len, len)
    BY <1>2 DEF HandshakeInv
  <1>4. PICK len \in 0..taken : NamesIt(b, target, taken - len, len)
    BY <1>3
  <1>5. /\ HandshakeKeeps /\ run' = run /\ replies' = replies
        /\ target' = [target EXCEPT !.port = Bytes[1]]
        /\ phase' = "reply" /\ need' = 0
    BY DEF Port, HandshakeKeeps
  <1>6. Bytes[1] = b[taken + 1] /\ Bytes[1] \in Nat /\ taken' = taken + 1 /\ taken + 1 <= Len(b)
    BY <1>2, <1>3
  <1>7. target \in Partial /\ replies \in Seq(Told)
    BY DEF TypeInv
  <1>8. /\ target' \in Partial /\ target'.kind = target.kind /\ target'.addr = target.addr
        /\ target'.port = Bytes[1]
    BY <1>5, <1>6, <1>7 DEF Partial
  <1>9. TypeInv'
    <2>1. replies' \in Seq(Told) /\ need' \in Nat
      BY <1>5, <1>7
    <2>2. phase' \in HandshakePhases \cup {"load", "reply", "connect", "first", "relay", "failed", "lost"}
      BY <1>5, PhaseTyped
    <2> QED BY <1>2, <1>5, <1>8, <2>1, <2>2, HandshakeTyped
  <1>10. HandshakeInv'
    <2> DEFINE at == taken - len
    <2>1. at \in Nat /\ len \in Nat /\ taken' = at + len + 1
      BY <1>2, <1>6
    <2>2. b \in Seq(Nat)
      BY RunFacts
    <2>0. NamesIt(b, target, at, len)
      BY <1>4
    <2> HIDE DEF at
    <2>3. NamesIt(b, target', at, len)
      <3> DEFINE t == target
                 d == target'
      <3>1. NamesIt(b, t, at, len) /\ d.kind = t.kind /\ d.addr = t.addr
        BY <2>0, <1>8
      <3> HIDE DEF t, d
      <3>2. NamesIt(b, d, at, len)
        <4>1. /\ Address(b, t.kind, at, len) /\ Len(b) >= at + len
              /\ t.addr = SubSeq(b, at + 1, at + len)
              /\ t.kind = "domain" => \A i \in DOMAIN t.addr : t.addr[i] # 255
          BY <3>1 DEF NamesIt
        <4>2. Address(b, d.kind, at, len) /\ d.addr = SubSeq(b, at + 1, at + len)
          BY <3>1, <4>1
        <4>3. d.kind = "domain" => \A i \in DOMAIN d.addr : d.addr[i] # 255
          <5> DEFINE clean(k, a) == k = "domain" => \A i \in DOMAIN a : a[i] # 255
          <5>1. clean(t.kind, t.addr)
            BY <4>1
          <5> HIDE DEF clean
          <5>2. clean(d.kind, d.addr)
            BY <3>1, <5>1
          <5> QED BY <5>2 DEF clean
        <4> QED BY <4>1, <4>2, <4>3 DEF NamesIt
      <3> QED BY <3>2 DEF d
    <2>4. target'.kind \in {"ip4", "ip6", "domain"}
      <3>1. Address(b, target'.kind, at, len)
        BY <2>3 DEF NamesIt
      <3> QED BY <3>1 DEF Address
    <2>5. target' \in Destinations
      BY <1>8, <2>4 DEF Partial, Destinations
    <2>6. AsksAt(b, taken', target', at, len)
      <3>1. target'.port = b[taken'] /\ Len(b) >= taken'
        BY <1>6, <1>8
      <3> QED BY <2>1, <2>3, <3>1 DEF AsksAt
    <2>7. Asks(b, taken', target')
      BY <2>1, <2>2, <2>5, <2>6, AsksWhen
    <2> QED BY <1>5, <2>5, <2>7 DEF HandshakeInv
  <1>11. CauseInv'
    BY <1>5, CauseKeeps
  <1> QED BY <1>9, <1>10, <1>11

---------------------------------------------------------------------------
(***************************************************************************)
(* The handshake: a client that hangs up, and the reply.                   *)
(***************************************************************************)
\* The input of a client that is not at fault is long enough for every read.
LEMMA LongEnough ==
    ASSUME TypeInv, HandshakeInv, Sound, phase \in HandshakePhases
    PROVE  taken + need <= Len(run.input)
  <1> DEFINE b == run.input
             m == MethodsEnd(b)
             t == run.want.target
  <1>1. run \in Runs /\ b \in Seq(Nat) /\ Len(b) \in Nat
    BY RunFacts
  <1>2. PICK at \in Nat, len \in Nat : AskedAt(run, at, len)
    BY <1>1, SoundAsks DEF Sound
  <1>3. /\ Address(b, t.kind, at, len) /\ Located(b, t.kind, at, len)
        /\ run.head = at + len + 1 /\ Len(b) >= run.head
    BY <1>2 DEF AskedAt, AsksAt
  <1>4. /\ m \in Nat /\ m >= 2 /\ at <= Len(b) /\ Commanded(b, b[m + 4])
        /\ t.kind \in {"ip4", "ip6", "domain"}
        /\ at = m + (IF t.kind = "domain" THEN 5 ELSE 4)
        /\ b[m + 4] = (CASE t.kind = "ip4" -> 1 [] t.kind = "ip6" -> 4 [] t.kind = "domain" -> 3)
    BY <1>3 DEF Located
  <1>5. Len(b) >= m + 4
    BY <1>4 DEF Commanded
  <1>6. at + len + 1 <= Len(b)
    BY <1>3
  <1>7. taken \in Nat /\ need \in Nat
    BY DEF TypeInv
  <1>8. CASE phase = "greeting"
    <2>1. taken = 0 /\ need = 2
      BY <1>8 DEF HandshakeInv
    <2> HIDE DEF m, b
    <2> QED BY <1>1, <1>4, <1>5, <2>1 DEF b
  <1>9. CASE phase = "methods"
    <2>1. taken = 2 /\ need = b[2]
      BY <1>9 DEF HandshakeInv
    <2>2. m = taken + need
      BY <2>1 DEF MethodsEnd
    <2> HIDE DEF m, b
    <2> QED BY <1>1, <1>4, <1>5, <2>2 DEF b
  <1>10. CASE phase = "request"
    <2>1. taken = m /\ need = 4
      BY <1>10 DEF HandshakeInv
    <2> HIDE DEF m, b
    <2> QED BY <1>1, <1>4, <1>5, <2>1 DEF b
  <1>11. CASE phase = "length"
    <2>1. taken = m + 4 /\ need = 1 /\ Commanded(b, 3)
      BY <1>11 DEF HandshakeInv
    <2>2. b[m + 4] = 3
      BY <2>1 DEF Commanded
    <2>3. at = m + 5
      BY <1>4, <2>2
    <2>4. taken + need = at
      <3> HIDE DEF m
      <3> QED BY <1>4, <2>1, <2>3
    <2> QED BY <1>4, <2>4
  <1>12. CASE phase = "address"
    <2>1. Address(b, target.kind, taken, need)
      BY <1>12 DEF HandshakeInv
    <2>2. taken = at /\ need = len
      BY <1>1, <1>3, <2>1, AddressUnique
    <2> HIDE DEF m, b
    <2> QED BY <1>1, <1>6, <2>2 DEF b
  <1>13. CASE phase = "port"
    <2>1. need = 1 /\ \E l \in 0..taken : NamesIt(b, target, taken - l, l)
      BY <1>13 DEF HandshakeInv
    <2>2. PICK l \in 0..taken : NamesIt(b, target, taken - l, l)
      BY <2>1
    <2>3. Address(b, target.kind, taken - l, l)
      BY <2>2 DEF NamesIt
    <2>4. taken - l = at /\ l = len
      BY <1>1, <1>3, <2>3, AddressUnique
    <2>5. taken = at + len
      BY <1>7, <2>4
    <2> HIDE DEF m, b
    <2> QED BY <1>1, <1>6, <2>1, <2>5 DEF b
  <1> QED BY <1>8, <1>9, <1>10, <1>11, <1>12, <1>13 DEF HandshakePhases

LEMMA HangsUpStep ==
    ASSUME TypeInv, HandshakeInv, CauseInv, HangsUp
    PROVE  TypeInv' /\ HandshakeInv' /\ CauseInv'
  <1>1. /\ phase \in HandshakePhases /\ ClientDone /\ sent - taken < need /\ phase' = "failed"
        /\ HandshakeKeeps /\ run' = run /\ taken' = taken
        /\ need' = need /\ target' = target /\ replies' = replies
    BY DEF HangsUp, HandshakeKeeps, handshakeVars
  <1>2. /\ taken \in Nat /\ taken <= sent /\ need \in Nat /\ target \in Partial /\ replies \in Seq(Told)
        /\ sent \in Nat
    BY DEF TypeInv
  <1>3. TypeInv'
    <2>1. phase' \in HandshakePhases \cup {"load", "reply", "connect", "first", "relay", "failed", "lost"}
      BY <1>1, PhaseTyped
    <2> QED BY <1>1, <1>2, <2>1, HandshakeTyped
  <1>4. HandshakeInv'
    BY <1>1, HandshakeFailed
  <1>5. run.fault # "none"
    <2> SUFFICES ASSUME run.fault = "none" PROVE FALSE
      OBVIOUS
    <2>1. Sound
      BY DEF Sound
    <2>2. taken + need <= Len(run.input)
      BY <1>1, <2>1, LongEnough
    <2>3. sent = Len(run.input)
      BY <1>1 DEF ClientDone
    <2> QED BY <1>1, <1>2, <2>2, <2>3
  <1>6. CauseInv'
    BY <1>1, <1>5, CauseKeeps
  <1> QED BY <1>3, <1>4, <1>6

LEMMA ReplyStep ==
    ASSUME TypeInv, HandshakeInv, CauseInv, Reply
    PROVE  TypeInv' /\ HandshakeInv' /\ CauseInv'
  <1> DEFINE told == <<5, 0, 0, 1>>
  <1>1. /\ phase = "reply" /\ phase' = "connect" /\ replies' = Append(replies, told)
        /\ HandshakeKeeps /\ run' = run /\ taken' = taken /\ need' = need /\ target' = target
    BY DEF Reply, HandshakeKeeps
  <1>2. /\ taken \in Nat /\ taken <= sent /\ need \in Nat /\ target \in Partial /\ replies \in Seq(Told)
    BY DEF TypeInv
  <1>3. TypeInv'
    <2>1. phase' \in HandshakePhases \cup {"load", "reply", "connect", "first", "relay", "failed", "lost"}
      BY <1>1, PhaseTyped
    <2>2. told \in Told
      BY DEF Told
    <2>3. replies' \in Seq(Told)
      BY <1>1, <1>2, <2>2, ToldMore
    <2> QED BY <1>1, <1>2, <2>1, <2>3, HandshakeTyped
  <1>4. HandshakeInv'
    BY <1>1 DEF HandshakeInv
  <1>5. CauseInv'
    <2>1. ASSUME NEW i \in DOMAIN replies', replies'[i] = <<5, 255>>
          PROVE  run'.fault = "method"
      <3>1. CASE i \in DOMAIN replies
        <4>1. replies'[i] = replies[i]
          BY <1>1, <1>2, <3>1
        <4> QED BY <1>1, <2>1, <3>1, <4>1 DEF CauseInv
      <3>2. CASE i \notin DOMAIN replies
        <4>1. replies'[i] = told
          BY <1>1, <1>2, <3>2
        <4>2. told # <<5, 255>>
          <5>1. Len(told) = 4 /\ Len(<<5, 255>>) = 2
            OBVIOUS
          <5> QED BY <5>1
        <4> QED BY <2>1, <4>1, <4>2
      <3> QED BY <3>1, <3>2
    <2> QED BY <1>1, <2>1 DEF CauseInv
  <1> QED BY <1>3, <1>4, <1>5

---------------------------------------------------------------------------
(***************************************************************************)
(* Loading the configuration, and connecting: the server authenticates     *)
(* exactly the client this run is about.                                   *)
(***************************************************************************)
\* The credentials in use are those the configuration writes.
LEMMA CredsAre ==
    ASSUME TypeInv, ConfigInv, phase \notin {"load", "failed"}
    PROVE  Creds \in C!Credentials /\ Loaded(run.raw, Creds)
  <1>1. cfg = C!LoadConfig(run.raw) /\ cfg # {}
    BY DEF ConfigInv
  <1>2. run.raw \in C!RawCredentials
    BY RunFacts
  <1>3. PICK c \in C!Credentials : C!LoadConfig(run.raw) = {c} /\ Loaded(run.raw, c)
    BY <1>1, <1>2, ConfigRead
  <1>4. cfg = {c}
    BY <1>1, <1>3
  <1>5. Creds = c
    BY <1>4 DEF Creds
  <1> QED BY <1>3, <1>5

\* And the server knows them, if nobody is at fault.
LEMMA CredsKnown ==
    ASSUME TypeInv, ConfigInv, phase \notin {"load", "failed"}, Sound
    PROVE  Known(Creds, run.want) /\ Creds.flow = RequiredFlow
  <1>1. Creds \in C!Credentials /\ Loaded(run.raw, Creds)
    BY CredsAre
  <1>2. run \in Runs /\ run.raw \in C!RawCredentials /\ RunTyped(run)
    BY RunFacts
  <1>3. Usable(run.raw) /\ Names(run.raw, run.want)
    BY <1>2, RunIsSound DEF RunSound, Sound
  <1>4. {run.want.uuid, run.want.key, run.want.shortId} \subseteq Seq(0..255)
    BY <1>2 DEF RunTyped
  <1>5. Known(Creds, run.want)
    BY <1>1, <1>2, <1>3, <1>4, ConfigNames
  <1>6. Creds.flow = RequiredFlow
    BY <1>1, <1>3 DEF Loaded, Usable
  <1> QED BY <1>5, <1>6

LEMMA LoadStep ==
    ASSUME TypeInv, ConfigInv, HandshakeInv, CauseInv, Load
    PROVE  TypeInv' /\ ConfigInv' /\ HandshakeInv' /\ CauseInv'
  <1>1. /\ phase = "load" /\ cfg' = C!LoadConfig(run.raw)
        /\ phase' = IF cfg' = {} THEN "failed" ELSE "greeting"
        /\ need' = 2 /\ taken' = taken /\ target' = target /\ replies' = replies
        /\ HandshakeKeeps /\ run' = run /\ padder' = padder /\ server' = server
    BY DEF Load, HandshakeKeeps, uplinkVars
  <1>2. /\ taken \in Nat /\ taken <= sent /\ target \in Partial /\ replies \in Seq(Told)
    BY DEF TypeInv
  <1>3. TypeInv'
    <2>1. phase' \in {"failed", "greeting"}
      BY <1>1
    <2>2. phase' \in HandshakePhases \cup {"load", "reply", "connect", "first", "relay", "failed", "lost"}
      BY <2>1, PhaseTyped
    <2>3. need' \in Nat
      BY <1>1
    <2> QED BY <1>1, <1>2, <2>2, <2>3, HandshakeTyped
  <1>4. ConfigInv'
    <2>1. ~padder.fresh \/ server.auth # {} => Sound
      BY DEF ConfigInv
    <2>2. \A a \in server.auth : a.key = run.want.key /\ a.shortId = run.want.shortId
      BY DEF ConfigInv
    <2>3. phase' \notin {"load", "first", "relay"} /\ (phase' # "failed" => cfg' # {})
      BY <1>1
    <2>4. phase' \in {"first", "relay"} \/ ~padder'.fresh \/ server'.auth # {} => Sound'
      BY <1>1, <2>1, <2>3 DEF Sound
    <2> QED BY <1>1, <2>2, <2>3, <2>4 DEF ConfigInv
  <1>5. HandshakeInv'
    <2>1. taken = 0
      BY <1>1 DEF HandshakeInv
    <2>2. CASE cfg' = {}
      BY <1>1, <2>2, HandshakeFailed
    <2>3. CASE cfg' # {}
      <3>1. phase' = "greeting"
        BY <1>1, <2>3
      <3> QED BY <1>1, <2>1, <3>1 DEF HandshakeInv
    <2> QED BY <2>2, <2>3
  <1>6. CauseInv'
    <2>1. CASE cfg' = {}
      <3>1. run \in Runs /\ run.raw \in C!RawCredentials
        BY RunFacts
      <3>2. ~Usable(run.raw)
        BY <1>1, <2>1, <3>1, ConfigUsable
      <3>3. run.fault # "none"
        BY <3>1, <3>2, RunIsSound DEF RunSound
      <3> QED BY <1>1, <3>3, CauseKeeps
    <2>2. CASE cfg' # {}
      <3>1. phase' # "failed"
        BY <1>1, <2>2
      <3> QED BY <1>1, <3>1, CauseKeeps
    <2> QED BY <2>1, <2>2
  <1> QED BY <1>3, <1>4, <1>5, <1>6

LEMMA ConnectStep ==
    ASSUME TypeInv, ConfigInv, HandshakeInv, CauseInv, Connect
    PROVE  TypeInv' /\ ConfigInv' /\ HandshakeInv' /\ CauseInv'
  <1> DEFINE c == Creds
             good == c.flow = RequiredFlow /\ Len(c.shortId) <= MaxShortId
             auth == [key |-> c.publicKey, shortId |-> ShortIdField(c.shortId)]
             b == run.input
  <1>1. /\ phase = "connect" /\ run' = run /\ cfg' = cfg /\ sent' = sent /\ taken' = taken
        /\ traffic' = traffic /\ need' = need /\ target' = target /\ replies' = replies
        /\ UNCHANGED <<uplinkVars, downlinkVars>> /\ padder' = padder
    BY DEF Connect, handshakeVars, uplinkVars
  <1>2. IF good THEN server' = [server EXCEPT !.auth = {auth}] /\ phase' = "first"
        ELSE phase' = "failed" /\ server' = server
    BY DEF Connect
  <1>3. c \in C!Credentials /\ Loaded(run.raw, c)
    BY <1>1, CredsAre
  <1>4. run \in Runs /\ RunOK(run) /\ RunTyped(run) /\ run.raw \in C!RawCredentials
    BY RunFacts
  <1>5. target \in Destinations /\ Asks(b, taken, target)
    BY <1>1 DEF HandshakeInv
  <1>6. server \in Servers
    BY DEF TypeInv
  <1> HIDE DEF c
  <1>7. CASE good
    <2>1. run.fault # "config"
      <3>1. Usable(run.raw)
        BY <1>3, <1>4, <1>7, ConfigCause
      <3> QED BY <1>4, <3>1 DEF RunOK
    <2>2. run.fault \notin {"client", "method"}
      BY <1>4, <1>5, ClientAtFault
    <2>3. Sound
      BY <1>4, <2>1, <2>2 DEF RunTyped, Sound
    <2>4. Known(c, run.want)
      BY <1>1, <2>3, CredsKnown DEF c
    <2>5. auth.key = run.want.key /\ auth.shortId = run.want.shortId
      BY <2>4 DEF Known
    <2>6. auth \in Keys
      <3>1. run.want.key \in Seq(0..255) /\ run.want.shortId \in Seq(0..255)
        BY <1>4 DEF RunTyped
      <3>2. c.publicKey \in Seq(0..255) /\ ShortIdField(c.shortId) \in Seq(0..255)
        BY <2>5, <3>1
      <3> QED BY <3>2 DEF Keys
    <2> HIDE DEF auth, good
    <2>7. server' = [server EXCEPT !.auth = {auth}] /\ phase' = "first"
      BY <1>2, <1>7
    <2>8. server' \in Servers /\ server'.auth = {auth}
      BY <1>6, <2>6, <2>7 DEF Servers
    <2>9. TypeInv'
      BY <1>1, <2>7, <2>8 DEF TypeInv, uplinkVars, downlinkVars
    <2>10. ConfigInv'
      <3>1. Sound'
        BY <1>1, <2>3 DEF Sound
      <3>2. \A a \in server'.auth : a.key = run'.want.key /\ a.shortId = run'.want.shortId
        BY <1>1, <2>5, <2>8
      <3>3. cfg' = C!LoadConfig(run'.raw) /\ cfg' # {}
        BY <1>1 DEF ConfigInv
      <3> QED BY <2>7, <3>1, <3>2, <3>3 DEF ConfigInv
    <2>11. HandshakeInv'
      BY <1>1, <1>5, <2>7 DEF HandshakeInv
    <2>12. CauseInv'
      BY <1>1, <2>7, CauseKeeps
    <2> QED BY <2>9, <2>10, <2>11, <2>12
  <1>8. CASE ~good
    <2>1. phase' = "failed" /\ server' = server
      BY <1>2, <1>8
    <2>2. run.fault # "none"
      <3> SUFFICES ASSUME run.fault = "none" PROVE FALSE
        OBVIOUS
      <3>1. Sound
        BY DEF Sound
      <3>2. Known(c, run.want) /\ c.flow = RequiredFlow
        BY <1>1, <3>1, CredsKnown DEF c
      <3> QED BY <1>8, <3>2 DEF Known
    <2>3. TypeInv'
      BY <1>1, <2>1 DEF TypeInv, uplinkVars, downlinkVars
    <2>4. ConfigInv'
      BY <1>1, <2>1 DEF ConfigInv, Sound
    <2>5. HandshakeInv' /\ CauseInv'
      BY <1>1, <2>1, <2>2, CauseKeeps, HandshakeFailed
    <2> QED BY <2>3, <2>4, <2>5
  <1> QED BY <1>7, <1>8

\* ConfigInv depends on a few variables only.
LEMMA ConfigSame ==
    ASSUME ConfigInv, run' = run, cfg' = cfg, phase' = phase, padder' = padder,
           server'.auth = server.auth
    PROVE  ConfigInv'
  BY DEF ConfigInv, Sound

LEMMA ConfigKeeps ==
    ASSUME ConfigInv, run' = run, cfg' = cfg, phase # "load", phase' # "load",
           phase # "failed" \/ phase' = "failed", padder' = padder, server'.auth = server.auth,
           phase' \notin {"first", "relay"} \/ Sound
    PROVE  ConfigInv'
  BY DEF ConfigInv, Sound

LEMMA ConfigSound ==
    ASSUME ConfigInv, run' = run, cfg' = cfg, phase \in {"first", "relay"}, phase' \in {"relay", "failed"},
           server'.auth = server.auth
    PROVE  ConfigInv'
  BY DEF ConfigInv, Sound

LEMMA HandshakeSame ==
    ASSUME HandshakeInv, run' = run, phase' = phase, taken' = taken, need' = need, target' = target
    PROVE  HandshakeInv'
  BY DEF HandshakeInv

LEMMA HandshakeOver ==
    ASSUME run' = run, phase' \in {"relay", "failed", "lost"}
    PROVE  HandshakeInv'
  BY DEF HandshakeInv

---------------------------------------------------------------------------
(***************************************************************************)
(* The steps that leave one or the other part alone.                       *)
(***************************************************************************)
IndInv == TypeInv /\ ConfigInv /\ HandshakeInv /\ CauseInv /\ UplinkInv /\ DownlinkInv

LEMMA DownlinkSame ==
    ASSUME DownlinkInv, run' = run, reader' = reader, received' = received, ended' = ended
    PROVE  DownlinkInv'
  BY DEF DownlinkInv

LEMMA UplinkSame ==
    ASSUME UplinkInv, run' = run, phase' = phase, taken' = taken, padder' = padder, wire' = wire,
           closed' = closed, server' = server
    PROVE  UplinkInv'
  BY DEF UplinkInv, Untouched, Outstanding, Asking, AskedFor

\* Before the relay nothing is written.
ServerKeeps == /\ server'.req = server.req /\ server'.buf = server.buf /\ server'.prefix = server.prefix
               /\ server'.unpadder = server.unpadder /\ server'.data = server.data
               /\ server'.eof = server.eof

LEMMA UplinkBefore ==
    ASSUME UplinkInv, phase \notin {"relay", "failed"}, phase' # "relay",
           padder' = padder, wire' = wire, closed' = closed, ServerKeeps
    PROVE  UplinkInv'
  <1>1. padder.fresh /\ Untouched
    BY DEF UplinkInv
  <1>2. padder'.fresh /\ Untouched'
    BY <1>1 DEF Untouched, ServerKeeps
  <1> QED BY <1>2 DEF UplinkInv

\* An action of the handshake.
LEMMA HandshakeActs ==
    ASSUME IndInv, TypeInv', HandshakeInv', CauseInv', cfg' = cfg, HandshakeKeeps,
           phase \notin {"load", "relay", "failed"}, phase' \notin {"load", "first", "relay"}
    PROVE  IndInv'
  <1>1. /\ run' = run /\ padder' = padder /\ wire' = wire /\ closed' = closed /\ server' = server
        /\ reader' = reader /\ received' = received /\ ended' = ended
    BY DEF HandshakeKeeps, uplinkVars, downlinkVars
  <1>2. ConfigInv'
    BY <1>1, ConfigKeeps DEF IndInv
  <1>3. ServerKeeps
    BY <1>1 DEF ServerKeeps
  <1>4. UplinkInv'
    BY <1>1, <1>3, UplinkBefore DEF IndInv
  <1>5. DownlinkInv'
    BY <1>1, DownlinkSame DEF IndInv
  <1> QED BY <1>2, <1>4, <1>5 DEF IndInv

LEMMA ClientSendsStep ==
    ASSUME IndInv, ClientSends
    PROVE  IndInv'
  <1>1. /\ UNCHANGED <<run, cfg, phase, taken, traffic, server, handshakeVars, uplinkVars, downlinkVars>>
        /\ \E n \in run.cuts \cup {Len(run.input)} : n > sent /\ sent' = n
    BY DEF ClientSends
  <1>2. TypeInv'
    <2>1. TypeInv
      BY DEF IndInv
    <2>2. run.cuts \subseteq 0..Len(run.input) /\ Len(run.input) \in Nat
      BY <2>1, RunFacts DEF RunTyped
    <2>3. PICK n \in run.cuts \cup {Len(run.input)} : n > sent /\ sent' = n
      BY <1>1
    <2>4. n \in Nat /\ n <= Len(run.input)
      BY <2>2
    <2>5. sent \in Nat /\ taken \in Nat /\ taken <= sent
      BY <2>1 DEF TypeInv
    <2>6. sent' \in Nat /\ sent' <= Len(run.input) /\ taken <= sent'
      BY <2>3, <2>4, <2>5
    <2> QED
      BY <1>1, <2>1, <2>6 DEF TypeInv, handshakeVars, uplinkVars, downlinkVars
  <1>3. ConfigInv' /\ HandshakeInv' /\ CauseInv'
    BY <1>1, ConfigSame, HandshakeSame, CauseKeeps DEF IndInv, handshakeVars, uplinkVars, CauseInv
  <1>4. UplinkInv' /\ DownlinkInv'
    BY <1>1, UplinkSame, DownlinkSame DEF IndInv, uplinkVars, downlinkVars
  <1> QED BY <1>2, <1>3, <1>4 DEF IndInv

LEMMA ServerAnswersStep ==
    ASSUME IndInv, ServerAnswers
    PROVE  IndInv'
  <1>1. /\ UNCHANGED <<run, cfg, phase, sent, taken, traffic, server, handshakeVars, uplinkVars,
                       reader, received, ended>>
        /\ \E n \in run.answerCuts \cup {Len(run.answer)} : n > answered /\ answered' = n
    BY DEF ServerAnswers
  <1>2. TypeInv'
    <2>1. TypeInv
      BY DEF IndInv
    <2>2. run.answerCuts \subseteq 0..Len(run.answer) /\ Len(run.answer) \in Nat
      BY <2>1, RunFacts DEF RunTyped
    <2>3. PICK n \in run.answerCuts \cup {Len(run.answer)} : n > answered /\ answered' = n
      BY <1>1
    <2>4. n \in Nat /\ n <= Len(run.answer)
      BY <2>2
    <2>5. answered \in Nat /\ reader.at \in Nat /\ reader.at <= answered
      BY <2>1 DEF TypeInv, Readers
    <2>6. answered' \in Nat /\ answered' <= Len(run.answer) /\ reader.at <= answered'
      BY <2>3, <2>4, <2>5
    <2> QED BY <1>1, <2>1, <2>6 DEF TypeInv, handshakeVars, uplinkVars
  <1>3. ConfigInv' /\ HandshakeInv' /\ CauseInv'
    BY <1>1, ConfigSame, HandshakeSame, CauseKeeps DEF IndInv, handshakeVars, uplinkVars, CauseInv
  <1>4. UplinkInv' /\ DownlinkInv'
    BY <1>1, UplinkSame, DownlinkSame DEF IndInv, uplinkVars
  <1> QED BY <1>2, <1>3, <1>4 DEF IndInv

LEMMA ServerSeesEndStep ==
    ASSUME IndInv, ServerSeesEnd
    PROVE  IndInv'
  <1>1. /\ UNCHANGED <<run, cfg, phase, sent, taken, traffic, handshakeVars, uplinkVars, downlinkVars>>
        /\ closed /\ wire = <<>> /\ server' = [server EXCEPT !.eof = TRUE]
    BY DEF ServerSeesEnd
  <1>2. server \in Servers
    BY DEF IndInv, TypeInv
  <1>3. /\ server' \in Servers /\ server'.eof /\ server'.auth = server.auth
        /\ server'.req = server.req /\ server'.buf = server.buf /\ server'.prefix = server.prefix
        /\ server'.unpadder = server.unpadder /\ server'.data = server.data
    BY <1>1, <1>2 DEF Servers
  <1>4. TypeInv'
    BY <1>1, <1>3 DEF IndInv, TypeInv, handshakeVars, uplinkVars, downlinkVars
  <1>5. ConfigInv' /\ HandshakeInv' /\ CauseInv'
    BY <1>1, <1>3, ConfigSame, HandshakeSame, CauseKeeps DEF IndInv, handshakeVars, uplinkVars, CauseInv
  <1>6. DownlinkInv'
    BY <1>1, DownlinkSame DEF IndInv, downlinkVars
  <1>7. UplinkInv'
    <2>1. UplinkInv
      BY DEF IndInv
    <2>2. ~padder.fresh
      BY <1>1, <2>1 DEF UplinkInv, Untouched
    <2>3. /\ run' = run /\ phase' = phase /\ taken' = taken /\ padder' = padder /\ wire' = wire
          /\ closed' = closed
      BY <1>1 DEF uplinkVars
    <2>4. Outstanding' = Outstanding /\ Asking' = Asking /\ AskedFor' = AskedFor
      BY <1>3, <2>3 DEF Outstanding, Asking, AskedFor
    <2> QED BY <1>1, <1>3, <2>1, <2>2, <2>3, <2>4 DEF UplinkInv
  <1> QED BY <1>4, <1>5, <1>6, <1>7 DEF IndInv

LEMMA NetworkFailsStep ==
    ASSUME IndInv, NetworkFails
    PROVE  IndInv'
  <1>1. /\ UNCHANGED <<run, cfg, sent, taken, traffic, server, handshakeVars, uplinkVars, downlinkVars>>
        /\ phase \in {"connect", "first"} /\ phase' = "lost"
    BY DEF NetworkFails
  <1>2. TypeInv'
    BY <1>1 DEF IndInv, TypeInv, handshakeVars, uplinkVars, downlinkVars
  <1>3. ConfigInv' /\ HandshakeInv' /\ CauseInv'
    BY <1>1, ConfigKeeps, HandshakeOver, CauseKeeps DEF IndInv, handshakeVars, uplinkVars
  <1>4. ServerKeeps
    BY <1>1 DEF ServerKeeps
  <1>5. UplinkInv' /\ DownlinkInv'
    BY <1>1, <1>4, UplinkBefore, DownlinkSame DEF IndInv, uplinkVars, downlinkVars
  <1> QED BY <1>2, <1>3, <1>5 DEF IndInv

LEMMA PumpUpEndsStep ==
    ASSUME IndInv, PumpUpEnds
    PROVE  IndInv'
  <1>1. /\ UNCHANGED <<run, cfg, phase, sent, taken, traffic, server, handshakeVars, padder, wire,
                       largest, downlinkVars>>
        /\ phase = "relay" /\ ClientDone /\ taken = sent /\ ~closed /\ closed' = TRUE
    BY DEF PumpUpEnds
  <1>2. TypeInv'
    BY <1>1 DEF IndInv, TypeInv, handshakeVars, downlinkVars
  <1>3. ConfigInv' /\ HandshakeInv' /\ CauseInv'
    BY <1>1, ConfigSame, HandshakeSame, CauseKeeps DEF IndInv, handshakeVars, CauseInv
  <1>4. DownlinkInv'
    BY <1>1, DownlinkSame DEF IndInv, downlinkVars
  <1>5. UplinkInv'
    <2>1. UplinkInv /\ ~padder.fresh
      BY <1>1 DEF IndInv, UplinkInv
    <2>2. Outstanding' = Outstanding /\ Asking' = Asking /\ AskedFor' = AskedFor
      BY <1>1 DEF Outstanding, Asking, AskedFor
    <2>3. taken = Len(run.input)
      BY <1>1 DEF ClientDone
    <2> QED BY <1>1, <2>1, <2>2, <2>3 DEF UplinkInv
  <1> QED BY <1>2, <1>3, <1>4, <1>5 DEF IndInv

LEMMA AnswerEndsStep ==
    ASSUME IndInv, AnswerEnds
    PROVE  IndInv'
  <1>1. /\ UNCHANGED <<run, cfg, phase, sent, taken, server, handshakeVars, uplinkVars,
                       answered, reader, received>>
        /\ reader.at = Len(run.answer) /\ ended' = TRUE
    BY DEF AnswerEnds
  <1>2. TypeInv'
    <2>1. TypeInv /\ traffic \in SniffStates
      BY DEF IndInv, TypeInv
    <2>2. <<>> \in Seq(Nat)
      OBVIOUS
    <2>3. Filter(traffic, PacketOf(<<>>)) \in SniffStates
      BY <2>1, <2>2, PacketSniffed, FilterTyped
    <2>4. traffic' \in SniffStates
      BY <2>1, <2>3 DEF AnswerEnds
    <2> QED BY <1>1, <2>1, <2>4 DEF TypeInv, handshakeVars, uplinkVars
  <1>3. ConfigInv' /\ HandshakeInv' /\ CauseInv'
    BY <1>1, ConfigSame, HandshakeSame, CauseKeeps DEF IndInv, handshakeVars, uplinkVars, CauseInv
  <1>4. UplinkInv'
    BY <1>1, UplinkSame DEF IndInv, uplinkVars
  <1>5. DownlinkInv'
    BY <1>1 DEF IndInv, DownlinkInv
  <1> QED BY <1>2, <1>3, <1>4, <1>5 DEF IndInv

LEMMA StutterStep ==
    ASSUME IndInv, UNCHANGED vars
    PROVE  IndInv'
  <1>1. /\ UNCHANGED <<run, cfg, phase, need, target, sent, taken, replies, traffic, padder, wire,
                       closed, largest, server, answered, reader, received, ended>>
    BY DEF vars
  <1>2. TypeInv'
    BY <1>1 DEF IndInv, TypeInv
  <1>3. ConfigInv' /\ HandshakeInv' /\ CauseInv'
    BY <1>1, ConfigSame, HandshakeSame, CauseKeeps DEF IndInv, CauseInv
  <1>4. UplinkInv' /\ DownlinkInv'
    BY <1>1, UplinkSame, DownlinkSame DEF IndInv
  <1> QED BY <1>2, <1>3, <1>4 DEF IndInv

---------------------------------------------------------------------------
(***************************************************************************)
(* The uplink: what the server would make of all that is under way         *)
(* (Carries), with a read cut anywhere, and with a write behind it.        *)
(***************************************************************************)
\* A reader in state u that gets o makes all of data of it, of which it has got already.
Carries(u, o, done, got, data) ==
    \E v \in Unpadders, d \in Seq(Nat) :
        /\ ReadAll(u, o, v, d) /\ ~v.failed /\ ~v.expectUuid /\ (v.done <=> done)
        /\ got \o d = data

LEMMA CarriesIs ==
    ASSUME NEW u \in Unpadders, NEW o \in Seq(Nat), NEW done \in BOOLEAN, NEW got, NEW data
    PROVE  Carries(u, o, done, got, data) <=>
              LET rem == Unpad(u, o)
              IN  /\ rem.buf = <<>> /\ ~rem.u.failed /\ ~rem.u.expectUuid
                  /\ rem.u.done <=> done
                  /\ got \o rem.out = data
  <1> DEFINE rem == Unpad(u, o)
             r == [u |-> u, buf |-> o, out |-> <<>>]
  <1>1. r \in Readings
    BY DEF Readings
  <1>2. rem \in Readings
    <2>1. rem = Final(r)
      BY UnpadIsFinal
    <2> QED BY <1>1, <2>1, FinalStuck
  <1>3. rem = [u |-> rem.u, buf |-> rem.buf, out |-> rem.out] /\ rem.u \in Unpadders /\ rem.out \in Seq(Nat)
    <2> HIDE DEF rem
    <2> QED BY <1>2, ReadingIs DEF Readings
  <1>4. ASSUME Carries(u, o, done, got, data)
        PROVE  /\ rem.buf = <<>> /\ ~rem.u.failed /\ ~rem.u.expectUuid
               /\ rem.u.done <=> done
               /\ got \o rem.out = data
    <2>1. PICK v \in Unpadders, d \in Seq(Nat) :
             /\ ReadAll(u, o, v, d) /\ ~v.failed /\ ~v.expectUuid /\ (v.done <=> done)
             /\ got \o d = data
      BY <1>4 DEF Carries
    <2>2. rem = [u |-> v, buf |-> <<>>, out |-> d]
      BY <2>1 DEF ReadAll
    <2>3. rem.u = v /\ rem.buf = <<>> /\ rem.out = d
      <3> HIDE DEF rem
      <3> QED BY <2>2
    <2> HIDE DEF rem
    <2> QED BY <2>1, <2>3
  <1>5. ASSUME rem.buf = <<>>, ~rem.u.failed, ~rem.u.expectUuid, rem.u.done <=> done,
               got \o rem.out = data
        PROVE  Carries(u, o, done, got, data)
    <2>1. rem = [u |-> rem.u, buf |-> <<>>, out |-> rem.out]
      <3> HIDE DEF rem
      <3> QED BY <1>3, <1>5
    <2>2. ReadAll(u, o, rem.u, rem.out)
      BY <1>3, <2>1 DEF ReadAll
    <2> HIDE DEF rem
    <2> QED BY <1>3, <1>5, <2>2 DEF Carries
  <1> QED BY <1>4, <1>5

\* Reading on.
LEMMA CarriesOn ==
    ASSUME NEW u \in Unpadders, NEW a \in Seq(Nat), NEW b \in Seq(Nat), NEW done, NEW got \in Seq(Nat),
           NEW data, Carries(u, a \o b, done, got, data)
    PROVE  /\ Carries(Unpad(u, a).u, Unpad(u, a).buf \o b, done, got \o Unpad(u, a).out, data)
           /\ Unpad(u, a) \in Readings
  <1> DEFINE r == Unpad(u, a)
             q == Unpad(r.u, r.buf \o b)
  <1>1. r \in Readings /\ q \in Readings /\ Unpad(u, a \o b) = Prepend(r.out, q)
    BY UnpadInParts
  <1>2. PICK v \in Unpadders, d \in Seq(Nat) :
           /\ ReadAll(u, a \o b, v, d) /\ ~v.failed /\ ~v.expectUuid /\ (v.done <=> done)
           /\ got \o d = data
    BY DEF Carries
  <1>3. Unpad(u, a \o b) = [u |-> v, buf |-> <<>>, out |-> d]
    BY <1>2 DEF ReadAll
  <1>4. q.u = v /\ q.buf = <<>> /\ r.out \o q.out = d
    <2> DEFINE o == r.out \o q.out
    <2>1. Prepend(r.out, q) = [u |-> q.u, buf |-> q.buf, out |-> o]
      BY DEF Prepend
    <2> HIDE DEF q, r, o
    <2>2. [u |-> q.u, buf |-> q.buf, out |-> o] = [u |-> v, buf |-> <<>>, out |-> d]
      BY <1>1, <1>3, <2>1
    <2>3. q.u = v /\ q.buf = <<>> /\ o = d
      BY <2>2
    <2> QED BY <2>3 DEF o
  <1>5. r.u \in Unpadders /\ r.buf \in Seq(Nat) /\ r.out \in Seq(Nat) /\ q.out \in Seq(Nat)
    <2> HIDE DEF q, r
    <2> QED BY <1>1 DEF Readings
  <1>6. q = [u |-> v, buf |-> <<>>, out |-> q.out]
    <2>1. q = [u |-> q.u, buf |-> q.buf, out |-> q.out]
      <3> HIDE DEF q
      <3> QED BY <1>1, ReadingIs
    <2> QED BY <1>4, <2>1
  <1>7. ReadAll(r.u, r.buf \o b, v, q.out)
    <2>1. r.buf \o b \in Seq(Nat)
      <3> HIDE DEF q, r
      <3> QED BY <1>5, ConcatParts
    <2> QED BY <1>5, <1>6, <2>1 DEF ReadAll
  <1>8. (got \o r.out) \o q.out = data
    <2> HIDE DEF q, r
    <2>1. (got \o r.out) \o q.out = got \o (r.out \o q.out)
      BY <1>5, ConcatBytes, ZenonT(60)
    <2> QED BY <1>2, <1>4, <2>1
  <1> HIDE DEF q, r
  <1>9. Carries(r.u, r.buf \o b, done, got \o r.out, data)
    BY <1>2, <1>5, <1>7, <1>8 DEF Carries
  <1> QED BY <1>1, <1>9 DEF r

\* Writing more.
LEMMA CarriesMore ==
    ASSUME NEW u, NEW o, NEW done, NEW got \in Seq(Nat), NEW data, Carries(u, o, done, got, data),
           NEW f, NEW x \in Seq(Nat), NEW more,
           \A v \in Unpadders : ~v.failed /\ ~v.expectUuid /\ (v.done <=> done) => Carries(v, f, more, <<>>, x)
    PROVE  Carries(u, o \o f, more, got, data \o x)
  <1>1. PICK v \in Unpadders, d \in Seq(Nat) :
           /\ ReadAll(u, o, v, d) /\ ~v.failed /\ ~v.expectUuid /\ (v.done <=> done)
           /\ got \o d = data
    BY DEF Carries
  <1>2. Carries(v, f, more, <<>>, x)
    BY <1>1
  <1>3. PICK w \in Unpadders, e \in Seq(Nat) :
           /\ ReadAll(v, f, w, e) /\ ~w.failed /\ ~w.expectUuid /\ (w.done <=> more)
           /\ <<>> \o e = x
    BY <1>2 DEF Carries
  <1>4. e = x
    <2>1. <<>> \o e = e
      OBVIOUS
    <2> QED BY <1>3, <2>1
  <1>5. ReadAll(u, o \o f, w, d \o x)
    BY <1>1, <1>3, <1>4, ReadMore
  <1>6. got \o (d \o x) = data \o x
    BY <1>1, ConcatBytes
  <1>7. d \o x \in Seq(Nat)
    BY <1>1, ConcatParts
  <1> QED BY <1>3, <1>5, <1>6, <1>7 DEF Carries

\* What VisionStream makes of a write carries the write.
LEMMA WriteCarries ==
    ASSUME NEW ts, NEW pd \in [padding : BOOLEAN, direct : BOOLEAN, fresh : BOOLEAN],
           NEW x \in Seq(Nat), x # <<>>, NEW uuid \in Seq(Nat), Len(uuid) = UuidLen,
           NEW rs \in [1..Len(x) -> Nat], NEW done,
           done <=> ~(IF pd.padding THEN Padded(ts, pd, PacketOf(x)) ELSE pd).padding,
           pd.padding \/ ~pd.fresh,
           NEW v \in Unpadders, ~v.failed, v.expectUuid <=> pd.fresh, v.done <=> ~pd.padding
    PROVE  Carries(v, FramesOf(ts, pd, x, uuid, rs), done, <<>>, x)
  <1> DEFINE f == FramesOf(ts, pd, x, uuid, rs)
  <1>0. <<>> \o x = x
    OBVIOUS
  <1>1. CASE pd.padding
    <2>1. Padding(ts, pd, x, uuid, rs)
      BY <1>1 DEF Padding
    <2>2. PICK w \in Unpadders : ReadBack(ts, pd, x, uuid, rs, v, w)
      BY <1>1, <2>1, WriteAndRead
    <2>3. ReadAll(v, f, w, x) /\ ~w.failed /\ ~w.expectUuid /\ (w.done <=> PaddingEnds(ts, PacketOf(x)))
      BY <2>2 DEF ReadBack
    <2>4. done <=> PaddingEnds(ts, PacketOf(x))
      BY <1>1 DEF Padded
    <2> HIDE DEF f
    <2>5. Carries(v, f, done, <<>>, x)
      BY <1>0, <2>3, <2>4 DEF Carries
    <2> QED BY <2>5 DEF f
  <1>2. CASE ~pd.padding
    <2>1. f = x
      BY <1>2, PlainWrite
    <2>2. Unpad(v, x) = [u |-> v, buf |-> <<>>, out |-> x]
      BY <1>2, UnpadPlain
    <2>3. ReadAll(v, x, v, x)
      BY <2>2 DEF ReadAll
    <2>4. (v.done <=> done) /\ ~v.failed /\ ~v.expectUuid
      BY <1>2
    <2> QED BY <1>0, <2>1, <2>3, <2>4 DEF Carries
  <1> QED BY <1>1, <1>2

\* The first bytes the server keeps.
LEMMA PrefixKept ==
    ASSUME NEW pre \in Seq(Nat), NEW w \in Seq(Nat), NEW uuid, Extended(pre \o w, uuid),
           Len(uuid) = UuidLen
    PROVE  LET p == SubSeq(pre, 1, Min({UuidLen, Len(pre)}))
           IN  p \in Seq(Nat) /\ Len(p) <= UuidLen /\ Extended(p \o w, uuid)
  <1> DEFINE n == Min({UuidLen, Len(pre)})
             p == Upto(pre, n)
  <1>0. UuidLen \in Nat /\ Len(pre) \in Nat
    BY SizesAssumption
  <1>1. n \in 0..Len(pre) /\ n <= UuidLen /\ (n = UuidLen \/ n = Len(pre))
    <2>1. ASSUME NEW x \in Nat, NEW y \in Nat
          PROVE  Min({x, y}) \in {x, y} /\ Min({x, y}) <= x /\ Min({x, y}) <= y
      <3>1. \E z \in {x, y} : \A e \in {x, y} : z <= e
        <4>1. CASE x <= y
          BY <4>1
        <4>2. CASE ~(x <= y)
          BY <4>2
        <4> QED BY <4>1, <4>2
      <3>2. Min({x, y}) \in {x, y} /\ \A e \in {x, y} : Min({x, y}) <= e
        BY <3>1 DEF Min
      <3> QED BY <3>2
    <2>2. n \in {UuidLen, Len(pre)} /\ n <= UuidLen /\ n <= Len(pre)
      BY <1>0, <2>1
    <2> HIDE DEF n
    <2> QED BY <1>0, <2>2
  <1> HIDE DEF n
  <1>2. p \in Seq(Nat) /\ Len(p) = n /\ \A i \in 1..n : p[i] = pre[i]
    BY <1>1, UptoIs
  <1>3. Extended(p \o w, uuid)
    <2>1. CASE n = Len(pre)
      <3>1. p = pre
        BY <2>1, BehindZero
      <3> QED BY <3>1
    <2>2. CASE n = UuidLen
      <3>1. /\ uuid \in Seq(Nat) /\ \A i \in 1..Len(uuid) : (pre \o w)[i] = uuid[i]
        BY DEF Extended
      <3>2. \A i \in 1..n : (pre \o w)[i] = pre[i] /\ (p \o w)[i] = p[i]
        BY <1>1, <1>2
      <3>3. \A i \in 1..Len(uuid) : (p \o w)[i] = uuid[i]
        BY <1>2, <2>2, <3>1, <3>2, ZenonT(60)
      <3>4. p \o w \in Seq(Nat) /\ Len(uuid) <= Len(p \o w)
        <4>1. Len(p \o w) = Len(p) + Len(w) /\ Len(w) \in Nat /\ p \o w \in Seq(Nat)
          BY <1>2, ConcatParts
        <4> QED BY <1>0, <1>2, <2>2, <4>1
      <3> QED BY <3>1, <3>3, <3>4 DEF Extended
    <2> QED BY <1>1, <2>1, <2>2
  <1>4. p = SubSeq(pre, 1, n)
    BY DEF Upto
  <1> QED BY <1>1, <1>2, <1>3, <1>4 DEF n

---------------------------------------------------------------------------
(***************************************************************************)
(* A write to the VisionStream: PadInto's chunks, or the bytes themselves  *)
(* once the padding is over.                                               *)
(***************************************************************************)
LEMMA MaxBounded ==
    ASSUME NEW N \in Nat, NEW S, S \subseteq 0..N, S # {}
    PROVE  Max(S) \in S
  <1> DEFINE T == {n \in Nat : \A s \in S : s <= n}
  <1>1. N \in T
    OBVIOUS
  <1>2. PICK n \in T : \A m \in T : n <= m
    <2>1. T \subseteq Nat /\ T # {}
      BY <1>1
    <2> HIDE DEF T
    <2> QED BY <2>1, LeastNatural
  <1>3. n \in Nat /\ \A s \in S : s <= n /\ s \in Nat
    BY <1>2
  <1>4. n \in S
    <2> SUFFICES ASSUME n \notin S PROVE FALSE
      OBVIOUS
    <2>1. \A s \in S : s <= n - 1
      BY <1>3
    <2>2. n # 0
      <3>1. PICK s \in S : TRUE
        OBVIOUS
      <3>2. s \in Nat /\ s <= n - 1
        BY <1>3, <2>1
      <3> QED BY <1>3, <3>2
    <2>3. n - 1 \in T
      BY <1>3, <2>1, <2>2
    <2> QED BY <1>2, <1>3, <2>3
  <1>5. \E x \in S : \A y \in S : x >= y
    BY <1>3, <1>4
  <1> QED BY <1>5 DEF Max

LEMMA WriteBegins ==
    ASSUME NEW ts, NEW pd, NEW x, NEW uuid, NEW rs, Padding(ts, pd, x, uuid, rs), pd.fresh
    PROVE  \E w \in Seq(Nat) : FramesOf(ts, pd, x, uuid, rs) = uuid \o w
  <1>1. NewUnpadder \in Unpadders /\ ~NewUnpadder.done /\ ~NewUnpadder.failed /\ NewUnpadder.expectUuid
    BY DEF NewUnpadder, Unpadders
  <1>2. NewUnpadder.expectUuid <=> pd.fresh
    BY <1>1
  <1> HIDE DEF NewUnpadder
  <1>3. PICK v \in Unpadders : ReadBack(ts, pd, x, uuid, rs, NewUnpadder, v)
    BY <1>1, <1>2, WriteAndRead
  <1> QED BY <1>3 DEF ReadBack

\* What the server is asked for, as it reads it.
LEMMA AskingIs ==
    ASSUME TypeInv, Sound
    PROVE  /\ Asking \in Seq(Nat) /\ Len(Asking) \in Nat /\ Whole(Asking) /\ RequestIn(Asking) = AskedFor
           /\ AskedFor \in Asked /\ AskedFor.size = Len(Asking)
           /\ run.want.uuid \in Seq(Nat) /\ Len(run.want.uuid) = UuidLen
  <1>1. run \in Runs
    BY RunFacts
  <1>2. /\ run.want.target \in Destinations /\ Sized(run.want.target)
        /\ run.want.uuid \in Seq(Nat) /\ Len(run.want.uuid) = UuidLen
    BY <1>1, RunIsSound DEF RunSound, Sound
  <1>3. RequiredFlow \in Seq(Nat) /\ Len(RequiredFlow) < 254
    BY WidthsAssumption
  <1>4. Asking = RequestHeader(run.want.uuid, RequiredFlow, run.want.target)
    BY DEF Asking
  <1>5. /\ Asking \in Seq(Nat) /\ Whole(Asking)
        /\ RequestIn(Asking) = [uuid |-> run.want.uuid, flow |-> RequiredFlow,
                                target |-> run.want.target, size |-> Len(Asking)]
    BY <1>2, <1>3, <1>4, HeaderDecoded
  <1>6. Len(Asking) \in Nat
    BY <1>5
  <1>7. RequestIn(Asking) = AskedFor
    BY <1>5 DEF AskedFor
  <1>8. AskedFor \in Asked /\ AskedFor.size = Len(Asking)
    BY <1>2, <1>3, <1>6 DEF AskedFor, Asked
  <1> QED BY <1>2, <1>5, <1>6, <1>7, <1>8

Padders == [padding : BOOLEAN, direct : BOOLEAN, fresh : BOOLEAN]

\* f is what a write of x becomes.
Written(before, x, f) ==
    /\ f \in Seq(Nat) /\ wire' = (wire \o before) \o f /\ wire' \in Seq(Nat)
    /\ traffic' \in SniffStates /\ padder' \in Padders /\ ~padder'.fresh
    /\ largest' \in Nat /\ largest' <= BufSize
    /\ padder.fresh => \E w \in Seq(Nat) : f = run.want.uuid \o w
    /\ \A v \in Unpadders : ~v.failed /\ (v.expectUuid <=> padder.fresh) /\ (v.done <=> ~padder.padding)
                               => Carries(v, f, ~padder'.padding, <<>>, x)

LEMMA VisionWritten ==
    ASSUME TypeInv, ConfigInv, Sound, phase \in {"first", "relay"}, padder.padding \/ ~padder.fresh,
           NEW before \in Seq(Nat), NEW x \in Seq(Nat), x # <<>>, VisionWrites(before, x)
    PROVE  \E f : Written(before, x, f)
  <1> DEFINE p == PacketOf(x)
             ts == Filter(traffic, p)
             uuid == run.want.uuid
  <1>1. Creds.uuid = uuid
    BY CredsKnown DEF Known
  <1>2. uuid \in Seq(Nat) /\ Len(uuid) = UuidLen
    BY AskingIs
  <1>3. /\ traffic \in SniffStates /\ padder \in Padders /\ wire \in Seq(Nat)
        /\ largest \in Nat /\ largest <= BufSize
    BY DEF TypeInv, Padders
  <1>4. traffic' = ts
    BY DEF VisionWrites
  <1>5. ts \in SniffStates
    BY <1>3, PacketSniffed, FilterTyped
  <1>6. padder' = IF padder.padding THEN Padded(ts, padder, p) ELSE padder
    BY <1>4 DEF VisionWrites
  <1>7. PICK r \in Randoms :
           /\ wire' = wire \o before \o FlattenSeq(Framed(x, r))
           /\ largest' = IF padder.padding
                         THEN Max({largest} \cup {Len(Framed(x, r)[i]) : i \in DOMAIN Framed(x, r)})
                         ELSE largest
    BY DEF VisionWrites
  <1> DEFINE rs == [i \in 1..Len(x) |-> r]
             cs == PadInto(ts, padder, x, uuid, rs)
             f == FramesOf(ts, padder, x, uuid, rs)
  <1>8. Framed(x, r) = cs
    BY <1>1 DEF Framed
  <1>9. r \in Nat
    BY WidthsAssumption
  <1>10. rs \in [1..Len(x) -> Nat]
    BY <1>9
  <1> HIDE DEF p, ts, rs, uuid
  <1>11. f = FlattenSeq(cs)
    BY DEF FramesOf
  <1>12. padder.padding => Padding(ts, padder, x, uuid, rs)
    BY <1>2, <1>10 DEF Padding
  <1>13. padder' \in Padders /\ ~padder'.fresh
    <2>1. CASE padder.padding
      <3>1. padder' = Padded(ts, padder, p)
        BY <1>6, <2>1
      <3>2. Padded(ts, padder, p) \in Padders /\ ~Padded(ts, padder, p).fresh
        <4>1. (ts.xtls \in BOOLEAN) /\ padder.direct \in BOOLEAN
          BY <1>3, <1>5 DEF SniffStates, Padders
        <4> DEFINE a == padder.padding /\ ~PaddingEnds(ts, p)
                   b == IF \E i \in DOMAIN p.pieces :
                             /\ InnerDone(ts, p, i)
                             /\ StopAt(ts, p) > 0 => i < StopAt(ts, p)
                        THEN GoesDirect(ts) ELSE padder.direct
        <4>2. a \in BOOLEAN /\ b \in BOOLEAN
          BY <4>1 DEF GoesDirect
        <4>3. Padded(ts, padder, p) = [padding |-> a, direct |-> b, fresh |-> FALSE]
          BY DEF Padded
        <4> HIDE DEF a, b
        <4> QED BY <4>2, <4>3 DEF Padders
      <3> QED BY <3>1, <3>2
    <2>2. CASE ~padder.padding
      BY <1>3, <1>6, <2>2
    <2> QED BY <2>1, <2>2
  <1>14. f \in Seq(Nat)
    <2>1. CASE padder.padding
      <3>1. cs \in Seq(Seq(Nat))
        BY <1>12, <2>1, ChunksFit DEF Fits
      <3> HIDE DEF cs
      <3> QED BY <1>11, <3>1, FlattenTyped
    <2>2. CASE ~padder.padding
      BY <2>2, PlainWrite
    <2> QED BY <2>1, <2>2
  <1>15. largest' \in Nat /\ largest' <= BufSize
    <2>1. CASE padder.padding
      <3> DEFINE S == {largest} \cup {Len(cs[i]) : i \in DOMAIN cs}
      <3>1. \A i \in DOMAIN cs : Len(cs[i]) \in Nat /\ Len(cs[i]) <= BufSize
        BY <1>12, <2>1, ChunksFit DEF Fits
      <3>2. BufSize \in Nat
        BY SizesAssumption
      <3>3. S \subseteq 0..BufSize /\ S # {}
        BY <1>3, <3>1, <3>2
      <3>4. largest' = Max(S)
        BY <1>7, <1>8, <2>1
      <3> HIDE DEF S
      <3>5. Max(S) \in S
        BY <3>2, <3>3, MaxBounded
      <3>6. largest' \in 0..BufSize
        BY <3>3, <3>4, <3>5
      <3> QED BY <3>2, <3>6
    <2>2. CASE ~padder.padding
      BY <1>3, <1>7, <2>2
    <2> QED BY <2>1, <2>2
  <1>16. wire' = (wire \o before) \o f
    BY <1>7, <1>8, <1>11
  <1>17. wire' \in Seq(Nat)
    BY <1>3, <1>14, <1>16, ConcatParts
  <1>18. padder.fresh => \E w \in Seq(Nat) : f = uuid \o w
    <2> SUFFICES ASSUME padder.fresh PROVE \E w \in Seq(Nat) : f = uuid \o w
      OBVIOUS
    <2>1. Padding(ts, padder, x, uuid, rs)
      BY <1>12
    <2>2. \E w \in Seq(Nat) : FramesOf(ts, padder, x, uuid, rs) = uuid \o w
      BY <2>1, WriteBegins, ZenonT(60)
    <2> QED BY <2>2
  <1>19. ASSUME NEW v \in Unpadders, ~v.failed, v.expectUuid <=> padder.fresh, v.done <=> ~padder.padding
         PROVE  Carries(v, f, ~padder'.padding, <<>>, x)
    <2> DEFINE done == ~padder'.padding
    <2>1. done <=> ~(IF padder.padding THEN Padded(ts, padder, PacketOf(x)) ELSE padder).padding
      BY <1>6 DEF p
    <2> HIDE DEF done
    <2>2. padder \in [padding : BOOLEAN, direct : BOOLEAN, fresh : BOOLEAN]
      BY <1>3 DEF Padders
    <2>3. Carries(v, f, done, <<>>, x)
      BY <1>2, <1>10, <1>19, <2>1, <2>2, WriteCarries
    <2> QED BY <2>3 DEF done
  <1> HIDE DEF f
  <1>20. Written(before, x, f)
    BY <1>4, <1>5, <1>13, <1>14, <1>15, <1>16, <1>17, <1>18, <1>19 DEF Written, uuid
  <1> QED BY <1>20

---------------------------------------------------------------------------
(***************************************************************************)
(* UplinkInv in parts.                                                     *)
(***************************************************************************)
Requesting ==
    IF server.req = {}
    THEN /\ DecodeRequest(server.buf) = {} /\ Extended(server.buf \o wire, Asking)
         /\ server.unpadder = NewUnpadder /\ server.data = <<>> /\ server.prefix = <<>>
    ELSE server.req = {AskedFor}
Carrying == Carries(server.unpadder, Outstanding, ~padder.padding, server.data,
                    SubSeq(run.input, run.head + 1, taken))
Prefixed ==
    /\ Len(server.prefix) <= UuidLen
    /\ Extended(server.prefix \o (IF server.req = {} THEN Outstanding ELSE wire), run.want.uuid)
Ending == /\ closed => taken = Len(run.input)
          /\ server.eof => closed /\ wire = <<>>

\* UplinkInv while there is something to write, in parts.
UplinkParts == run.head <= taken /\ Requesting /\ Carrying /\ Prefixed /\ Ending

LEMMA ServerTyped ==
    ASSUME TypeInv
    PROVE  /\ server.unpadder \in Unpadders /\ server.buf \in Seq(Nat) /\ server.prefix \in Seq(Nat)
           /\ server.data \in Seq(Nat) /\ server.req \in SUBSET Asked /\ server.auth \in SUBSET Keys
           /\ server.eof \in BOOLEAN /\ wire \in Seq(Nat) /\ server.buf \o wire \in Seq(Nat)
           /\ padder \in Padders /\ padder.padding \in BOOLEAN
  <1>1. /\ server.unpadder \in Unpadders /\ server.buf \in Seq(Nat) /\ server.prefix \in Seq(Nat)
        /\ server.data \in Seq(Nat) /\ server.req \in SUBSET Asked /\ server.auth \in SUBSET Keys
        /\ server.eof \in BOOLEAN /\ wire \in Seq(Nat)
    BY DEF TypeInv, Servers
  <1>2. padder \in Padders /\ padder.padding \in BOOLEAN
    BY DEF TypeInv, Padders
  <1>3. server.buf \o wire \in Seq(Nat)
    BY <1>1, ConcatParts
  <1> QED BY <1>1, <1>2, <1>3

LEMMA UplinkIs ==
    ASSUME TypeInv, UplinkInv, Sound, ~padder.fresh
    PROVE  UplinkParts /\ Outstanding \in Seq(Nat)
  <1>1. /\ run.head <= taken /\ Requesting /\ Prefixed /\ Ending
        /\ LET rem == Unpad(server.unpadder, Outstanding)
           IN  /\ rem.buf = <<>> /\ ~rem.u.failed /\ ~rem.u.expectUuid
               /\ rem.u.done <=> ~padder.padding
               /\ server.data \o rem.out = SubSeq(run.input, run.head + 1, taken)
    BY DEF UplinkInv, Requesting, Prefixed, Ending
  <1>2. Outstanding \in Seq(Nat)
    <2>1. CASE server.req = {}
      <3> DEFINE s == server.buf \o wire
      <3>1. s \in Seq(Nat) /\ Len(s) \in Nat
        BY ServerTyped
      <3>2. Len(Asking) \in Nat /\ Len(Asking) <= Len(s)
        BY <1>1, <2>1, AskingIs DEF Requesting, Extended
      <3> HIDE DEF s
      <3>3. Behind(s, Len(Asking)) \in Seq(Nat)
        BY <3>1, <3>2, BehindIs
      <3> QED BY <2>1, <3>3 DEF Outstanding, s
    <2>2. CASE server.req # {}
      BY <2>2, ServerTyped DEF Outstanding
    <2> QED BY <2>1, <2>2
  <1>3. Carrying
    <2> DEFINE u == server.unpadder
               o == Outstanding
               done == ~padder.padding
               got == server.data
               data == SubSeq(run.input, run.head + 1, taken)
    <2>1. u \in Unpadders /\ o \in Seq(Nat) /\ done \in BOOLEAN
      BY <1>2, ServerTyped
    <2>2. LET rem == Unpad(u, o)
          IN  /\ rem.buf = <<>> /\ ~rem.u.failed /\ ~rem.u.expectUuid
              /\ rem.u.done <=> done
              /\ got \o rem.out = data
      BY <1>1
    <2> HIDE DEF u, o, done, got, data
    <2>3. Carries(u, o, done, got, data)
      BY <2>1, <2>2, CarriesIs
    <2> QED BY <2>3 DEF Carrying, u, o, done, got, data
  <1> QED BY <1>1, <1>2, <1>3 DEF UplinkParts

LEMMA UplinkWhen ==
    ASSUME TypeInv', phase' \in {"relay", "failed"}, ~padder'.fresh, UplinkParts', Outstanding' \in Seq(Nat)
    PROVE  UplinkInv'
  <1> DEFINE u == server'.unpadder
             o == Outstanding'
             done == ~padder'.padding
             got == server'.data
             data == SubSeq(run'.input, run'.head + 1, taken')
  <1>1. u \in Unpadders /\ o \in Seq(Nat) /\ done \in BOOLEAN
    BY DEF TypeInv, Servers
  <1>2. Carries(u, o, done, got, data)
    BY DEF UplinkParts, Carrying
  <1>3. LET rem == Unpad(u, o)
        IN  /\ rem.buf = <<>> /\ ~rem.u.failed /\ ~rem.u.expectUuid
            /\ rem.u.done <=> done
            /\ got \o rem.out = data
    <2> HIDE DEF u, o, done, got, data
    <2> QED BY <1>1, <1>2, CarriesIs
  <1>4. (run.head <= taken)' /\ Requesting' /\ Prefixed' /\ Ending'
    BY DEF UplinkParts
  <1> QED BY <1>3, <1>4 DEF UplinkInv, Requesting, Prefixed, Ending

---------------------------------------------------------------------------
(***************************************************************************)
(* The pump's writes.                                                      *)
(***************************************************************************)
\* A part of the client's input, and what is read of it next.
LEMMA TakenMore ==
    ASSUME NEW b \in Seq(Nat), NEW k \in Nat, NEW m \in Nat, NEW n \in Nat, k <= m, m < n, n <= Len(b)
    PROVE  /\ SubSeq(b, m + 1, n) \in Seq(Nat) /\ SubSeq(b, m + 1, n) # <<>>
           /\ SubSeq(b, k + 1, n) = SubSeq(b, k + 1, m) \o SubSeq(b, m + 1, n)
  <1>1. SubSeq(b, m + 1, n) \in Seq(Nat) /\ Len(SubSeq(b, m + 1, n)) = n - m
    <2>1. m <= n
      OBVIOUS
    <2> QED BY <2>1, ThreeParts
  <1>2. SubSeq(b, m + 1, n) # <<>>
    <2> DEFINE x == SubSeq(b, m + 1, n)
    <2>1. Len(x) = n - m /\ n - m # 0
      BY <1>1
    <2> HIDE DEF x
    <2>2. x # <<>>
      BY <2>1
    <2> QED BY <2>2 DEF x
  <1>3. SubSeq(b, k + 1, n) = SubSeq(b, k + 1, m) \o SubSeq(b, m + 1, n)
    <2>1. m <= n
      OBVIOUS
    <2> QED BY <2>1, SubSeqJoin
  <1> QED BY <1>1, <1>2, <1>3

LEMMA PumpUpStep ==
    ASSUME IndInv, PumpUp
    PROVE  IndInv'
  <1> DEFINE b == run.input
             x == SubSeq(b, taken + 1, sent)
             L == Len(Asking)
             s == server.buf \o wire
             uuid == run.want.uuid
  <1>1. /\ phase = "relay" /\ taken < sent /\ taken' = sent /\ VisionWrites(<<>>, x)
        /\ UNCHANGED <<run, cfg, phase, sent, server, handshakeVars, closed, downlinkVars>>
    BY DEF PumpUp
  <1>2. TypeInv /\ ConfigInv /\ CauseInv /\ UplinkInv /\ DownlinkInv
    BY DEF IndInv
  <1>3. Sound /\ ~padder.fresh
    BY <1>1, <1>2 DEF ConfigInv, UplinkInv
  <1>4. UplinkParts /\ Outstanding \in Seq(Nat)
    BY <1>2, <1>3, UplinkIs
  <1>5. /\ run.head \in Nat /\ taken \in Nat /\ sent \in Nat /\ sent <= Len(b) /\ b \in Seq(Nat)
        /\ run.head <= taken
    BY <1>2, <1>4, RunFacts DEF TypeInv, UplinkParts
  <1>6. /\ x \in Seq(Nat) /\ x # <<>>
        /\ SubSeq(b, run.head + 1, sent) = SubSeq(b, run.head + 1, taken) \o x
    BY <1>1, <1>5, TakenMore
  <1>7. PICK f : Written(<<>>, x, f)
    <2> HIDE DEF x
    <2>1. <<>> \in Seq(Nat)
      OBVIOUS
    <2>2. phase \in {"first", "relay"} /\ (padder.padding \/ ~padder.fresh)
      BY <1>1, <1>3
    <2> QED BY <1>1, <1>2, <1>3, <1>6, <2>1, <2>2, VisionWritten
  <1>8. server.unpadder \in Unpadders /\ server.buf \in Seq(Nat) /\ wire \in Seq(Nat) /\ s \in Seq(Nat)
        /\ server.data \in Seq(Nat) /\ server.prefix \in Seq(Nat)
    BY <1>2, ServerTyped
  <1>9. f \in Seq(Nat) /\ wire' \in Seq(Nat)
    BY <1>7 DEF Written
  <1>10. wire' = wire \o f
    <2>1. wire \o <<>> = wire
      BY <1>8
    <2> QED BY <1>7, <2>1 DEF Written
  <1> DEFINE d == SubSeq(b, run.head + 1, taken)
  <1> HIDE DEF x, L, s, d
  <1>11. TypeInv'
    BY <1>1, <1>2, <1>5, <1>7 DEF Written, TypeInv, Padders, handshakeVars, downlinkVars
  <1>12. ConfigInv'
    BY <1>1, <1>2, ConfigSound
  <1>13. HandshakeInv' /\ CauseInv' /\ DownlinkInv'
    BY <1>1, <1>2, HandshakeOver, CauseKeeps, DownlinkSame DEF handshakeVars, downlinkVars
  <1>14. Asking' = Asking /\ AskedFor' = AskedFor
    BY <1>1 DEF Asking, AskedFor
  <1>15. server.buf \o wire' = s \o f
    <2> DEFINE a == server.buf
               c == wire
    <2>1. a \in Seq(Nat) /\ c \in Seq(Nat)
      BY <1>8
    <2> HIDE DEF a, c
    <2>2. (a \o c) \o f = a \o (c \o f)
      BY <1>9, <2>1, ConcatBytes
    <2> QED BY <1>10, <2>2 DEF s, a, c
  <1>16. server.req = {} => L \in 0..Len(s) /\ Extended(s, Asking)
    <2> SUFFICES ASSUME server.req = {} PROVE L \in 0..Len(s) /\ Extended(s, Asking)
      OBVIOUS
    <2>1. Extended(s, Asking)
      BY <1>4 DEF UplinkParts, Requesting, s
    <2>2. L \in Nat /\ L <= Len(s) /\ Len(s) \in Nat
      BY <1>2, <1>3, <1>8, <2>1, AskingIs DEF Extended, L
    <2> QED BY <2>1, <2>2
  <1>17. Outstanding' = Outstanding \o f
    <2>1. CASE server.req = {}
      <3>1. Behind(s \o f, L) = Behind(s, L) \o f
        BY <1>8, <1>9, <1>16, <2>1, BehindConcat
      <3>2. Outstanding = Behind(s, L)
        BY <2>1 DEF Outstanding, s, L
      <3>3. Outstanding' = Behind(s \o f, L)
        BY <1>1, <1>14, <1>15, <2>1 DEF Outstanding, L
      <3> QED BY <3>1, <3>2, <3>3
    <2>2. CASE server.req # {}
      <3>1. Outstanding = s
        BY <2>2 DEF Outstanding, s
      <3>2. Outstanding' = s \o f
        BY <1>1, <1>15, <2>2 DEF Outstanding
      <3> QED BY <3>1, <3>2
    <2> QED BY <2>1, <2>2
  <1>18. Outstanding' \in Seq(Nat)
    BY <1>4, <1>9, <1>17, ConcatParts
  <1>19. Requesting'
    <2>1. CASE server.req = {}
      <3>1. Extended(s \o f, s)
        BY <1>8, <1>9, ExtendedConcat
      <3>2. Extended(s \o f, Asking)
        BY <1>16, <2>1, <3>1, ExtendedAgain
      <3> QED
        BY <1>1, <1>4, <1>14, <1>15, <2>1, <3>2 DEF UplinkParts, Requesting
    <2>2. CASE server.req # {}
      BY <1>1, <1>4, <1>14, <2>2 DEF UplinkParts, Requesting
    <2> QED BY <2>1, <2>2
  <1>20. Carrying'
    <2> DEFINE u == server.unpadder
               o == Outstanding
               done == ~padder.padding
               more == ~padder'.padding
               got == server.data
    <2>1. Carries(u, o, done, got, d)
      BY <1>4 DEF UplinkParts, Carrying, d
    <2>2. ASSUME NEW v \in Unpadders, ~v.failed, ~v.expectUuid, v.done <=> done
          PROVE  Carries(v, f, more, <<>>, x)
      BY <1>3, <1>7, <2>2 DEF Written
    <2> HIDE DEF u, o, done, more, got
    <2>3. \A v \in Unpadders : ~v.failed /\ ~v.expectUuid /\ (v.done <=> done) => Carries(v, f, more, <<>>, x)
      BY <2>2
    <2>4. got \in Seq(Nat)
      BY <1>8 DEF got
    <2>5. Carries(u, o \o f, more, got, d \o x)
      BY <1>6, <2>1, <2>3, <2>4, CarriesMore
    <2>6. SubSeq(b, run.head + 1, sent) = d \o x
      BY <1>6 DEF d
    <2> QED BY <1>1, <1>17, <2>5, <2>6 DEF Carrying, u, o, more, got
  <1>21. Prefixed'
    <2>1. Len(server.prefix) <= UuidLen
      BY <1>4 DEF UplinkParts, Prefixed
    <2> DEFINE p == server.prefix
    <2>2. ASSUME NEW w \in Seq(Nat), Extended(p \o w, uuid)
          PROVE  Extended(p \o (w \o f), uuid)
      <3>1. p \o w \in Seq(Nat) /\ p \in Seq(Nat)
        BY <1>8, ConcatParts
      <3>2. Extended((p \o w) \o f, p \o w)
        BY <1>9, <3>1, ExtendedConcat
      <3>3. Extended((p \o w) \o f, uuid)
        BY <2>2, <3>2, ExtendedAgain
      <3>4. (p \o w) \o f = p \o (w \o f)
        BY <1>9, <3>1, ConcatBytes, ZenonT(60)
      <3> QED BY <3>3, <3>4
    <2>3. CASE server.req = {}
      <3>1. Extended(p \o Outstanding, uuid)
        BY <1>4, <2>3 DEF UplinkParts, Prefixed
      <3>2. Extended(p \o (Outstanding \o f), uuid)
        BY <1>4, <2>2, <3>1
      <3> QED BY <1>1, <1>17, <2>1, <2>3, <3>2 DEF Prefixed
    <2>4. CASE server.req # {}
      <3>1. Extended(p \o wire, uuid)
        BY <1>4, <2>4 DEF UplinkParts, Prefixed
      <3>2. Extended(p \o (wire \o f), uuid)
        BY <1>8, <2>2, <3>1
      <3> QED BY <1>1, <1>10, <2>1, <2>4, <3>2 DEF Prefixed
    <2> QED BY <2>3, <2>4
  <1>22. Ending'
    <2>1. ~closed
      <3> SUFFICES ASSUME closed PROVE FALSE
        OBVIOUS
      <3>1. taken = Len(b)
        BY <1>4 DEF UplinkParts, Ending
      <3> QED BY <1>1, <1>5, <3>1
    <2>2. ~server.eof
      BY <1>4, <2>1 DEF UplinkParts, Ending
    <2> QED BY <1>1, <2>1, <2>2 DEF Ending
  <1>23. (run.head <= taken)'
    BY <1>1, <1>5
  <1>24. UplinkParts'
    BY <1>19, <1>20, <1>21, <1>22, <1>23 DEF UplinkParts
  <1>25. ~padder'.fresh
    BY <1>7 DEF Written
  <1>26. UplinkInv'
    BY <1>1, <1>11, <1>18, <1>24, <1>25, UplinkWhen
  <1> QED BY <1>11, <1>12, <1>13, <1>26 DEF IndInv

---------------------------------------------------------------------------
(***************************************************************************)
(* The first write: the request header and the first payload, or a         *)
(* camouflage frame when there is none.                                    *)
(***************************************************************************)
\* What holds when the first payload is waited for.
LEMMA BeforeFirst ==
    ASSUME IndInv, phase = "first"
    PROVE  /\ Sound /\ padder.fresh /\ Untouched /\ taken = run.head /\ Header = Asking
           /\ TypeInv /\ ConfigInv /\ UplinkInv /\ Creds.uuid = run.want.uuid
  <1>1. TypeInv /\ ConfigInv /\ HandshakeInv /\ UplinkInv
    BY DEF IndInv
  <1>2. Sound
    BY <1>1 DEF ConfigInv
  <1>3. padder.fresh /\ Untouched
    BY <1>1 DEF UplinkInv
  <1>4. target \in Destinations /\ Asks(run.input, taken, target)
    BY <1>1 DEF HandshakeInv
  <1>5. run \in Runs /\ run.input \in Seq(Nat)
    BY <1>1, RunFacts
  <1>6. Asks(run.input, run.head, run.want.target) /\ run.want.target \in Destinations
    BY <1>2, <1>5, RunIsSound DEF RunSound, Sound
  <1>7. taken = run.head /\ target = run.want.target
    BY <1>4, <1>5, <1>6, AsksUnique
  <1>8. Creds.uuid = run.want.uuid /\ Creds.flow = RequiredFlow
    BY <1>1, <1>2, CredsKnown DEF Known
  <1>9. Header = Asking
    BY <1>7, <1>8 DEF Header, Asking
  <1> QED BY <1>1, <1>2, <1>3, <1>7, <1>8, <1>9

\* The request header and what is written with it.
FirstWrite(f, x) ==
    /\ f \in Seq(Nat) /\ wire' = Asking \o f /\ \E w \in Seq(Nat) : f = run.want.uuid \o w
    /\ Carries(NewUnpadder, f, ~padder'.padding, <<>>, x)
    /\ SubSeq(run.input, run.head + 1, taken') = x /\ run.head <= taken'
    /\ ~padder'.fresh /\ phase' = "relay" /\ run' = run /\ closed' = closed /\ server' = server

LEMMA FirstWritten ==
    ASSUME IndInv, phase = "first", TypeInv', NEW f, NEW x, FirstWrite(f, x)
    PROVE  UplinkInv'
  <1> DEFINE L == Len(Asking)
             uuid == run.want.uuid
             a == Asking
             s == a \o f
  <1>1. /\ f \in Seq(Nat) /\ wire' = s /\ (\E w \in Seq(Nat) : f = uuid \o w)
        /\ Carries(NewUnpadder, f, ~padder'.padding, <<>>, x)
        /\ SubSeq(run.input, run.head + 1, taken') = x /\ run.head <= taken'
        /\ ~padder'.fresh /\ phase' = "relay" /\ run' = run /\ closed' = closed /\ server' = server
    BY DEF FirstWrite
  <1>2. /\ Sound /\ Untouched /\ TypeInv
    BY BeforeFirst
  <1>3. /\ ~closed /\ server.req = {} /\ server.buf = <<>> /\ server.prefix = <<>>
        /\ server.unpadder = NewUnpadder /\ server.data = <<>> /\ ~server.eof
    BY <1>2 DEF Untouched
  <1>4. a \in Seq(Nat) /\ L = Len(a) /\ uuid \in Seq(Nat) /\ Len(uuid) = UuidLen
    BY <1>2, AskingIs
  <1>5. Asking' = Asking /\ AskedFor' = AskedFor
    BY <1>1 DEF Asking, AskedFor
  <1> HIDE DEF a, L, uuid
  <1>6. s \in Seq(Nat) /\ Extended(s, a) /\ Behind(s, L) = f
    BY <1>1, <1>4, ConcatParts, ExtendedConcat, BehindPrefix
  <1> HIDE DEF s
  <1>7. server'.buf \o wire' = s
    <2>1. <<>> \o s = s
      BY <1>6
    <2> QED BY <1>1, <1>3, <2>1
  <1>8. Outstanding' = f
    BY <1>1, <1>3, <1>5, <1>6, <1>7 DEF Outstanding, L
  <1>9. Requesting'
    <2>1. DecodeRequest(<<>>) = {}
      <3>1. ~Whole(<<>>)
        <4>1. UuidLen \in Nat /\ Len(<<>>) = 0
          BY SizesAssumption
        <4> QED BY <4>1 DEF Whole
      <3>2. <<>> \in Seq(Nat)
        OBVIOUS
      <3> DEFINE e == <<>>
      <3> HIDE DEF e
      <3>3. DecodeRequest(e) = {}
        BY <3>1, <3>2, DecodeIs DEF e
      <3> QED BY <3>3 DEF e
    <2> QED BY <1>1, <1>3, <1>5, <1>6, <1>7, <2>1 DEF Requesting, a
  <1>10. Carrying'
    BY <1>1, <1>3, <1>8 DEF Carrying
  <1>11. Prefixed'
    <2>1. <<>> \o f = f
      BY <1>1
    <2>2. Extended(f, uuid)
      BY <1>1, <1>4, ExtendedConcat
    <2>3. Len(server'.prefix) <= UuidLen
      <3>1. Len(<<>>) = 0 /\ UuidLen \in Nat
        BY SizesAssumption
      <3> QED BY <1>1, <1>3, <3>1
    <2> QED BY <1>1, <1>3, <1>8, <2>1, <2>2, <2>3 DEF Prefixed, uuid
  <1>12. Ending'
    BY <1>1, <1>3 DEF Ending
  <1>13. UplinkParts'
    BY <1>1, <1>9, <1>10, <1>11, <1>12 DEF UplinkParts
  <1> QED BY <1>1, <1>8, <1>13, UplinkWhen

LEMMA NewUnpadderIs ==
    /\ NewUnpadder \in Unpadders /\ ~NewUnpadder.done /\ ~NewUnpadder.failed /\ NewUnpadder.expectUuid
    /\ ~NewUnpadder.direct
  BY DEF NewUnpadder, Unpadders

LEMMA FirstPayloadStep ==
    ASSUME IndInv, FirstPayload
    PROVE  IndInv'
  <1> DEFINE n == Min({MaxFrameContent, sent - taken})
             b == run.input
             x == SubSeq(b, taken + 1, taken + n)
  <1>1. /\ phase = "first" /\ taken < sent /\ taken' = taken + n /\ VisionWrites(Header, x)
        /\ phase' = "relay"
        /\ UNCHANGED <<run, cfg, sent, server, handshakeVars, closed, downlinkVars>>
    BY DEF FirstPayload
  <1>2. /\ Sound /\ padder.fresh /\ Untouched /\ taken = run.head /\ Header = Asking
        /\ TypeInv /\ ConfigInv
    BY <1>1, BeforeFirst
  <1>3. /\ run.head \in Nat /\ taken \in Nat /\ sent \in Nat /\ sent <= Len(b) /\ b \in Seq(Nat)
    BY <1>2, RunFacts DEF TypeInv
  <1>4. n \in Nat /\ n > 0 /\ taken + n <= sent
    <2> DEFINE y == MaxFrameContent
               z == sent - taken
    <2>1. y \in Nat /\ y > 0 /\ z \in Nat /\ z > 0
      BY <1>1, <1>3, ContentNat
    <2> HIDE DEF y, z
    <2>2. Min({y, z}) \in {y, z} /\ \A e \in {y, z} : Min({y, z}) <= e
      <3>1. \E m \in {y, z} : \A e \in {y, z} : m <= e
        <4>1. CASE y <= z
          BY <2>1, <4>1
        <4>2. CASE ~(y <= z)
          BY <2>1, <4>2
        <4> QED BY <4>1, <4>2
      <3> QED BY <3>1 DEF Min
    <2>3. n \in {y, z} /\ n <= z
      BY <2>2 DEF y, z
    <2> HIDE DEF n
    <2> QED BY <1>3, <2>1, <2>3 DEF z
  <1> DEFINE m == taken + n
  <1>5. m \in Nat /\ taken < m /\ m <= sent /\ taken' = m /\ m <= Len(b)
    <2> HIDE DEF n
    <2> QED BY <1>1, <1>3, <1>4
  <1> HIDE DEF n, m
  <1>6. x \in Seq(Nat) /\ x # <<>> /\ x = SubSeq(b, taken + 1, m)
    <2>1. SubSeq(b, taken + 1, m) \in Seq(Nat) /\ SubSeq(b, taken + 1, m) # <<>>
      <3>1. taken <= taken
        BY <1>3
      <3> QED BY <1>3, <1>5, <3>1, TakenMore, SMTT(30)
    <2> QED BY <2>1 DEF m
  <1> HIDE DEF x
  <1>7. Asking \in Seq(Nat)
    BY <1>2, AskingIs
  <1>8. PICK f : Written(Asking, x, f)
    <2>1. padder.padding
      BY <1>2 DEF Untouched, NewPadder
    <2>2. phase \in {"first", "relay"} /\ (padder.padding \/ ~padder.fresh) /\ VisionWrites(Asking, x)
      BY <1>1, <1>2, <2>1
    <2> QED BY <1>2, <1>6, <1>7, <2>2, VisionWritten
  <1>9. /\ f \in Seq(Nat) /\ wire' = (wire \o Asking) \o f /\ ~padder'.fresh
        /\ \E w \in Seq(Nat) : f = run.want.uuid \o w
    BY <1>2, <1>8 DEF Written
  <1>10. wire' = Asking \o f
    <2>1. wire = <<>>
      BY <1>2 DEF Untouched
    <2>2. <<>> \o Asking = Asking
      BY <1>7
    <2> QED BY <1>9, <2>1, <2>2
  <1>11. Carries(NewUnpadder, f, ~padder'.padding, <<>>, x)
    <2>1. padder.padding
      BY <1>2 DEF Untouched, NewPadder
    <2> DEFINE u == NewUnpadder
    <2>2. u \in Unpadders /\ ~u.failed /\ (u.expectUuid <=> padder.fresh) /\ (u.done <=> ~padder.padding)
      BY <1>2, <2>1, NewUnpadderIs
    <2> HIDE DEF u
    <2>3. Carries(u, f, ~padder'.padding, <<>>, x)
      BY <1>8, <2>2 DEF Written
    <2> QED BY <2>3 DEF u
  <1>12. TypeInv'
    <2>1. /\ wire' \in Seq(Nat) /\ traffic' \in SniffStates /\ padder' \in Padders
          /\ largest' \in Nat /\ largest' <= BufSize
      BY <1>8 DEF Written
    <2> QED
      BY <1>1, <1>2, <1>5, <2>1 DEF TypeInv, Padders, handshakeVars, downlinkVars
  <1>13. FirstWrite(f, x)
    <2>1. SubSeq(run.input, run.head + 1, taken') = x /\ run.head <= taken'
      BY <1>2, <1>3, <1>5, <1>6
    <2> QED BY <1>1, <1>9, <1>10, <1>11, <2>1 DEF FirstWrite
  <1>14. UplinkInv'
    BY <1>1, <1>12, <1>13, FirstWritten
  <1>15. ConfigInv'
    BY <1>1, <1>2, ConfigSound
  <1>16. HandshakeInv' /\ CauseInv' /\ DownlinkInv'
    BY <1>1, HandshakeOver, CauseKeeps, DownlinkSame DEF IndInv, handshakeVars, downlinkVars
  <1> QED BY <1>12, <1>14, <1>15, <1>16 DEF IndInv

LEMMA NoPayloadStep ==
    ASSUME IndInv, NoPayload
    PROVE  IndInv'
  <1> DEFINE uuid == run.want.uuid
  <1>1. /\ phase = "first" /\ taken' = taken + LostInTimeout
        /\ padder' = [padder EXCEPT !.fresh = FALSE] /\ phase' = "relay"
        /\ UNCHANGED <<run, cfg, sent, traffic, server, handshakeVars, closed, downlinkVars>>
        /\ \E r \in Randoms :
              LET frame == CamouflageBytes(padder, Creds.uuid, r)
              IN  /\ wire' = Header \o frame
                  /\ largest' = Len(frame)
    BY DEF NoPayload
  <1>2. /\ Sound /\ padder.fresh /\ Untouched /\ taken = run.head /\ Header = Asking
        /\ TypeInv /\ ConfigInv /\ Creds.uuid = uuid
    BY <1>1, BeforeFirst
  <1>3. PICK r \in Randoms : /\ wire' = Header \o CamouflageBytes(padder, Creds.uuid, r)
                             /\ largest' = Len(CamouflageBytes(padder, Creds.uuid, r))
    BY <1>1
  <1>4. /\ run.head \in Nat /\ taken \in Nat /\ run.input \in Seq(Nat) /\ taken' = taken
    BY <1>1, <1>2, RunFacts DEF TypeInv, LostInTimeout
  <1>5. Asking \in Seq(Nat) /\ uuid \in Seq(Nat) /\ Len(uuid) = UuidLen
    BY <1>2, AskingIs
  <1>6. r \in Nat
    BY WidthsAssumption
  <1> DEFINE f == CamouflageBytes(padder, uuid, r)
             u == NewUnpadder
  <1>7. u \in Unpadders /\ ~u.done /\ ~u.failed /\ u.expectUuid
    BY NewUnpadderIs
  <1> HIDE DEF uuid, u
  <1>8. PICK v \in Unpadders : CamouflageRead(uuid, u, f, v)
    BY <1>2, <1>5, <1>6, <1>7, CamouflageIs
  <1>9. wire' = Asking \o f /\ largest' = Len(f)
    BY <1>2, <1>3
  <1> HIDE DEF f
  <1>10. /\ ReadAll(u, f, v, <<>>) /\ ~v.failed /\ ~v.done /\ ~v.expectUuid
         /\ (\E w \in Seq(Nat) : f = uuid \o w) /\ Len(f) \in Nat /\ Len(f) <= BufSize
    BY <1>8 DEF CamouflageRead
  <1>11. f \in Seq(Nat)
    BY <1>10 DEF ReadAll
  <1>12. padder' \in Padders /\ padder'.padding /\ ~padder'.fresh
    BY <1>1, <1>2 DEF Untouched, NewPadder, Padders
  <1>13. TypeInv'
    <2>1. wire' \in Seq(Nat)
      BY <1>5, <1>9, <1>11, ConcatParts
    <2>2. largest' \in Nat /\ largest' <= BufSize
      BY <1>9, <1>10
    <2> QED
      BY <1>1, <1>2, <1>4, <1>12, <2>1, <2>2 DEF TypeInv, Padders, handshakeVars, downlinkVars
  <1>14. Carries(NewUnpadder, f, ~padder'.padding, <<>>, <<>>)
    <2> DEFINE e == <<>>
    <2>1. e \o e = e /\ e \in Seq(Nat)
      OBVIOUS
    <2>2. ReadAll(u, f, v, e) /\ ~v.failed /\ ~v.expectUuid /\ (v.done <=> ~padder'.padding)
      BY <1>10, <1>12
    <2> HIDE DEF e
    <2>3. Carries(u, f, ~padder'.padding, e, e)
      BY <2>1, <2>2 DEF Carries
    <2> QED BY <2>3 DEF e, u
  <1>15. FirstWrite(f, <<>>)
    <2>1. SubSeq(run.input, run.head + 1, taken') = <<>>
      <3>1. \A k \in Nat : SubSeq(run.input, k + 1, k) = <<>>
        BY <1>4
      <3> QED BY <1>2, <1>4, <3>1
    <2>2. run.head <= taken'
      BY <1>2, <1>4
    <2> QED
      BY <1>1, <1>9, <1>10, <1>11, <1>12, <1>14, <2>1, <2>2 DEF FirstWrite, uuid
  <1>16. UplinkInv'
    BY <1>1, <1>13, <1>15, FirstWritten
  <1>17. ConfigInv'
    BY <1>1, <1>2, ConfigSound
  <1>18. HandshakeInv' /\ CauseInv' /\ DownlinkInv'
    BY <1>1, HandshakeOver, CauseKeeps, DownlinkSame DEF IndInv, handshakeVars, downlinkVars
  <1> QED BY <1>13, <1>16, <1>17, <1>18 DEF IndInv

---------------------------------------------------------------------------
(***************************************************************************)
(* The server reads: any part of the wire, before, within and behind the   *)
(* request.                                                                *)
(***************************************************************************)
\* The server's next bytes: all of what it has not made frames of yet.
Reading(n, all) ==
    /\ n \in Nat /\ n <= Len(wire) /\ all = server.buf \o Upto(wire, n)
    /\ wire' = Behind(wire, n)
    /\ UNCHANGED <<run, cfg, phase, sent, taken, traffic, handshakeVars, padder, closed,
                   largest, downlinkVars>>

\* What it makes of rest, with the first bytes behind the request so far.
Took(rest, pre, found) ==
    server' = [server EXCEPT !.req = found, !.buf = Unpad(server.unpadder, rest).buf,
                             !.unpadder = Unpad(server.unpadder, rest).u,
                             !.data = @ \o Unpad(server.unpadder, rest).out,
                             !.prefix = SubSeq(pre, 1, Min({UuidLen, Len(pre)}))]

LEMMA ServerReadsIs ==
    ASSUME ServerReads, TypeInv
    PROVE  \E n, all :
              /\ Reading(n, all) /\ wire # <<>>
              /\ \/ server.req = {} /\ DecodeRequest(all) = {} /\ server' = [server EXCEPT !.buf = all]
                 \/ /\ server.req = {} /\ DecodeRequest(all) # {}
                    /\ LET rest == Behind(all, (CHOOSE q \in DecodeRequest(all) : TRUE).size)
                       IN  Took(rest, server.prefix \o rest, DecodeRequest(all))
                 \/ server.req # {} /\ Took(all, server.prefix \o Upto(wire, n), server.req)
  <1>1. wire \in Seq(Nat) /\ Len(wire) \in Nat
    BY ServerTyped
  <1>2. wire # <<>>
    BY DEF ServerReads
  <1>3. Len(wire) # 0
    BY <1>1, <1>2
  <1>4. PICK n \in {1, Len(wire)} :
          LET all == server.buf \o SubSeq(wire, 1, n)
              found == IF server.req = {} THEN DecodeRequest(all) ELSE server.req
              rest == IF server.req = {} /\ found # {}
                      THEN SubSeq(all, (CHOOSE q \in found : TRUE).size + 1, Len(all))
                      ELSE all
              new == IF server.req = {} THEN rest ELSE SubSeq(wire, 1, n)
              pre == server.prefix \o new
              got == Unpad(server.unpadder, rest)
          IN  /\ wire' = SubSeq(wire, n + 1, Len(wire))
              /\ server' = IF found = {} THEN [server EXCEPT !.buf = all]
                           ELSE [server EXCEPT !.req = found, !.buf = got.buf,
                                               !.unpadder = got.u, !.data = @ \o got.out,
                                               !.prefix = SubSeq(pre, 1, Min({UuidLen, Len(pre)}))]
    BY DEF ServerReads
  <1>5. n \in Nat /\ n <= Len(wire)
    BY <1>1, <1>3
  <1> DEFINE all == server.buf \o Upto(wire, n)
  <1>6. Reading(n, all)
    BY <1>4, <1>5 DEF Reading, Upto, Behind, ServerReads
  <1>7. CASE server.req = {} /\ DecodeRequest(all) = {}
    <2>1. server' = [server EXCEPT !.buf = all]
      BY <1>4, <1>7 DEF Upto
    <2> QED BY <1>2, <1>6, <1>7, <2>1
  <1>8. CASE server.req = {} /\ DecodeRequest(all) # {}
    <2> DEFINE rest == Behind(all, (CHOOSE q \in DecodeRequest(all) : TRUE).size)
    <2>1. Took(rest, server.prefix \o rest, DecodeRequest(all))
      BY <1>4, <1>8 DEF Upto, Behind, Took
    <2> QED BY <1>2, <1>6, <1>8, <2>1
  <1>9. CASE server.req # {}
    <2>1. Took(all, server.prefix \o Upto(wire, n), server.req)
      BY <1>4, <1>9 DEF Upto, Took
    <2> QED BY <1>2, <1>6, <1>9, <2>1
  <1> QED BY <1>7, <1>8, <1>9

\* All that is on the way to the server.
LEMMA ReadingParts ==
    ASSUME TypeInv, NEW n, NEW all, Reading(n, all)
    PROVE  /\ all \in Seq(Nat) /\ wire' \in Seq(Nat) /\ all \o wire' = server.buf \o wire
           /\ Upto(wire, n) \in Seq(Nat) /\ wire = Upto(wire, n) \o wire'
  <1> DEFINE a == server.buf
             w == wire
             p == Upto(w, n)
             q == Behind(w, n)
  <1>1. a \in Seq(Nat) /\ w \in Seq(Nat) /\ Len(w) \in Nat
    BY ServerTyped
  <1>2. n \in 0..Len(w) /\ all = a \o p /\ wire' = q
    BY <1>1 DEF Reading
  <1> HIDE DEF a, w
  <1>3. p \in Seq(Nat) /\ q \in Seq(Nat) /\ p \o q = w
    BY <1>1, <1>2, UptoIs, BehindIs, CutInTwo
  <1> HIDE DEF p, q
  <1>4. (a \o p) \o q = a \o (p \o q)
    BY <1>1, <1>3, ConcatBytes, ZenonT(60)
  <1>5. a \o p \in Seq(Nat)
    BY <1>1, <1>3, ConcatParts
  <1>6. all \o wire' = a \o w
    BY <1>2, <1>3, <1>4
  <1> QED BY <1>2, <1>3, <1>5, <1>6 DEF a, w, p

\* What ServerReads leaves alone.
LEMMA ReadingKeeps ==
    ASSUME IndInv, NEW n, NEW all, Reading(n, all), server' \in Servers, server'.auth = server.auth
    PROVE  TypeInv' /\ ConfigInv' /\ HandshakeInv' /\ CauseInv' /\ DownlinkInv'
  <1>1. UNCHANGED <<run, cfg, phase, sent, taken, traffic, handshakeVars, padder, closed,
                    largest, downlinkVars>>
    BY DEF Reading
  <1>2. wire' \in Seq(Nat)
    BY ReadingParts DEF IndInv
  <1>3. TypeInv'
    BY <1>1, <1>2 DEF IndInv, TypeInv, handshakeVars, downlinkVars
  <1>4. ConfigInv' /\ HandshakeInv' /\ CauseInv' /\ DownlinkInv'
    BY <1>1, ConfigSame, HandshakeSame, CauseKeeps, DownlinkSame DEF IndInv, handshakeVars, downlinkVars, CauseInv
  <1> QED BY <1>3, <1>4

LEMMA TookTyped ==
    ASSUME TypeInv, NEW rest \in Seq(Nat), NEW pre \in Seq(Nat), NEW found \in SUBSET Asked,
           Took(rest, pre, found)
    PROVE  /\ server' \in Servers /\ server'.auth = server.auth /\ server'.eof = server.eof
           /\ server'.req = found
           /\ server'.buf = Unpad(server.unpadder, rest).buf
           /\ server'.unpadder = Unpad(server.unpadder, rest).u
           /\ server'.data = server.data \o Unpad(server.unpadder, rest).out
           /\ server'.prefix = SubSeq(pre, 1, Min({UuidLen, Len(pre)}))
  <1> DEFINE r == Unpad(server.unpadder, rest)
             p == SubSeq(pre, 1, Min({UuidLen, Len(pre)}))
             d == server.data \o r.out
  <1>1. server \in Servers /\ server.unpadder \in Unpadders /\ server.data \in Seq(Nat)
    BY ServerTyped DEF TypeInv
  <1>2. r \in Readings
    <2> DEFINE s == [u |-> server.unpadder, buf |-> rest, out |-> <<>>]
    <2>1. s \in Readings
      BY <1>1 DEF Readings
    <2>2. r = Final(s)
      BY <1>1, UnpadIsFinal
    <2> QED BY <2>1, <2>2, FinalStuck
  <1>3. server' = [server EXCEPT !.req = found, !.buf = r.buf, !.unpadder = r.u, !.data = d,
                                 !.prefix = p]
    BY DEF Took
  <1>4. p \in Seq(Nat)
    <2> DEFINE none == <<>>
    <2>1. none \in Seq(Nat) /\ pre \o none = pre
      OBVIOUS
    <2>2. \E k \in 0..Len(pre) : p = Upto(pre, k)
      <3> DEFINE a == UuidLen
                 b == Len(pre)
      <3>1. a \in Nat /\ b \in Nat
        BY SizesAssumption
      <3> HIDE DEF a, b
      <3>2. \E z \in {a, b} : \A e \in {a, b} : z <= e
        <4>1. CASE a <= b
          BY <3>1, <4>1
        <4>2. CASE ~(a <= b)
          BY <3>1, <4>2
        <4> QED BY <4>1, <4>2
      <3>3. Min({a, b}) \in {a, b} /\ \A e \in {a, b} : Min({a, b}) <= e
        BY <3>2 DEF Min
      <3>4. Min({a, b}) \in 0..b
        BY <3>1, <3>3
      <3> QED BY <3>4 DEF Upto, a, b
    <2>3. PICK k \in 0..Len(pre) : p = Upto(pre, k)
      BY <2>2
    <2> HIDE DEF p
    <2> QED BY <2>3, UptoIs
  <1> HIDE DEF r, p
  <1>5. r.u \in Unpadders /\ r.buf \in Seq(Nat) /\ r.out \in Seq(Nat)
    BY <1>2 DEF Readings
  <1>6. d \in Seq(Nat)
    BY <1>1, <1>5, ConcatParts
  <1> HIDE DEF d
  <1>7. /\ server' \in Servers /\ server'.auth = server.auth /\ server'.eof = server.eof
        /\ server'.req = found /\ server'.buf = r.buf /\ server'.unpadder = r.u /\ server'.data = d
        /\ server'.prefix = p
    BY <1>1, <1>3, <1>4, <1>5, <1>6 DEF Servers
  <1> QED BY <1>7 DEF r, p, d

---------------------------------------------------------------------------
(***************************************************************************)
(* The server's reads keep the uplink.                                     *)
(***************************************************************************)
LEMMA ReadingState ==
    ASSUME IndInv, wire # <<>>
    PROVE  /\ TypeInv /\ ConfigInv /\ UplinkInv /\ Sound /\ ~padder.fresh
           /\ phase \in {"relay", "failed"} /\ UplinkParts /\ Outstanding \in Seq(Nat) /\ ~server.eof
  <1>1. TypeInv /\ ConfigInv /\ UplinkInv
    BY DEF IndInv
  <1>2. ~padder.fresh
    BY <1>1 DEF UplinkInv, Untouched
  <1>3. Sound
    BY <1>1, <1>2 DEF ConfigInv
  <1>4. UplinkParts /\ Outstanding \in Seq(Nat)
    BY <1>1, <1>2, <1>3, UplinkIs
  <1>5. ~server.eof
    BY <1>4 DEF UplinkParts, Ending
  <1> QED BY <1>1, <1>2, <1>3, <1>4, <1>5 DEF UplinkInv

\* The request is not there to its end.
LEMMA ReadsNoRequest ==
    ASSUME IndInv, wire # <<>>, NEW n, NEW all, Reading(n, all), server.req = {},
           DecodeRequest(all) = {}, server' = [server EXCEPT !.buf = all]
    PROVE  IndInv'
  <1>1. /\ TypeInv /\ Sound /\ ~padder.fresh
        /\ phase \in {"relay", "failed"} /\ UplinkParts /\ Outstanding \in Seq(Nat) /\ ~server.eof
    BY ReadingState
  <1>2. all \in Seq(Nat) /\ wire' \in Seq(Nat) /\ all \o wire' = server.buf \o wire
    BY <1>1, ReadingParts
  <1>3. server \in Servers
    BY <1>1 DEF TypeInv
  <1>4. /\ server' \in Servers /\ server'.auth = server.auth /\ server'.eof = server.eof
        /\ server'.req = {} /\ server'.buf = all /\ server'.unpadder = server.unpadder
        /\ server'.data = server.data /\ server'.prefix = server.prefix
    BY <1>2, <1>3 DEF Servers
  <1>5. TypeInv' /\ ConfigInv' /\ HandshakeInv' /\ CauseInv' /\ DownlinkInv'
    BY <1>4, ReadingKeeps
  <1>6. /\ run' = run /\ phase' = phase /\ taken' = taken /\ padder' = padder /\ closed' = closed
    BY DEF Reading
  <1>7. Asking' = Asking /\ AskedFor' = AskedFor
    BY <1>6 DEF Asking, AskedFor
  <1>8. Outstanding' = Outstanding
    <2> DEFINE s == server.buf \o wire
               t == server'.buf \o wire'
    <2>1. t = s
      BY <1>2, <1>4
    <2>2. Outstanding = Behind(s, Len(Asking))
      BY DEF Outstanding
    <2>3. Outstanding' = Behind(t, Len(Asking))
      BY <1>4, <1>7 DEF Outstanding
    <2> HIDE DEF s, t
    <2> QED BY <2>1, <2>2, <2>3
  <1>9. Requesting'
    BY <1>1, <1>2, <1>4, <1>7 DEF UplinkParts, Requesting
  <1>10. Carrying'
    BY <1>1, <1>4, <1>6, <1>8 DEF UplinkParts, Carrying
  <1>11. Prefixed'
    BY <1>1, <1>4, <1>6, <1>8 DEF UplinkParts, Prefixed
  <1>12. Ending'
    BY <1>1, <1>4, <1>6 DEF UplinkParts, Ending
  <1>13. UplinkParts'
    BY <1>1, <1>6, <1>9, <1>10, <1>11, <1>12 DEF UplinkParts
  <1>14. UplinkInv'
    BY <1>1, <1>5, <1>6, <1>8, <1>13, UplinkWhen
  <1> QED BY <1>5, <1>14 DEF IndInv

\* Unpadding all that has arrived behind the request.
LEMMA ReadsFrames ==
    ASSUME IndInv, wire # <<>>, NEW n, NEW all, Reading(n, all),
           NEW rest \in Seq(Nat), NEW pre \in Seq(Nat), Outstanding = rest \o wire',
           Extended(pre \o wire', run.want.uuid), Took(rest, pre, {AskedFor})
    PROVE  IndInv'
  <1> DEFINE u == server.unpadder
             r == Unpad(u, rest)
             done == ~padder.padding
             got == server.data
             data == SubSeq(run.input, run.head + 1, taken)
             uuid == run.want.uuid
             p == SubSeq(pre, 1, Min({UuidLen, Len(pre)}))
             w == wire'
  <1>1. /\ TypeInv /\ Sound /\ ~padder.fresh
        /\ phase \in {"relay", "failed"} /\ UplinkParts /\ Outstanding \in Seq(Nat) /\ ~server.eof
    BY ReadingState
  <1>2. w \in Seq(Nat)
    BY <1>1, ReadingParts
  <1>3. {AskedFor} \in SUBSET Asked /\ uuid \in Seq(Nat) /\ Len(uuid) = UuidLen
    BY <1>1, AskingIs
  <1>4. /\ server' \in Servers /\ server'.auth = server.auth /\ server'.eof = server.eof
        /\ server'.req = {AskedFor} /\ server'.buf = r.buf /\ server'.unpadder = r.u
        /\ server'.data = got \o r.out /\ server'.prefix = p
    BY <1>1, <1>3, TookTyped
  <1>5. TypeInv' /\ ConfigInv' /\ HandshakeInv' /\ CauseInv' /\ DownlinkInv'
    BY <1>4, ReadingKeeps
  <1>6. /\ run' = run /\ phase' = phase /\ taken' = taken /\ padder' = padder /\ closed' = closed
    BY DEF Reading
  <1>7. Asking' = Asking /\ AskedFor' = AskedFor
    BY <1>6 DEF Asking, AskedFor
  <1>8. u \in Unpadders /\ got \in Seq(Nat)
    BY <1>1, ServerTyped
  <1>9. Carries(u, rest \o w, done, got, data)
    BY <1>1 DEF UplinkParts, Carrying
  <1>10. Carries(r.u, r.buf \o w, done, got \o r.out, data) /\ r \in Readings
    <2> HIDE DEF u, done, got, data, w
    <2> QED BY <1>2, <1>8, <1>9, CarriesOn
  <1>11. Outstanding' = r.buf \o w
    BY <1>4 DEF Outstanding
  <1>12. Outstanding' \in Seq(Nat)
    <2>1. r.buf \in Seq(Nat)
      <3> HIDE DEF r
      <3> QED BY <1>10 DEF Readings
    <2> HIDE DEF r, w
    <2> QED BY <1>2, <1>11, <2>1, ConcatParts
  <1>13. Requesting'
    BY <1>4, <1>7 DEF Requesting
  <1>14. Carrying'
    BY <1>4, <1>6, <1>10, <1>11 DEF Carrying
  <1>15. Len(p) <= UuidLen /\ Extended(p \o w, uuid)
    <2> HIDE DEF w, uuid
    <2>1. Extended(pre \o w, uuid)
      BY DEF w, uuid
    <2> QED BY <1>2, <1>3, <2>1, PrefixKept
  <1>16. Prefixed'
    <2> HIDE DEF p
    <2> QED BY <1>4, <1>6, <1>15 DEF Prefixed
  <1>17. Ending'
    BY <1>1, <1>4, <1>6 DEF UplinkParts, Ending
  <1>18. UplinkParts'
    BY <1>1, <1>6, <1>13, <1>14, <1>16, <1>17 DEF UplinkParts
  <1>19. UplinkInv'
    BY <1>1, <1>5, <1>6, <1>12, <1>18, UplinkWhen
  <1> QED BY <1>5, <1>19 DEF IndInv

\* The request is what was asked for, and all of it.
LEMMA ReadsRequest ==
    ASSUME IndInv, wire # <<>>, NEW n, NEW all, Reading(n, all), server.req = {},
           DecodeRequest(all) # {}
    PROVE  DecodeRequest(all) = {AskedFor} /\ Len(Asking) \in 0..Len(all)
  <1> DEFINE s == server.buf \o wire
  <1>1. /\ TypeInv /\ Sound /\ UplinkParts
    BY ReadingState
  <1>2. all \in Seq(Nat) /\ wire' \in Seq(Nat) /\ all \o wire' = s
    BY <1>1, ReadingParts
  <1>3. /\ Asking \in Seq(Nat) /\ Len(Asking) \in Nat /\ Whole(Asking) /\ RequestIn(Asking) = AskedFor
        /\ AskedFor.size = Len(Asking)
    BY <1>1, AskingIs
  <1>4. Extended(s, Asking)
    BY <1>1 DEF UplinkParts, Requesting
  <1>5. Extended(s, all)
    BY <1>2, ExtendedConcat
  <1>6. Whole(all) /\ DecodeRequest(all) = {RequestIn(all)}
    BY <1>2, DecodeIs
  <1> HIDE DEF s
  <1>7. RequestIn(s) = RequestIn(all) /\ RequestIn(s) = AskedFor
    BY <1>2, <1>3, <1>4, <1>5, <1>6, WholeExtended
  <1>8. RequestIn(all) = AskedFor
    BY <1>7
  <1>9. RequestIn(all).size = RequestEnd(all)
    BY DEF RequestIn
  <1>10. RequestEnd(all) \in Nat /\ RequestEnd(all) <= Len(all) /\ Len(all) \in Nat
    BY <1>2, <1>6, WholeNat
  <1>11. Len(Asking) = RequestEnd(all)
    BY <1>3, <1>8, <1>9
  <1>12. Len(Asking) \in 0..Len(all)
    BY <1>3, <1>10, <1>11
  <1> QED BY <1>6, <1>8, <1>12

LEMMA ServerReadsStep ==
    ASSUME IndInv, ServerReads
    PROVE  IndInv'
  <1>1. TypeInv
    BY DEF IndInv
  <1>2. PICK n, all :
              /\ Reading(n, all) /\ wire # <<>>
              /\ \/ server.req = {} /\ DecodeRequest(all) = {} /\ server' = [server EXCEPT !.buf = all]
                 \/ /\ server.req = {} /\ DecodeRequest(all) # {}
                    /\ LET rest == Behind(all, (CHOOSE q \in DecodeRequest(all) : TRUE).size)
                       IN  Took(rest, server.prefix \o rest, DecodeRequest(all))
                 \/ server.req # {} /\ Took(all, server.prefix \o Upto(wire, n), server.req)
    BY <1>1, ServerReadsIs
  <1>3. /\ Sound /\ UplinkParts /\ Outstanding \in Seq(Nat)
    BY <1>2, ReadingState
  <1>4. /\ all \in Seq(Nat) /\ wire' \in Seq(Nat) /\ all \o wire' = server.buf \o wire
        /\ Upto(wire, n) \in Seq(Nat) /\ wire = Upto(wire, n) \o wire'
    BY <1>1, <1>2, ReadingParts
  <1>5. server.prefix \in Seq(Nat)
    BY <1>1, ServerTyped
  <1>6. CASE server.req = {} /\ DecodeRequest(all) = {}
    <2>1. server' = [server EXCEPT !.buf = all]
      BY <1>2, <1>6
    <2> QED BY <1>2, <1>6, <2>1, ReadsNoRequest
  <1>7. CASE server.req = {} /\ DecodeRequest(all) # {}
    <2> DEFINE L == Len(Asking)
               rest == Behind(all, L)
               w == wire'
    <2>1. DecodeRequest(all) = {AskedFor} /\ L \in 0..Len(all)
      BY <1>2, <1>7, ReadsRequest
    <2>2. (CHOOSE q \in DecodeRequest(all) : TRUE) = AskedFor
      BY <2>1
    <2>3. AskedFor.size = L
      BY <1>1, <1>3, AskingIs
    <2>4. Took(rest, server.prefix \o rest, {AskedFor})
      BY <1>2, <1>7, <2>1, <2>2, <2>3
    <2>5. server.prefix = <<>>
      BY <1>3, <1>7 DEF UplinkParts, Requesting
    <2> HIDE DEF L
    <2>6. rest \in Seq(Nat) /\ Behind(all \o w, L) = rest \o w
      <3> HIDE DEF w
      <3> QED BY <1>4, <2>1, BehindIs, BehindConcat DEF w
    <2>7. Outstanding = rest \o w
      BY <1>4, <1>7, <2>6 DEF Outstanding, L
    <2> HIDE DEF rest, w
    <2>8. <<>> \o rest = rest
      BY <2>6
    <2>9. Extended(rest \o w, run.want.uuid)
      <3>1. Extended(<<>> \o Outstanding, run.want.uuid)
        BY <1>3, <1>7, <2>5 DEF UplinkParts, Prefixed
      <3>2. <<>> \o Outstanding = Outstanding
        BY <1>3
      <3> QED BY <2>7, <3>1, <3>2
    <2>10. Took(rest, rest, {AskedFor})
      BY <2>4, <2>5, <2>8
    <2> QED BY <1>2, <2>6, <2>7, <2>9, <2>10, ReadsFrames DEF w
  <1>8. CASE server.req # {}
    <2> DEFINE pre == server.prefix \o Upto(wire, n)
    <2>1. Took(all, pre, server.req) /\ server.req = {AskedFor}
      BY <1>2, <1>3, <1>8 DEF UplinkParts, Requesting
    <2>2. pre \in Seq(Nat)
      BY <1>4, <1>5, ConcatParts
    <2>3. Outstanding = all \o wire'
      BY <1>4, <1>8 DEF Outstanding
    <2>4. Extended(pre \o wire', run.want.uuid)
      <3>1. Extended(server.prefix \o wire, run.want.uuid)
        BY <1>3, <1>8 DEF UplinkParts, Prefixed
      <3> DEFINE a == server.prefix
                 b == Upto(wire, n)
                 c == wire'
                 d == wire
      <3>2. a \in Seq(Nat) /\ b \in Seq(Nat) /\ c \in Seq(Nat) /\ d = b \o c
        BY <1>4, <1>5
      <3> HIDE DEF a, b, c, d
      <3>3. (a \o b) \o c = a \o (b \o c)
        BY <3>2, ConcatBytes
      <3>4. a \o d = (a \o b) \o c
        BY <3>2, <3>3
      <3>5. Extended(a \o d, run.want.uuid)
        BY <3>1 DEF a, d
      <3>6. Extended((a \o b) \o c, run.want.uuid)
        BY <3>4, <3>5
      <3> QED BY <3>6 DEF a, b, c
    <2>5. Took(all, pre, {AskedFor})
      BY <2>1
    <2> HIDE DEF pre
    <2> QED BY <1>2, <1>4, <2>2, <2>3, <2>4, <2>5, ReadsFrames
  <1> QED BY <1>2, <1>6, <1>7, <1>8

---------------------------------------------------------------------------
(***************************************************************************)
(* The downlink: the response header (Feed) and what is behind it, in      *)
(* parts.                                                                  *)
(***************************************************************************)
Feeds == [done : BOOLEAN, buf : Seq(Nat), failed : BOOLEAN]

LEMMA FeedDone ==
    ASSUME NEW c \in Seq(Nat)
    PROVE  Feed(TRUE, c) = [done |-> TRUE, buf |-> c, failed |-> FALSE]
  BY DEF Feed

\* The response header: not there to its end, of another version, or there.
HeaderEnd(b) == 2 + b[2]
Short(b) == Len(b) < 2 \/ (~(Len(b) < 2) /\ b[1] = 0 /\ Len(b) < HeaderEnd(b))
Wrong(b) == ~(Len(b) < 2) /\ b[1] # 0
Headed(b) == ~(Len(b) < 2) /\ b[1] = 0 /\ ~(Len(b) < HeaderEnd(b))

FedShort(f, b) == f = [done |-> FALSE, buf |-> b, failed |-> FALSE]
FedWrong(f, b) == f = [done |-> FALSE, buf |-> b, failed |-> TRUE]
FedBehind(f, c) == f = [done |-> TRUE, buf |-> c, failed |-> FALSE]

LEMMA FedFields ==
    ASSUME NEW f, NEW b
    PROVE  /\ FedShort(f, b) => ~f.done /\ ~f.failed /\ f.buf = b
           /\ FedWrong(f, b) => ~f.done /\ f.failed /\ f.buf = b
           /\ FedBehind(f, b) => f.done /\ ~f.failed /\ f.buf = b
  BY DEF FedShort, FedWrong, FedBehind

LEMMA FeedShort ==
    ASSUME NEW b \in Seq(Nat), Short(b)
    PROVE  FedShort(Feed(FALSE, b), b)
  <1>1. CASE Len(b) < 2
    BY <1>1 DEF Feed, FedShort
  <1>2. CASE ~(Len(b) < 2) /\ b[1] = 0 /\ Len(b) < HeaderEnd(b)
    BY <1>2 DEF Feed, HeaderEnd, FedShort
  <1> QED BY <1>1, <1>2 DEF Short

LEMMA WrongFeed ==
    ASSUME NEW X, NEW b \in X
    PROVE  [[done |-> FALSE, buf |-> b, failed |-> FALSE] EXCEPT !.failed = TRUE]
             = [done |-> FALSE, buf |-> b, failed |-> TRUE]
  <1> DEFINE s == [done |-> FALSE, buf |-> b, failed |-> FALSE]
             t == [s EXCEPT !.failed = TRUE]
             R == [done : BOOLEAN, buf : X, failed : BOOLEAN]
  <1>1. s \in R /\ s.done = FALSE /\ s.buf = b
    OBVIOUS
  <1> HIDE DEF s
  <1>2. t \in R /\ t.done = s.done /\ t.buf = s.buf /\ t.failed = TRUE
    BY <1>1
  <1> HIDE DEF t
  <1>3. t = [done |-> t.done, buf |-> t.buf, failed |-> t.failed]
    BY <1>2
  <1> QED BY <1>1, <1>2, <1>3 DEF t, s

LEMMA FeedWrong ==
    ASSUME NEW b \in Seq(Nat), Wrong(b)
    PROVE  FedWrong(Feed(FALSE, b), b)
  <1> DEFINE same == [done |-> FALSE, buf |-> b, failed |-> FALSE]
  <1>1. Feed(FALSE, b) = [same EXCEPT !.failed = TRUE]
    BY DEF Feed, Wrong
  <1>2. [same EXCEPT !.failed = TRUE] = [done |-> FALSE, buf |-> b, failed |-> TRUE]
    BY WrongFeed
  <1> QED BY <1>1, <1>2 DEF FedWrong

LEMMA FeedBehind ==
    ASSUME NEW b \in Seq(Nat), Headed(b)
    PROVE  FedBehind(Feed(FALSE, b), Behind(b, HeaderEnd(b))) /\ HeaderEnd(b) \in 0..Len(b)
  <1>1. Len(b) \in Nat /\ b[2] \in Nat /\ ~(Len(b) < 2) /\ b[1] = 0 /\ ~(Len(b) < 2 + b[2])
    BY DEF Headed, HeaderEnd
  <1>2. 3 + b[2] = HeaderEnd(b) + 1
    BY <1>1 DEF HeaderEnd
  <1>3. Feed(FALSE, b) = [done |-> TRUE, buf |-> SubSeq(b, 3 + b[2], Len(b)), failed |-> FALSE]
    BY <1>1 DEF Feed
  <1>4. HeaderEnd(b) \in 0..Len(b)
    BY <1>1 DEF HeaderEnd
  <1> QED BY <1>2, <1>3, <1>4 DEF Behind, FedBehind

LEMMA FeedKinds == \A b \in Seq(Nat) : Short(b) \/ Wrong(b) \/ Headed(b)
  BY DEF Short, Wrong, Headed

LEMMA FeedTyped ==
    ASSUME NEW b \in Seq(Nat)
    PROVE  /\ Feed(FALSE, b) \in Feeds
           /\ ~Feed(FALSE, b).done => Feed(FALSE, b).buf = b
           /\ Feed(FALSE, b).done => ~Feed(FALSE, b).failed
  <1> DEFINE f == Feed(FALSE, b)
             c == Behind(b, HeaderEnd(b))
  <1>1. FedShort(f, b) \/ FedWrong(f, b) \/ (FedBehind(f, c) /\ c \in Seq(Nat))
    <2>1. CASE Short(b)
      BY <2>1, FeedShort
    <2>2. CASE Wrong(b)
      BY <2>2, FeedWrong
    <2>3. CASE Headed(b)
      BY <2>3, FeedBehind, BehindIs
    <2> QED BY <2>1, <2>2, <2>3, FeedKinds
  <1> HIDE DEF f, c
  <1>2. f \in Feeds
    <2>1. CASE FedShort(f, b)
      BY <2>1 DEF FedShort, Feeds
    <2>2. CASE FedWrong(f, b)
      BY <2>2 DEF FedWrong, Feeds
    <2>3. CASE FedBehind(f, c) /\ c \in Seq(Nat)
      BY <2>3 DEF FedBehind, Feeds
    <2> QED BY <1>1, <2>1, <2>2, <2>3
  <1>3. (~f.done => f.buf = b) /\ (f.done => ~f.failed)
    BY <1>1, FedFields
  <1> QED BY <1>2, <1>3 DEF f

LEMMA FeedMore ==
    ASSUME NEW b \in Seq(Nat), NEW x \in Seq(Nat)
    PROVE  /\ Feed(FALSE, b).failed => Feed(FALSE, b \o x).failed
           /\ Feed(FALSE, b).done => FedBehind(Feed(FALSE, b \o x), Feed(FALSE, b).buf \o x)
  <1> DEFINE s == b \o x
             m == HeaderEnd(b)
             f == Feed(FALSE, b)
             g == Feed(FALSE, s)
  <1>1. /\ s \in Seq(Nat) /\ Len(s) = Len(b) + Len(x) /\ Len(b) \in Nat /\ Len(x) \in Nat
        /\ \A i \in 1..Len(b) : s[i] = b[i]
    BY ConcatParts
  <1> HIDE DEF s
  <1>2. CASE Short(b)
    <2>1. FedShort(f, b)
      BY <1>2, FeedShort
    <2> HIDE DEF f
    <2>2. ~f.done /\ ~f.failed
      BY <2>1, FedFields
    <2> QED BY <2>2 DEF f
  <1>3. CASE Wrong(b)
    <2>1. FedWrong(f, b)
      BY <1>3, FeedWrong
    <2>2. Wrong(s)
      <3>1. 1 \in 1..Len(b) /\ ~(Len(s) < 2) /\ b[1] # 0
        BY <1>1, <1>3 DEF Wrong
      <3>2. s[1] = b[1]
        BY <1>1, <3>1
      <3> QED BY <3>1, <3>2 DEF Wrong
    <2>3. FedWrong(g, s)
      BY <1>1, <2>2, FeedWrong
    <2> HIDE DEF f, g
    <2>4. ~f.done /\ g.failed
      BY <2>1, <2>3, FedFields
    <2> QED BY <2>4 DEF f, g, s
  <1>4. CASE Headed(b)
    <2> DEFINE c == Behind(b, m)
    <2>1. FedBehind(f, c) /\ m \in 0..Len(b)
      BY <1>4, FeedBehind
    <2>2. ~(Len(b) < 2) /\ b[1] = 0 /\ ~(Len(b) < m)
      BY <1>4 DEF Headed
    <2>3. s[1] = b[1] /\ s[2] = b[2] /\ ~(Len(s) < 2)
      <3>1. 1 \in 1..Len(b) /\ 2 \in 1..Len(b) /\ ~(Len(s) < 2)
        BY <1>1, <2>2
      <3> QED BY <1>1, <3>1
    <2>4. HeaderEnd(s) = m
      BY <2>3 DEF HeaderEnd
    <2> HIDE DEF m
    <2>5. ~(Len(s) < m)
      BY <1>1, <2>1
    <2>6. Headed(s)
      <3>1. s[1] = 0
        BY <2>2, <2>3
      <3>2. ~(Len(s) < HeaderEnd(s))
        BY <2>4, <2>5
      <3> QED BY <2>3, <3>1, <3>2 DEF Headed
    <2>7. FedBehind(g, Behind(s, m))
      BY <1>1, <2>4, <2>6, FeedBehind
    <2>8. Behind(s, m) = c \o x
      BY <2>1, BehindConcat DEF s
    <2> HIDE DEF f, g, c
    <2>9. f.buf = c /\ ~f.failed
      BY <2>1, FedFields
    <2> QED BY <2>7, <2>8, <2>9 DEF f, g, s
  <1> QED BY <1>2, <1>3, <1>4, FeedKinds

LEMMA UnpadTyped ==
    ASSUME NEW u \in Unpadders, NEW c \in Seq(Nat)
    PROVE  Unpad(u, c) \in Readings
  <1> DEFINE r == [u |-> u, buf |-> c, out |-> <<>>]
  <1>1. r \in Readings
    BY DEF Readings
  <1> HIDE DEF r
  <1>2. Final(r) \in Readings
    BY <1>1, FinalStuck
  <1> QED BY <1>2, UnpadIsFinal DEF r

\* A reader that failed stays so.
LEMMA UnpadFailed ==
    ASSUME NEW u \in Unpadders, u.failed, NEW c \in Seq(Nat)
    PROVE  Unpad(u, c).u.failed
  <1> DEFINE r == [u |-> u, buf |-> c, out |-> <<>>]
  <1>1. r \in Readings /\ r.u.failed
    BY DEF Readings
  <1> HIDE DEF r
  <1>2. Final(r) = r
    BY <1>1, TurnFailed, FinalSame
  <1>3. Unpad(u, c) = r
    BY <1>2, UnpadIsFinal DEF r
  <1> QED BY <1>1, <1>3

LEMMA AnswerFailsMore ==
    ASSUME NEW b \in Seq(Nat), NEW x \in Seq(Nat), AnswerFails(b)
    PROVE  AnswerFails(b \o x)
  <1> DEFINE fed == Feed(FALSE, b)
             u == NewUnpadder
             c == fed.buf
             r == Unpad(u, c)
             q == Unpad(r.u, r.buf \o x)
  <1>1. CASE fed.failed
    <2>1. Feed(FALSE, b \o x).failed
      BY <1>1, FeedMore
    <2> QED BY <2>1 DEF AnswerFails
  <1>2. CASE fed.done /\ r.u.failed
    <2> DEFINE g == Feed(FALSE, b \o x)
    <2>1. g.done /\ g.buf = c \o x
      <3>1. FedBehind(g, c \o x)
        BY <1>2, FeedMore
      <3> HIDE DEF g, c
      <3> QED BY <3>1, FedFields
    <2>2. c \in Seq(Nat) /\ u \in Unpadders
      BY FeedTyped, NewUnpadderIs DEF Feeds
    <2> HIDE DEF fed, u, c, g
    <2>3. r \in Readings /\ q \in Readings /\ Unpad(u, c \o x) = Prepend(r.out, q)
      BY <2>2, UnpadInParts
    <2>4. r.u \in Unpadders /\ r.buf \o x \in Seq(Nat)
      <3> HIDE DEF r
      <3>1. r.u \in Unpadders /\ r.buf \in Seq(Nat)
        BY <2>3 DEF Readings
      <3> QED BY <3>1, ConcatParts
    <2>5. q.u.failed
      <3> HIDE DEF r
      <3> QED BY <1>2, <2>4, UnpadFailed
    <2>6. Unpad(u, c \o x).u = q.u
      <3> HIDE DEF r, q
      <3> QED BY <2>3 DEF Prepend
    <2>7. Unpad(u, c \o x).u.failed
      BY <2>5, <2>6
    <2> QED BY <2>1, <2>7 DEF AnswerFails, u, g
  <1> QED BY <1>1, <1>2 DEF AnswerFails

---------------------------------------------------------------------------
(***************************************************************************)
(* Understood, what the client's reader makes of a part of the answer,     *)
(* with more behind it.                                                    *)
(***************************************************************************)
\* What the reader makes of an answer that starts with b: c is left, d is delivered.
Understood(b, h, c, u, d) ==
    LET fed == Feed(FALSE, b)
    IN  /\ ~AnswerFails(b) /\ h = fed.done
        /\ IF fed.done
           THEN Unpad(NewUnpadder, fed.buf) = [u |-> u, buf |-> c, out |-> d]
           ELSE c = b /\ u = NewUnpadder /\ d = <<>>

\* One read of x more.
Reread(fed, got, h, c, u, x) ==
    /\ fed = Feed(h, c \o x)
    /\ got = IF fed.done THEN Unpad(u, fed.buf) ELSE [u |-> u, buf |-> fed.buf, out |-> <<>>]

UnderstoodNext(fed, got, b, x, d) ==
    /\ fed.done \in BOOLEAN /\ got \in Readings
    /\ fed.failed \/ got.u.failed => AnswerFails(b \o x)
    /\ ~(fed.failed \/ got.u.failed) => Understood(b \o x, fed.done, got.buf, got.u, d \o got.out)

\* Reading on from what was read gives what reading from the start does.
MoreFrames(q, fed, d) ==
    LET rest == Unpad(NewUnpadder, fed.buf)
    IN  /\ q \in Readings /\ fed.done /\ ~fed.failed
        /\ rest.u = q.u /\ rest = [u |-> q.u, buf |-> q.buf, out |-> d \o q.out]

LEMMA FramesMore ==
    ASSUME NEW b \in Seq(Nat), NEW x \in Seq(Nat), NEW c \in Seq(Nat), NEW d \in Seq(Nat),
           NEW u \in Unpadders, Feed(FALSE, b).done, Understood(b, TRUE, c, u, d)
    PROVE  MoreFrames(Unpad(u, c \o x), Feed(FALSE, b \o x), d)
  <1> DEFINE f == Feed(FALSE, b)
             v == NewUnpadder
             e == f.buf
             r == Unpad(v, e)
             q == Unpad(u, c \o x)
             g == Feed(FALSE, b \o x)
  <1>1. r = [u |-> u, buf |-> c, out |-> d]
    BY DEF Understood
  <1>2. e \in Seq(Nat) /\ v \in Unpadders
    BY FeedTyped, NewUnpadderIs DEF Feeds
  <1>3. g.done /\ ~g.failed /\ g.buf = e \o x
    <2>1. FedBehind(g, e \o x)
      BY FeedMore
    <2> HIDE DEF g, e
    <2> QED BY <2>1, FedFields
  <1> HIDE DEF f, v, e, g
  <1>4. /\ Unpad(r.u, r.buf \o x) \in Readings
        /\ Unpad(v, e \o x) = Prepend(r.out, Unpad(r.u, r.buf \o x))
    BY <1>2, UnpadInParts
  <1>5. r.u = u /\ r.buf = c /\ r.out = d
    <2> HIDE DEF r
    <2> QED BY <1>1
  <1> HIDE DEF r
  <1>6. q \in Readings /\ Unpad(v, e \o x) = Prepend(d, q)
    BY <1>4, <1>5
  <1> DEFINE rest == Unpad(v, g.buf)
             o == d \o q.out
  <1>7. rest = Prepend(d, q)
    BY <1>3, <1>6
  <1> HIDE DEF rest, q
  <1>8. rest = [u |-> q.u, buf |-> q.buf, out |-> o]
    BY <1>7 DEF Prepend
  <1> HIDE DEF o
  <1>9. rest.u = q.u
    BY <1>8
  <1> QED BY <1>3, <1>6, <1>8, <1>9 DEF MoreFrames, rest, q, o, g, v

\* The client's reader, given more of the answer behind what it has
\* consumed, understands what it would have from all of it at once:
\* VisionStream's poll_read over any cut of the response header and of the
\* frames.
THEOREM UnderstoodMore ==
    ASSUME NEW b \in Seq(Nat), NEW x \in Seq(Nat), NEW h, NEW c \in Seq(Nat), NEW d \in Seq(Nat),
           NEW u \in Unpadders, Understood(b, h, c, u, d),
           NEW fed, NEW got, Reread(fed, got, h, c, u, x)
    PROVE  UnderstoodNext(fed, got, b, x, d)
  <1> DEFINE s == b \o x
             f == Feed(FALSE, b)
             g == Feed(FALSE, s)
  <1>1. s \in Seq(Nat) /\ c \o x \in Seq(Nat)
    BY ConcatParts
  <1>2. ~AnswerFails(b) /\ h = f.done
    BY DEF Understood
  <1>3. f \in Feeds /\ g \in Feeds
    BY <1>1, FeedTyped
  <1>4. CASE f.done
    <2> DEFINE q == Unpad(u, c \o x)
               rest == Unpad(NewUnpadder, g.buf)
    <2>1. f.done = TRUE
      BY <1>3, <1>4 DEF Feeds
    <2>2. Understood(b, TRUE, c, u, d)
      BY <1>2, <2>1
    <2>3. /\ q \in Readings /\ g.done /\ ~g.failed
          /\ rest.u = q.u /\ rest = [u |-> q.u, buf |-> q.buf, out |-> d \o q.out]
      <3>1. MoreFrames(q, g, d)
        BY <1>4, <2>2, FramesMore
      <3> HIDE DEF q, g
      <3> QED BY <3>1 DEF MoreFrames
    <2>4. fed = [done |-> TRUE, buf |-> c \o x, failed |-> FALSE]
      BY <1>1, <1>2, <2>1, FeedDone DEF Reread
    <2> DEFINE y == c \o x
    <2> HIDE DEF y
    <2>5. fed.done = TRUE /\ ~fed.failed /\ fed.buf = y
      BY <2>4 DEF y
    <2>6. got = q
      BY <2>5 DEF Reread, y
    <2>7. AnswerFails(s) <=> q.u.failed
      <3> HIDE DEF q, rest, s
      <3>1. AnswerFails(s) <=> (g.failed \/ (g.done /\ rest.u.failed))
        BY DEF AnswerFails, rest
      <3> QED BY <2>3, <3>1
    <2> HIDE DEF q
    <2>8. ~q.u.failed => Understood(s, TRUE, q.buf, q.u, d \o q.out)
      <3> SUFFICES ASSUME ~q.u.failed PROVE Understood(s, TRUE, q.buf, q.u, d \o q.out)
        OBVIOUS
      <3>1. g.done = TRUE
        BY <1>3, <2>3 DEF Feeds
      <3> QED BY <2>3, <2>7, <3>1 DEF Understood
    <2> HIDE DEF s
    <2>9. fed.done \in BOOLEAN /\ got \in Readings
      BY <2>3, <2>5, <2>6
    <2>10. ~fed.failed /\ fed.done = TRUE /\ got = q
      BY <2>5, <2>6
    <2> QED BY <2>7, <2>8, <2>9, <2>10 DEF UnderstoodNext, s
  <1>5. CASE ~f.done
    <2>1. c = b /\ u = NewUnpadder /\ d = <<>> /\ h = FALSE
      BY <1>2, <1>3, <1>5 DEF Understood, Feeds
    <2>2. fed = g
      BY <2>1 DEF Reread
    <2> HIDE DEF s
    <2>3. CASE g.done
      <3> DEFINE q == Unpad(NewUnpadder, g.buf)
      <3>1. got = q
        BY <2>1, <2>2, <2>3 DEF Reread
      <3>2. q \in Readings
        BY <1>3, UnpadTyped, NewUnpadderIs DEF Feeds
      <3>3. ~g.failed /\ g.done = TRUE
        BY <1>1, <1>3, <2>3, FeedTyped DEF Feeds
      <3>4. AnswerFails(s) <=> q.u.failed
        <4>1. AnswerFails(s) <=> (g.failed \/ (g.done /\ q.u.failed))
          BY DEF AnswerFails
        <4> HIDE DEF q, g
        <4> QED BY <3>3, <4>1
      <3>5. <<>> \o q.out = q.out /\ q = [u |-> q.u, buf |-> q.buf, out |-> q.out]
        <4> HIDE DEF q
        <4>1. q.out \in Seq(Nat)
          BY <3>2 DEF Readings
        <4> QED BY <3>2, <4>1, ReadingIs
      <3>6. ~q.u.failed => Understood(s, TRUE, q.buf, q.u, d \o q.out)
        <4> SUFFICES ASSUME ~q.u.failed PROVE Understood(s, TRUE, q.buf, q.u, d \o q.out)
          OBVIOUS
        <4>1. ~AnswerFails(s) /\ Feed(FALSE, s).done = TRUE
          BY <3>3, <3>4
        <4>2. Unpad(NewUnpadder, Feed(FALSE, s).buf) = [u |-> q.u, buf |-> q.buf, out |-> d \o q.out]
          BY <2>1, <3>5
        <4> HIDE DEF q
        <4> QED BY <4>1, <4>2 DEF Understood
      <3> HIDE DEF q, g
      <3> QED BY <2>2, <3>1, <3>2, <3>3, <3>4, <3>6 DEF UnderstoodNext, s
    <2>4. CASE ~g.done
      <3>1. g.buf = s
        BY <1>1, <2>4, FeedTyped
      <3>2. got = [u |-> NewUnpadder, buf |-> s, out |-> <<>>]
        BY <2>1, <2>2, <2>4, <3>1 DEF Reread
      <3>3. got \in Readings
        BY <1>1, <3>2, NewUnpadderIs DEF Readings
      <3>4. got.u = NewUnpadder /\ got.buf = s /\ got.out = <<>> /\ ~got.u.failed
        BY <3>2, NewUnpadderIs
      <3>5. AnswerFails(s) <=> g.failed
        BY <2>4 DEF AnswerFails
      <3>6. g.done = FALSE
        BY <1>3, <2>4 DEF Feeds
      <3>7. d \o got.out = <<>>
        <4>1. <<>> \o <<>> = <<>>
          OBVIOUS
        <4> QED BY <2>1, <3>4, <4>1
      <3>8. ~g.failed => Understood(s, FALSE, s, NewUnpadder, <<>>)
        <4> SUFFICES ASSUME ~g.failed PROVE Understood(s, FALSE, s, NewUnpadder, <<>>)
          OBVIOUS
        <4>1. ~AnswerFails(s)
          BY <3>5
        <4> QED BY <3>6, <4>1 DEF Understood
      <3> HIDE DEF g
      <3> QED
        BY <2>2, <3>3, <3>4, <3>5, <3>6, <3>7, <3>8 DEF UnderstoodNext, s
    <2> QED BY <2>3, <2>4
  <1> QED BY <1>4, <1>5

---------------------------------------------------------------------------
(***************************************************************************)
(* The client's reads keep DownlinkInv.                                    *)
(***************************************************************************)
Answered == SubSeq(run.answer, 1, reader.at)

LEMMA DownlinkIs ==
    DownlinkInv <=> /\ Understood(Answered, reader.header, reader.buf, reader.unpadder, received)
                    /\ ended => reader.at = Len(run.answer)
  BY DEF DownlinkInv, Understood, Answered

LEMMA UplinkFailed ==
    ASSUME UplinkInv, run' = run, phase = "relay", phase' \in {"relay", "failed"}, taken' = taken,
           padder' = padder, wire' = wire, closed' = closed, server' = server
    PROVE  UplinkInv'
  BY DEF UplinkInv, Untouched, Outstanding, Asking, AskedFor

\* What a read gets of the answer.
LEMMA FreshIs ==
    ASSUME TypeInv, Reads
    PROVE  /\ Answered \in Seq(Nat) /\ Fresh \in Seq(Nat) /\ Answered \o Fresh = SubSeq(run.answer, 1, answered)
           /\ reader.buf \in Seq(Nat) /\ reader.unpadder \in Unpadders /\ received \in Seq(Nat)
           /\ reader.at \in Nat /\ answered \in Nat /\ reader.at < answered /\ answered <= Len(run.answer)
           /\ run.answer \in Seq(Nat)
  <1> DEFINE s == run.answer
             k == reader.at
  <1>1. s \in Seq(Nat) /\ Len(s) \in Nat
    BY RunFacts
  <1>2. /\ reader \in Readers /\ reader.buf \in Seq(Nat) /\ reader.unpadder \in Unpadders
        /\ received \in Seq(Nat)
        /\ k \in Nat /\ answered \in Nat /\ k < answered /\ answered <= Len(s)
    BY DEF TypeInv, Readers, Reads
  <1> HIDE DEF s, k
  <1>3. k <= answered /\ k \in 0..Len(s)
    BY <1>1, <1>2
  <1>4. Upto(s, answered) = Upto(s, k) \o SubSeq(s, k + 1, answered) /\ SubSeq(s, k + 1, answered) \in Seq(Nat)
    BY <1>1, <1>2, <1>3, ThreeParts, ZenonT(60)
  <1>5. Upto(s, k) \in Seq(Nat)
    BY <1>1, <1>3, UptoIs
  <1> QED BY <1>1, <1>2, <1>4, <1>5 DEF Upto, Answered, Fresh, s, k

\* The rest of the answer does not help one that is wrong already.
LEMMA WrongAnswer ==
    ASSUME TypeInv, Reads, AnswerFails(Answered \o Fresh)
    PROVE  run.fault = "server"
  <1> DEFINE s == run.answer
             a == Upto(s, answered)
             b == Behind(s, answered)
  <1>1. s \in Seq(Nat) /\ Len(s) \in Nat /\ answered \in 0..Len(s) /\ AnswerFails(a)
    <2>1. /\ Answered \o Fresh = SubSeq(run.answer, 1, answered) /\ answered \in Nat
          /\ answered <= Len(run.answer) /\ run.answer \in Seq(Nat)
      BY FreshIs
    <2>2. a = Answered \o Fresh
      BY <2>1 DEF Upto
    <2>3. AnswerFails(a)
      BY <2>2
    <2> QED BY <2>1, <2>3
  <1> HIDE DEF s
  <1>2. a \in Seq(Nat) /\ b \in Seq(Nat) /\ a \o b = s
    BY <1>1, UptoIs, BehindIs, CutInTwo
  <1> HIDE DEF a, b
  <1>3. AnswerFails(a \o b)
    BY <1>1, <1>2, AnswerFailsMore
  <1>4. AnswerFails(s)
    BY <1>2, <1>3
  <1>5. AnswerFails(run.answer) <=> run.fault = "server"
    BY RunFacts DEF RunOK
  <1> QED BY <1>4, <1>5 DEF s

LEMMA SniffTyped ==
    ASSUME TypeInv, NEW out \in Seq(Nat), Sniff(out)
    PROVE  traffic' \in SniffStates
  <1>1. traffic \in SniffStates
    BY DEF TypeInv
  <1>2. Filter(traffic, PacketOf(out)) \in SniffStates
    BY <1>1, PacketSniffed, FilterTyped
  <1> QED BY <1>1, <1>2 DEF Sniff

\* What a read that succeeds makes of the reader.
Delivered(r, out) ==
    /\ reader' = r /\ r \in Readers /\ r.at = answered
    /\ out \in Seq(Nat) /\ received' = received \o out
    /\ Understood(Answered \o Fresh, r.header, r.buf, r.unpadder, received \o out)
    /\ traffic' \in SniffStates /\ phase' = phase
    /\ UNCHANGED <<run, cfg, sent, taken, server, handshakeVars, uplinkVars, answered, ended>>

LEMMA DeliveredStep ==
    ASSUME IndInv, Reads, NEW r, NEW out, Delivered(r, out)
    PROVE  IndInv'
  <1>1. /\ reader' = r /\ r \in Readers /\ r.at = answered
        /\ out \in Seq(Nat) /\ received' = received \o out
        /\ Understood(Answered \o Fresh, r.header, r.buf, r.unpadder, received \o out)
        /\ traffic' \in SniffStates /\ phase' = phase
        /\ UNCHANGED <<run, cfg, sent, taken, server, handshakeVars, uplinkVars, answered, ended>>
    BY DEF Delivered
  <1>2. TypeInv /\ DownlinkInv
    BY DEF IndInv
  <1>3. /\ Answered \o Fresh = SubSeq(run.answer, 1, answered) /\ received \in Seq(Nat)
        /\ reader.at \in Nat /\ answered \in Nat /\ reader.at < answered /\ answered <= Len(run.answer)
        /\ run.answer \in Seq(Nat)
    BY <1>2, FreshIs
  <1>4. received' \in Seq(Nat) /\ reader'.at <= answered
    BY <1>1, <1>3, ConcatParts
  <1>5. TypeInv'
    BY <1>1, <1>2, <1>3, <1>4 DEF TypeInv, handshakeVars, uplinkVars
  <1>6. ConfigInv' /\ HandshakeInv' /\ CauseInv'
    BY <1>1, ConfigSame, HandshakeSame, CauseKeeps DEF IndInv, handshakeVars, uplinkVars, CauseInv
  <1>7. UplinkInv'
    BY <1>1, UplinkSame DEF IndInv, uplinkVars
  <1>8. DownlinkInv'
    <2>1. Answered' = Answered \o Fresh
      BY <1>1, <1>3 DEF Answered
    <2>2. ~ended
      <3>1. Len(run.answer) \in Nat /\ (ended => reader.at = Len(run.answer))
        BY <1>2, <1>3, DownlinkIs
      <3> QED BY <1>3, <3>1
    <2>3. Understood(Answered', reader'.header, reader'.buf, reader'.unpadder, received')
      BY <1>1, <2>1
    <2>4. LET b == SubSeq(run'.answer, 1, reader'.at) IN
            Understood(b, reader'.header, reader'.buf, reader'.unpadder, received')
      BY <2>3 DEF Answered
    <2> QED BY <1>1, <2>2, <2>4 DEF DownlinkInv, Understood
  <1> QED BY <1>5, <1>6, <1>7, <1>8 DEF IndInv

LEMMA PaddedReadStep ==
    ASSUME IndInv, PaddedRead
    PROVE  IndInv'
  <1> DEFINE x == Fresh
             h == reader.header
             c == reader.buf
             u == reader.unpadder
             fed == Feed(h, c \o x)
             got == IF fed.done THEN Unpad(u, fed.buf) ELSE [u |-> u, buf |-> fed.buf, out |-> <<>>]
             bad == fed.failed \/ got.u.failed
             b == Answered
  <1>1. /\ Reads
        /\ IF bad
           THEN phase' = "failed" /\ UNCHANGED <<reader, received, traffic>>
           ELSE /\ reader' = [at |-> answered, header |-> fed.done, buf |-> got.buf,
                              unpadder |-> got.u]
                /\ Deliver(got.out)
                /\ Sniff(got.out)
                /\ UNCHANGED phase
        /\ UNCHANGED <<run, cfg, sent, taken, server, handshakeVars, uplinkVars, answered, ended>>
    BY DEF PaddedRead
  <1>2. TypeInv /\ DownlinkInv /\ ConfigInv /\ UplinkInv /\ HandshakeInv /\ CauseInv
    BY DEF IndInv
  <1>3. /\ b \in Seq(Nat) /\ x \in Seq(Nat) /\ c \in Seq(Nat) /\ u \in Unpadders /\ received \in Seq(Nat)
        /\ answered \in Nat
    BY <1>1, <1>2, FreshIs
  <1>4. Understood(b, h, c, u, received)
    BY <1>2, DownlinkIs
  <1>5. Reread(fed, got, h, c, u, x)
    BY DEF Reread
  <1> HIDE DEF x, h, c, u, fed, got, b
  <1>6. UnderstoodNext(fed, got, b, x, received)
    BY <1>3, <1>4, <1>5, UnderstoodMore
  <1>7. CASE bad
    <2>1. phase = "relay" /\ phase' = "failed" /\ UNCHANGED <<reader, received, traffic>>
      BY <1>1, <1>7 DEF Reads
    <2>2. AnswerFails(b \o x)
      BY <1>6, <1>7 DEF UnderstoodNext
    <2>3. run.fault = "server"
      BY <1>1, <1>2, <2>2, WrongAnswer DEF b, x
    <2>4. TypeInv'
      BY <1>1, <1>2, <2>1 DEF TypeInv, handshakeVars, uplinkVars
    <2>5. ConfigInv'
      BY <1>1, <1>2, <2>1, ConfigSound
    <2>6. run.fault # "none"
      BY <2>3
    <2>7. HandshakeInv' /\ CauseInv'
      BY <1>1, <1>2, <2>1, <2>6, HandshakeOver, CauseKeeps DEF handshakeVars
    <2>8. UplinkInv' /\ DownlinkInv'
      BY <1>1, <1>2, <2>1, UplinkFailed, DownlinkSame DEF uplinkVars
    <2> QED BY <2>4, <2>5, <2>7, <2>8 DEF IndInv
  <1>8. CASE ~bad
    <2> DEFINE r == [at |-> answered, header |-> fed.done, buf |-> got.buf, unpadder |-> got.u]
               out == got.out
    <2>1. /\ reader' = r /\ Deliver(out) /\ Sniff(out) /\ phase' = phase
      BY <1>1, <1>8
    <2>2. /\ fed.done \in BOOLEAN /\ got \in Readings
          /\ Understood(b \o x, fed.done, got.buf, got.u, received \o out)
      BY <1>6, <1>8 DEF UnderstoodNext
    <2>3. got.u \in Unpadders /\ got.buf \in Seq(Nat) /\ out \in Seq(Nat)
      BY <2>2 DEF Readings
    <2>4. r \in Readers
      BY <1>3, <2>2, <2>3 DEF Readers
    <2>5. traffic' \in SniffStates
      BY <1>2, <2>1, <2>3, SniffTyped
    <2>6. received' = received \o out
      BY <2>1 DEF Deliver
    <2>7. Understood(b \o x, r.header, r.buf, r.unpadder, received \o out) /\ r.at = answered
      BY <2>2
    <2> HIDE DEF r, out
    <2>8. Delivered(r, out)
      BY <1>1, <2>1, <2>3, <2>4, <2>5, <2>6, <2>7 DEF Delivered, b, x
    <2> QED BY <1>1, <2>8, DeliveredStep
  <1> QED BY <1>7, <1>8

LEMMA PlainReadStep ==
    ASSUME IndInv, PlainRead
    PROVE  IndInv'
  <1> DEFINE x == Fresh
             u == reader.unpadder
             b == Answered
             fed == Feed(FALSE, b)
             r == [reader EXCEPT !.at = answered]
             e == <<>>
  <1>1. /\ Reads /\ u.done /\ reader.buf = e /\ reader' = r /\ Deliver(x)
        /\ IF u.direct THEN UNCHANGED traffic ELSE Sniff(x)
        /\ UNCHANGED <<run, cfg, phase, sent, taken, server, handshakeVars, uplinkVars, answered, ended>>
    BY DEF PlainRead
  <1>2. TypeInv /\ DownlinkInv
    BY DEF IndInv
  <1>3. /\ b \in Seq(Nat) /\ x \in Seq(Nat) /\ u \in Unpadders /\ received \in Seq(Nat)
        /\ answered \in Nat
    BY <1>1, <1>2, FreshIs
  <1>4. Understood(b, reader.header, e, u, received)
    BY <1>1, <1>2, DownlinkIs
  <1>5. reader \in Readers
    BY <1>2 DEF TypeInv
  <1>6. /\ r \in Readers /\ r.at = answered /\ r.header = reader.header /\ r.buf = reader.buf
        /\ r.unpadder = u
    BY <1>3, <1>5 DEF Readers
  <1>7. traffic' \in SniffStates
    BY <1>1, <1>2, <1>3, SniffTyped DEF TypeInv
  <1>8. received' = received \o x
    BY <1>1 DEF Deliver
  <1>9. /\ ~AnswerFails(b) /\ reader.header = fed.done /\ fed.done
        /\ Unpad(NewUnpadder, fed.buf) = [u |-> u, buf |-> e, out |-> received]
    BY <1>1, <1>4, NewUnpadderIs DEF Understood
  <1>10. ~u.failed
    <2> DEFINE q == Unpad(NewUnpadder, fed.buf)
    <2>1. ~q.u.failed
      BY <1>9 DEF AnswerFails
    <2>2. q = [u |-> u, buf |-> e, out |-> received]
      BY <1>9
    <2> HIDE DEF q, u, e
    <2>3. q.u = u
      BY <2>2
    <2> QED BY <2>1, <2>3
  <1>11. Unpad(u, e \o x) = [u |-> u, buf |-> e, out |-> x]
    <2>1. e \o x = x
      BY <1>3
    <2>2. Unpad(u, x) = [u |-> u, buf |-> e, out |-> x]
      BY <1>1, <1>3, <1>10, UnpadPlain
    <2> QED BY <2>1, <2>2
  <1>12. fed.done = TRUE
    BY <1>3, <1>9, FeedTyped DEF Feeds
  <1> DEFINE fed2 == Feed(TRUE, e \o x)
             got2 == [u |-> u, buf |-> e, out |-> x]
  <1>13. e \in Seq(Nat) /\ e \o x = x
    BY <1>3
  <1>14. fed2 = [done |-> TRUE, buf |-> x, failed |-> FALSE]
    BY <1>3, <1>13, FeedDone
  <1>15. fed2.done /\ fed2.done = TRUE /\ fed2.buf = x /\ ~fed2.failed
    <2> HIDE DEF fed2
    <2> QED BY <1>14
  <1>16. got2 = IF fed2.done THEN Unpad(u, fed2.buf) ELSE [u |-> u, buf |-> fed2.buf, out |-> <<>>]
    <2>1. Unpad(u, fed2.buf) = got2
      BY <1>11, <1>13, <1>15
    <2> QED BY <1>15, <2>1
  <1>17. Reread(fed2, got2, TRUE, e, u, x)
    BY <1>16 DEF Reread
  <1>18. got2.u = u /\ got2.buf = e /\ got2.out = x
    OBVIOUS
  <1> HIDE DEF x, u, b, fed, r, e, fed2, got2
  <1>19. UnderstoodNext(fed2, got2, b, x, received)
    <2>1. Understood(b, TRUE, e, u, received)
      BY <1>4, <1>9, <1>12
    <2> QED BY <1>3, <1>13, <1>17, <2>1, UnderstoodMore
  <1>20. Understood(b \o x, TRUE, e, u, received \o x)
    BY <1>10, <1>15, <1>18, <1>19 DEF UnderstoodNext
  <1>21. Understood(b \o x, r.header, r.buf, r.unpadder, received \o x)
    BY <1>1, <1>6, <1>9, <1>12, <1>20
  <1>22. Delivered(r, x)
    BY <1>1, <1>3, <1>6, <1>7, <1>8, <1>21 DEF Delivered, b, x
  <1> QED BY <1>1, <1>22, DeliveredStep

---------------------------------------------------------------------------
(***************************************************************************)
(* The server has taken all that it can from its buffer: nothing is held   *)
(* back by the reader.                                                     *)
(***************************************************************************)
\* Unpadding leaves nothing that it could go on with.
Settled(u, c) == Unpad(u, c) = [u |-> u, buf |-> c, out |-> <<>>]
DrainedInv == server.req # {} => Settled(server.unpadder, server.buf)

LEMMA UnpadSettles ==
    ASSUME NEW u \in Unpadders, NEW a \in Seq(Nat)
    PROVE  Settled(Unpad(u, a).u, Unpad(u, a).buf)
  <1> DEFINE r == Unpad(u, a)
             e == <<>>
  <1>1. e \in Seq(Nat) /\ a \o e = a
    OBVIOUS
  <1>2. r \in Readings /\ UnpadTurn(r) = r
    BY <1>1, UnpadInParts
  <1>3. r.u \in Unpadders /\ r.buf \in Seq(Nat) /\ r.out \in Seq(Nat)
    <2> HIDE DEF r
    <2> QED BY <1>2 DEF Readings
  <1> DEFINE v == r.u
             c == r.buf
             q == Unpad(v, c \o e)
  <1>4. q \in Readings /\ Unpad(u, a \o e) = Prepend(r.out, q)
    BY <1>1, UnpadInParts
  <1>5. c \o e = c
    BY <1>3
  <1>6. r = Prepend(r.out, q)
    <2>1. Unpad(u, a \o e) = r
      BY <1>1
    <2> HIDE DEF r, q
    <2> QED BY <1>4, <2>1
  <1> HIDE DEF r
  <1>7. q.u = r.u /\ q.buf = r.buf /\ r.out = r.out \o q.out
    <2> HIDE DEF q
    <2> QED BY <1>2, <1>4, <1>6 DEF Prepend, Readings
  <1>8. q.out = <<>>
    <2>1. q.out \in Seq(Nat)
      <3> HIDE DEF q
      <3> QED BY <1>4 DEF Readings
    <2> DEFINE x == r.out
               y == q.out
    <2>2. x \in Seq(Nat) /\ y \in Seq(Nat) /\ x = x \o y
      BY <1>3, <1>7, <2>1
    <2> HIDE DEF x, y
    <2>3. Len(x \o y) = Len(x) + Len(y) /\ Len(x) \in Nat /\ Len(y) \in Nat
      BY <2>2, ConcatParts
    <2>4. Len(y) = 0
      BY <2>2, <2>3
    <2>5. y = <<>>
      BY <2>2, <2>4
    <2> QED BY <2>5 DEF y
  <1>9. q = [u |-> v, buf |-> c, out |-> <<>>]
    <2> HIDE DEF q
    <2> QED BY <1>4, <1>7, <1>8 DEF Readings
  <1>10. q = Unpad(v, c)
    <2> HIDE DEF v, c
    <2> QED BY <1>5
  <1>11. Unpad(v, c) = [u |-> v, buf |-> c, out |-> <<>>]
    <2> HIDE DEF q, v, c
    <2> QED BY <1>9, <1>10
  <1> HIDE DEF v, c
  <1>12. Settled(v, c)
    BY <1>11 DEF Settled
  <1> QED BY <1>12 DEF r, v, c

LEMMA TookSettles ==
    ASSUME TypeInv, NEW rest \in Seq(Nat), NEW pre, NEW found, Took(rest, pre, found)
    PROVE  Settled(server'.unpadder, server'.buf)
  <1> DEFINE u == server.unpadder
             r == Unpad(u, rest)
  <1>1. server \in Servers /\ u \in Unpadders
    BY ServerTyped DEF TypeInv
  <1>2. Settled(r.u, r.buf)
    BY <1>1, UnpadSettles
  <1>3. server'.unpadder = r.u /\ server'.buf = r.buf
    BY <1>1 DEF Took, Servers
  <1> QED BY <1>2, <1>3

LEMMA DrainedReads ==
    ASSUME IndInv, ServerReads
    PROVE  DrainedInv'
  <1>1. TypeInv
    BY DEF IndInv
  <1>2. PICK n, all :
              /\ Reading(n, all) /\ wire # <<>>
              /\ \/ server.req = {} /\ DecodeRequest(all) = {} /\ server' = [server EXCEPT !.buf = all]
                 \/ /\ server.req = {} /\ DecodeRequest(all) # {}
                    /\ LET rest == Behind(all, (CHOOSE q \in DecodeRequest(all) : TRUE).size)
                       IN  Took(rest, server.prefix \o rest, DecodeRequest(all))
                 \/ server.req # {} /\ Took(all, server.prefix \o Upto(wire, n), server.req)
    BY <1>1, ServerReadsIs
  <1>3. all \in Seq(Nat)
    BY <1>1, <1>2, ReadingParts
  <1>4. CASE server.req = {} /\ DecodeRequest(all) = {}
    <2>1. server \in Servers /\ server' = [server EXCEPT !.buf = all]
      BY <1>1, <1>2, <1>4 DEF TypeInv
    <2>2. server'.req = server.req
      BY <2>1 DEF Servers
    <2> QED BY <1>4, <2>2 DEF DrainedInv
  <1>5. CASE server.req = {} /\ DecodeRequest(all) # {}
    <2> DEFINE L == Len(Asking)
               rest == Behind(all, L)
    <2>1. DecodeRequest(all) = {AskedFor} /\ L \in 0..Len(all)
      BY <1>2, <1>5, ReadsRequest
    <2>2. Sound
      BY <1>2, ReadingState
    <2>3. (CHOOSE q \in DecodeRequest(all) : TRUE) = AskedFor
      BY <2>1
    <2>4. AskedFor.size = L
      BY <1>1, <2>2, AskingIs
    <2>5. Took(rest, server.prefix \o rest, {AskedFor})
      BY <1>2, <1>5, <2>1, <2>3, <2>4
    <2> HIDE DEF L
    <2>6. rest \in Seq(Nat)
      BY <1>3, <2>1, BehindIs
    <2> HIDE DEF rest
    <2>7. Settled(server'.unpadder, server'.buf)
      BY <1>1, <2>5, <2>6, TookSettles
    <2> QED BY <2>7 DEF DrainedInv
  <1>6. CASE server.req # {}
    <2>1. Took(all, server.prefix \o Upto(wire, n), server.req)
      BY <1>2, <1>6
    <2>2. Settled(server'.unpadder, server'.buf)
      BY <1>1, <1>3, <2>1, TookSettles
    <2> QED BY <2>2 DEF DrainedInv
  <1> QED BY <1>4, <1>5, <1>6

LEMMA DrainedSame ==
    ASSUME DrainedInv, server'.req = server.req, server'.buf = server.buf,
           server'.unpadder = server.unpadder
    PROVE  DrainedInv'
  BY DEF DrainedInv

LEMMA DrainedStep ==
    ASSUME IndInv, DrainedInv, [Next]_vars
    PROVE  DrainedInv'
  <1>1. server \in Servers
    BY DEF IndInv, TypeInv
  <1>2. CASE ServerReads
    BY <1>2, DrainedReads
  <1>3. CASE ServerSeesEnd
    <2>1. server' = [server EXCEPT !.eof = TRUE]
      BY <1>3 DEF ServerSeesEnd
    <2> QED BY <1>1, <2>1, DrainedSame DEF Servers
  <1>4. CASE Connect
    <2>1. \/ server' = server
          \/ server' = [server EXCEPT !.auth = {[key |-> Creds.publicKey,
                                                 shortId |-> ShortIdField(Creds.shortId)]}]
      BY <1>4 DEF Connect
    <2> QED BY <1>1, <2>1, DrainedSame DEF Servers
  <1>5. CASE ~(ServerReads \/ ServerSeesEnd \/ Connect)
    <2>1. CASE ClientSends \/ ServerAnswers \/ Load \/ Greeting \/ Methods \/ Request
      BY <2>1, DrainedSame DEF ClientSends, ServerAnswers, Load, Greeting, Methods, Request
    <2>2. CASE DomainLength \/ AddressBytes \/ Port \/ HangsUp \/ Reply \/ NetworkFails
      BY <2>2, DrainedSame DEF DomainLength, AddressBytes, Port, HangsUp, Reply, NetworkFails
    <2>3. CASE FirstPayload \/ NoPayload \/ PumpUp \/ PumpUpEnds \/ PaddedRead \/ PlainRead \/ AnswerEnds
      BY <2>3, DrainedSame DEF FirstPayload, NoPayload, PumpUp, PumpUpEnds, PaddedRead, PlainRead, AnswerEnds
    <2>4. CASE UNCHANGED vars
      BY <2>4, DrainedSame DEF vars
    <2> QED BY <1>5, <2>1, <2>2, <2>3, <2>4 DEF Next
  <1> QED BY <1>2, <1>3, <1>4, <1>5

---------------------------------------------------------------------------
(***************************************************************************)
(* The invariant is inductive.                                             *)
(***************************************************************************)
LEMMA GreetingsStep ==
    ASSUME IndInv, Greeting \/ Methods \/ Request \/ DomainLength \/ AddressBytes \/ Port
    PROVE  IndInv'
  <1>1. TypeInv /\ HandshakeInv /\ CauseInv
    BY DEF IndInv
  <1>2. TypeInv' /\ HandshakeInv' /\ CauseInv'
    BY <1>1, GreetingStep, MethodsStep, RequestStep, DomainLengthStep, AddressBytesStep, PortStep
  <1>3. cfg' = cfg /\ HandshakeKeeps
    BY DEF Greeting, Methods, Request, DomainLength, AddressBytes, Port, HandshakeKeeps
  <1>4. phase \in HandshakePhases
    <2>1. CASE Greeting \/ Methods \/ Request
      BY <2>1 DEF Greeting, Methods, Request, ReadExact, HandshakePhases
    <2>2. CASE DomainLength \/ AddressBytes \/ Port
      BY <2>2 DEF DomainLength, AddressBytes, Port, ReadExact, HandshakePhases
    <2> QED BY <2>1, <2>2
  <1>5. phase' \notin {"load", "first", "relay"}
    <2>1. CASE Greeting \/ Methods \/ Request
      BY <2>1 DEF Greeting, Methods, Request
    <2>2. CASE DomainLength \/ AddressBytes \/ Port
      BY <2>2 DEF DomainLength, AddressBytes, Port
    <2> QED BY <2>1, <2>2
  <1>6. phase \notin {"load", "relay", "failed"}
    BY <1>4 DEF HandshakePhases
  <1> QED BY <1>2, <1>3, <1>5, <1>6, HandshakeActs

LEMMA RepliesStep ==
    ASSUME IndInv, HangsUp \/ Reply
    PROVE  IndInv'
  <1>1. TypeInv /\ HandshakeInv /\ CauseInv
    BY DEF IndInv
  <1>2. TypeInv' /\ HandshakeInv' /\ CauseInv'
    BY <1>1, HangsUpStep, ReplyStep
  <1>3. cfg' = cfg /\ HandshakeKeeps
    BY DEF HangsUp, Reply, HandshakeKeeps
  <1>4. phase \notin {"load", "relay", "failed"}
    BY DEF HangsUp, Reply, HandshakePhases
  <1>5. phase' \notin {"load", "first", "relay"}
    BY DEF HangsUp, Reply
  <1> QED BY <1>2, <1>3, <1>4, <1>5, HandshakeActs

LEMMA LoadsStep ==
    ASSUME IndInv, Load
    PROVE  IndInv'
  <1>1. TypeInv' /\ ConfigInv' /\ HandshakeInv' /\ CauseInv'
    BY LoadStep DEF IndInv
  <1>2. /\ run' = run /\ padder' = padder /\ wire' = wire /\ closed' = closed /\ server' = server
        /\ reader' = reader /\ received' = received /\ ended' = ended
    BY DEF Load, uplinkVars, downlinkVars
  <1>3. phase \notin {"relay", "failed"} /\ phase' # "relay"
    BY DEF Load
  <1>4. ServerKeeps
    BY <1>2 DEF ServerKeeps
  <1>5. UplinkInv' /\ DownlinkInv'
    BY <1>2, <1>3, <1>4, UplinkBefore, DownlinkSame DEF IndInv
  <1> QED BY <1>1, <1>5 DEF IndInv

LEMMA ConnectsStep ==
    ASSUME IndInv, Connect
    PROVE  IndInv'
  <1>1. TypeInv' /\ ConfigInv' /\ HandshakeInv' /\ CauseInv'
    BY ConnectStep DEF IndInv
  <1>2. /\ run' = run /\ padder' = padder /\ wire' = wire /\ closed' = closed
        /\ reader' = reader /\ received' = received /\ ended' = ended
    BY DEF Connect, uplinkVars, downlinkVars
  <1>3. phase \notin {"relay", "failed"} /\ phase' # "relay"
    BY DEF Connect
  <1>4. \/ server' = server
        \/ server' = [server EXCEPT !.auth = {[key |-> Creds.publicKey,
                                               shortId |-> ShortIdField(Creds.shortId)]}]
    BY DEF Connect
  <1>5. server \in Servers
    BY DEF IndInv, TypeInv
  <1>6. ServerKeeps
    BY <1>4, <1>5 DEF ServerKeeps, Servers
  <1>7. UplinkInv' /\ DownlinkInv'
    BY <1>2, <1>3, <1>6, UplinkBefore, DownlinkSame DEF IndInv
  <1> QED BY <1>1, <1>7 DEF IndInv

LEMMA NextStep ==
    ASSUME IndInv, [Next]_vars
    PROVE  IndInv'
  <1>1. CASE Greeting \/ Methods \/ Request \/ DomainLength \/ AddressBytes \/ Port
    BY <1>1, GreetingsStep
  <1>2. CASE HangsUp \/ Reply
    BY <1>2, RepliesStep
  <1>3. CASE Load \/ Connect
    BY <1>3, LoadsStep, ConnectsStep
  <1>4. CASE ClientSends \/ ServerAnswers \/ ServerReads \/ ServerSeesEnd
    BY <1>4, ClientSendsStep, ServerAnswersStep, ServerReadsStep, ServerSeesEndStep
  <1>5. CASE NetworkFails \/ FirstPayload \/ NoPayload
    BY <1>5, NetworkFailsStep, FirstPayloadStep, NoPayloadStep
  <1>6. CASE PumpUp \/ PumpUpEnds
    BY <1>6, PumpUpStep, PumpUpEndsStep
  <1>7. CASE PaddedRead \/ PlainRead \/ AnswerEnds
    BY <1>7, PaddedReadStep, PlainReadStep, AnswerEndsStep
  <1>8. CASE UNCHANGED vars
    BY <1>8, StutterStep
  <1> QED BY <1>1, <1>2, <1>3, <1>4, <1>5, <1>6, <1>7, <1>8 DEF Next

LEMMA NothingRead ==
    /\ ~AnswerFails(<<>>) /\ ~Feed(FALSE, <<>>).done
  <1> DEFINE e == <<>>
  <1>1. e \in Seq(Nat) /\ Len(e) < 2
    OBVIOUS
  <1> HIDE DEF e
  <1>2. FedShort(Feed(FALSE, e), e)
    BY <1>1, FeedShort DEF Short
  <1>3. ~Feed(FALSE, e).done /\ ~Feed(FALSE, e).failed
    BY <1>2, FedFields
  <1>4. ~AnswerFails(e)
    BY <1>3 DEF AnswerFails
  <1> QED BY <1>3, <1>4 DEF e

LEMMA InitTyped ==
    ASSUME Init
    PROVE  TypeInv
  <1>1. RunOK(run) /\ run \in Runs
    BY RunsAssumption DEF Init
  <1>2. run.input \in Seq(Nat) /\ run.answer \in Seq(Nat)
    BY <1>1 DEF RunOK
  <1>3. Len(run.input) \in Nat /\ Len(run.answer) \in Nat
    BY <1>2
  <1>4. traffic \in SniffStates
    BY FilterPacketsAssumption DEF Init, NewTraffic, SniffStates, Ciphers
  <1>5. padder \in [padding : BOOLEAN, direct : BOOLEAN, fresh : BOOLEAN]
    BY DEF Init, NewPadder
  <1>6. server \in Servers
    BY NewUnpadderIs DEF Init, Servers
  <1>7. reader \in Readers
    BY NewUnpadderIs DEF Init, Readers
  <1>8. target \in Partial /\ replies \in Seq(Told)
    BY DEF Init, NoTarget, Partial
  <1>9. largest \in Nat /\ largest <= BufSize
    BY SizesAssumption DEF Init
  <1>10. /\ phase \in HandshakePhases \cup {"load", "reply", "connect", "first", "relay", "failed", "lost"}
         /\ need \in Nat /\ taken \in Nat /\ sent \in Nat /\ taken <= sent /\ sent <= Len(run.input)
         /\ wire \in Seq(Nat) /\ closed \in BOOLEAN /\ received \in Seq(Nat) /\ ended \in BOOLEAN
    <2>1. phase = "load"
      BY DEF Init
    <2>2. /\ need = 0 /\ taken = 0 /\ sent = 0 /\ wire = <<>> /\ closed = FALSE /\ received = <<>>
          /\ ended = FALSE
      BY DEF Init
    <2>3. phase \in HandshakePhases \cup {"load", "reply", "connect", "first", "relay", "failed", "lost"}
      BY <2>1, PhaseTyped
    <2>4. <<>> \in Seq(Nat)
      OBVIOUS
    <2>5. wire \in Seq(Nat) /\ received \in Seq(Nat)
      BY <2>2, <2>4
    <2>6. closed \in BOOLEAN /\ ended \in BOOLEAN
      BY <2>2
    <2>7. need \in Nat /\ taken \in Nat /\ sent \in Nat /\ taken <= sent /\ sent <= Len(run.input)
      BY <1>3, <2>2
    <2> QED BY <2>3, <2>5, <2>6, <2>7
  <1>11. answered \in Nat /\ reader.at <= answered /\ answered <= Len(run.answer)
    BY <1>3 DEF Init
  <1> QED
    BY <1>1, <1>4, <1>5, <1>6, <1>7, <1>8, <1>9, <1>10, <1>11 DEF TypeInv

LEMMA InitStep ==
    ASSUME Init
    PROVE  IndInv /\ DrainedInv
  <1>1. TypeInv
    BY InitTyped
  <1>2. ConfigInv
    BY DEF Init, ConfigInv, NewPadder
  <1>3. HandshakeInv
    BY DEF Init, HandshakeInv
  <1>4. CauseInv
    BY DEF Init, CauseInv
  <1>5. UplinkInv
    BY DEF Init, UplinkInv, Untouched, NewPadder
  <1>6. DownlinkInv
    <2>1. run.answer \in Seq(Nat)
      BY <1>1, RunFacts
    <2>2. Answered = <<>>
      BY <2>1 DEF Init, Answered
    <2>3. /\ reader.header = FALSE /\ reader.buf = <<>> /\ reader.unpadder = NewUnpadder
          /\ received = <<>> /\ ~ended
      BY DEF Init
    <2> DEFINE e == <<>>
    <2>4. Understood(e, FALSE, e, NewUnpadder, e)
      <3>0. e \in Seq(Nat)
        OBVIOUS
      <3>1. ~Feed(FALSE, e).done
        BY NothingRead
      <3>2. Feed(FALSE, e).done \in BOOLEAN
        <4> HIDE DEF e
        <4> QED BY <3>0, FeedTyped DEF Feeds
      <3>3. Feed(FALSE, e).done = FALSE
        BY <3>1, <3>2
      <3> QED BY <3>1, <3>3, NothingRead DEF Understood
    <2> HIDE DEF e
    <2>5. Understood(Answered, reader.header, reader.buf, reader.unpadder, received)
      BY <2>2, <2>3, <2>4 DEF e
    <2> QED BY <2>3, <2>5, DownlinkIs
  <1>7. DrainedInv
    BY DEF Init, DrainedInv
  <1> QED BY <1>1, <1>2, <1>3, <1>4, <1>5, <1>6, <1>7 DEF IndInv

---------------------------------------------------------------------------
(***************************************************************************)
(* What the invariant says: the types, the request, the refusals, and the  *)
(* uplink once the wire is empty.                                          *)
(***************************************************************************)
\* What IsPrefix says of bytes.
LEMMA PrefixWhen ==
    ASSUME NEW a \in Seq(Nat), NEW b \in Seq(Nat), Len(a) <= Len(b),
           \A i \in 1..Len(a) : a[i] = b[i]
    PROVE  IsPrefix(a, b)
  <1>1. Len(a) \in Nat /\ Len(b) \in Nat
    OBVIOUS
  <1> DEFINE s == SubSeq(a, 1, Len(a))
             t == SubSeq(b, 1, Len(a))
  <1>2. s \in Seq(Nat) /\ t \in Seq(Nat) /\ Len(s) = Len(a) /\ Len(t) = Len(a)
    BY <1>1
  <1>3. \A i \in 1..Len(s) : s[i] = t[i]
    BY <1>1, <1>2
  <1> HIDE DEF s, t
  <1>4. s = t
    BY <1>1, <1>2, <1>3, SeqEqual
  <1> QED BY <1>1, <1>4 DEF IsPrefix, s, t

LEMMA CredentialsTyped ==
    ASSUME TypeInv, ConfigInv
    PROVE  cfg \subseteq C!Credentials /\ Cardinality(cfg) <= 1
  <1>1. cfg = {} \/ \E c \in C!Credentials : cfg = {c}
    <2>1. run.raw \in C!RawCredentials
      BY RunFacts
    <2>2. C!LoadConfig(run.raw) = {} \/ \E c \in C!Credentials : C!LoadConfig(run.raw) = {c}
      BY <2>1, ConfigRead
    <2> QED BY <2>2 DEF ConfigInv
  <1>2. CASE cfg = {}
    BY <1>2, FS_EmptySet
  <1>3. CASE \E c \in C!Credentials : cfg = {c}
    <2>1. PICK c \in C!Credentials : cfg = {c}
      BY <1>3
    <2>2. Cardinality({c}) = 1
      BY FS_Singleton
    <2> QED BY <2>1, <2>2
  <1> QED BY <1>1, <1>2, <1>3

LEMMA TypeOKHolds ==
    ASSUME IndInv
    PROVE  TypeOK
  <1>1. TypeInv /\ ConfigInv
    BY DEF IndInv
  <1>2. cfg \subseteq C!Credentials /\ Cardinality(cfg) <= 1
    BY <1>1, CredentialsTyped
  <1>3. traffic.budget \in 0..FilterPackets /\ traffic.cipher \in Ciphers
    BY <1>1 DEF TypeInv, SniffStates
  <1> QED BY <1>1, <1>2, <1>3 DEF TypeInv, TypeOK

\* The first bytes behind the request are the user's.
LEMMA PrefixHolds ==
    ASSUME TypeInv, Sound, Prefixed
    PROVE  IsPrefix(server.prefix, run.want.uuid)
  <1> DEFINE p == server.prefix
             z == IF server.req = {} THEN Outstanding ELSE wire
             s == p \o z
             uuid == run.want.uuid
  <1>1. p \in Seq(Nat)
    BY ServerTyped
  <1>2. uuid \in Seq(Nat) /\ Len(uuid) = UuidLen
    BY AskingIs
  <1>3. Len(p) <= UuidLen /\ Extended(s, uuid)
    BY DEF Prefixed
  <1>4. z \in Seq(Nat)
    <2>1. server.buf \o wire \in Seq(Nat) /\ wire \in Seq(Nat)
      BY ServerTyped
    <2>2. CASE server.req = {}
      <3> DEFINE w == server.buf \o wire
                 L == Len(Asking)
      <3>1. w \in Seq(Nat) /\ L \in Nat
        BY <2>1, AskingIs
      <3>2. Outstanding = SubSeq(w, L + 1, Len(w))
        BY <2>2 DEF Outstanding, Behind
      <3> HIDE DEF w, L
      <3>3. SubSeq(w, L + 1, Len(w)) \in Seq(Nat)
        BY <3>1
      <3> QED BY <2>2, <3>2, <3>3
    <2>3. CASE server.req # {}
      BY <2>1, <2>3
    <2> QED BY <2>2, <2>3
  <1> HIDE DEF p, z, uuid
  <1>5. Len(p) \in Nat /\ \A i \in 1..Len(p) : s[i] = p[i]
    BY <1>1, <1>4, ConcatParts
  <1>6. \A i \in 1..Len(uuid) : s[i] = uuid[i]
    BY <1>3 DEF Extended
  <1>7. Len(p) <= Len(uuid) /\ Len(uuid) \in Nat
    BY <1>2, <1>3
  <1>8. \A i \in 1..Len(p) : p[i] = uuid[i]
    <2> HIDE DEF s
    <2> QED BY <1>5, <1>6, <1>7
  <1>9. IsPrefix(p, uuid)
    BY <1>1, <1>2, <1>7, <1>8, PrefixWhen
  <1> QED BY <1>9 DEF p, uuid

\* Nothing is written, or the run is sound and what is written is what was taken.
LEMMA UplinkCases ==
    ASSUME IndInv
    PROVE  Untouched \/ (~padder.fresh /\ Sound /\ UplinkParts /\ Outstanding \in Seq(Nat))
  <1>1. TypeInv /\ ConfigInv /\ UplinkInv
    BY DEF IndInv
  <1>2. CASE padder.fresh
    BY <1>1, <1>2 DEF UplinkInv
  <1>3. CASE ~padder.fresh
    BY <1>1, <1>3, UplinkIs DEF ConfigInv
  <1> QED BY <1>2, <1>3

LEMMA AsAskedHolds ==
    ASSUME IndInv
    PROVE  AsAsked
  <1>1. TypeInv /\ ConfigInv
    BY DEF IndInv
  <1>2. \A a \in server.auth : a.key = run.want.key /\ a.shortId = run.want.shortId
    BY <1>1 DEF ConfigInv
  <1>3. CASE Untouched
    <2>1. server.req = {} /\ server.prefix = <<>>
      BY <1>3 DEF Untouched
    <2>2. IsPrefix(<<>>, run.want.uuid)
      <3>1. RunOK(run)
        BY <1>1, RunFacts
      <3>2. run.want.uuid \in Seq(0..255)
        BY <3>1 DEF RunOK
      <3> QED BY <3>2 DEF IsPrefix
    <2> QED BY <1>2, <2>1, <2>2 DEF AsAsked
  <1>4. CASE Sound /\ UplinkParts
    <2>1. server.req = {} \/ server.req = {AskedFor}
      BY <1>4 DEF UplinkParts, Requesting
    <2>2. /\ AskedFor.uuid = run.want.uuid /\ AskedFor.flow = RequiredFlow
          /\ AskedFor.target = run.want.target
      BY DEF AskedFor
    <2>3. \A q \in server.req : q = AskedFor
      BY <2>1
    <2>4. \A q \in server.req : /\ q.uuid = run.want.uuid /\ q.flow = RequiredFlow
                                /\ q.target = run.want.target
      BY <2>2, <2>3
    <2>5. IsPrefix(server.prefix, run.want.uuid)
      BY <1>1, <1>4, PrefixHolds DEF UplinkParts
    <2> QED BY <1>2, <2>4, <2>5 DEF AsAsked
  <1> QED BY <1>3, <1>4, UplinkCases

LEMMA RefusedForCauseHolds ==
    ASSUME IndInv
    PROVE  RefusedForCause
  <1>1. CauseInv
    BY DEF IndInv
  <1>2. run.fault \notin {"none", "server"} => server.req = {}
    BY UplinkCases DEF Untouched, Sound
  <1>3. phase = "failed" => run.fault # "none"
    BY <1>1 DEF CauseInv
  <1>4. <<5, 255>> \in {replies[i] : i \in DOMAIN replies} => run.fault = "method"
    BY <1>1 DEF CauseInv
  <1> QED BY <1>2, <1>3, <1>4 DEF RefusedForCause

LEMMA UplinkEmptied ==
    ASSUME IndInv, DrainedInv, ~padder.fresh, wire = <<>>
    PROVE  server.data = SubSeq(run.input, run.head + 1, taken)
  <1>1. TypeInv /\ Sound /\ UplinkParts /\ Outstanding \in Seq(Nat)
    <2>1. ~Untouched
      BY DEF Untouched, NewPadder
    <2> QED BY <2>1, UplinkCases DEF IndInv
  <1>2. server.buf \in Seq(Nat) /\ server.data \in Seq(Nat) /\ server.unpadder \in Unpadders
    BY <1>1, ServerTyped
  <1>3. server.buf \o wire = server.buf
    BY <1>2
  <1>4. server.req # {}
    <2>1. SUFFICES ASSUME server.req = {} PROVE FALSE
      OBVIOUS
    <2>2. DecodeRequest(server.buf) = {} /\ Extended(server.buf \o wire, Asking)
      BY <1>1, <2>1 DEF UplinkParts, Requesting
    <2>3. Asking \in Seq(Nat) /\ Whole(Asking)
      BY <1>1, AskingIs
    <2>4. Extended(server.buf, Asking)
      BY <1>3, <2>2
    <2>5. Whole(server.buf)
      BY <2>3, <2>4, WholeExtended
    <2> QED BY <1>2, <2>2, <2>5, DecodeIs
  <1> DEFINE u == server.unpadder
             c == server.buf
             d == server.data
             q == Unpad(u, c)
             data == SubSeq(run.input, run.head + 1, taken)
  <1>5. q = [u |-> u, buf |-> c, out |-> <<>>]
    BY <1>4 DEF DrainedInv, Settled
  <1>6. Carries(u, c, ~padder.padding, d, data)
    <2>1. Outstanding = c
      BY <1>3, <1>4 DEF Outstanding
    <2> QED BY <1>1, <2>1 DEF UplinkParts, Carrying
  <1>7. q.out = <<>>
    <2> HIDE DEF q, u, c
    <2> QED BY <1>5
  <1>8. d \o q.out = data
    <2> DEFINE done == ~padder.padding
    <2>1. /\ done \in BOOLEAN /\ u \in Unpadders /\ c \in Seq(Nat)
          /\ Carries(u, c, done, d, data)
      BY <1>2, <1>6
    <2> HIDE DEF u, c, d, data, done
    <2>2. LET rem == Unpad(u, c)
          IN  /\ rem.buf = <<>> /\ ~rem.u.failed /\ ~rem.u.expectUuid
              /\ rem.u.done <=> done
              /\ d \o rem.out = data
      BY <2>1, CarriesIs
    <2> QED BY <2>2
  <1>9. d \o <<>> = d
    BY <1>2
  <1> HIDE DEF q, d, data
  <1>10. d = data
    BY <1>7, <1>8, <1>9
  <1> QED BY <1>10 DEF d, data

\* What a reader with all of b has of it.
LEMMA DataIs ==
    ASSUME NEW b \in Seq(Nat), NEW h, NEW c, NEW u, NEW d, Understood(b, h, c, u, d)
    PROVE  AnswerData(b) = d
  <1> DEFINE fed == Feed(FALSE, b)
  <1>1. CASE fed.done
    <2> DEFINE q == Unpad(NewUnpadder, fed.buf)
    <2>1. q = [u |-> u, buf |-> c, out |-> d]
      BY <1>1 DEF Understood
    <2>2. AnswerData(b) = q.out
      BY <1>1 DEF AnswerData
    <2> HIDE DEF q
    <2> QED BY <2>1, <2>2
  <1>2. CASE ~fed.done
    BY <1>2 DEF Understood, AnswerData
  <1> QED BY <1>1, <1>2

---------------------------------------------------------------------------
(***************************************************************************)
(* What the invariant says: the downlink, and that nothing is held back.   *)
(***************************************************************************)
\* What a reader of the answer's first n bytes delivers is part of its data.
LEMMA UnderstoodData ==
    ASSUME NEW r \in Runs, NEW n \in 0..Len(r.answer), NEW h, NEW c, NEW u, NEW d,
           Understood(SubSeq(r.answer, 1, n), h, c, u, d)
    PROVE  IsPrefix(d, r.data) /\ (n = Len(r.answer) => d = r.data)
  <1> DEFINE b == SubSeq(r.answer, 1, n)
             fed == Feed(FALSE, b)
  <1>1. RunOK(r)
    BY RunsAssumption
  <1>2. Understood(b, h, c, u, d)
    OBVIOUS
  <1>3. AnswerData(b) = d
    <2>1. b \in Seq(Nat)
      BY <1>1 DEF RunOK
    <2> HIDE DEF b
    <2> QED BY <1>2, <2>1, DataIs
  <1>4. ~AnswerFails(b)
    BY <1>2 DEF Understood
  <1>5. \A m \in 0..Len(r.answer) : LET x == SubSeq(r.answer, 1, m) IN
           ~AnswerFails(x) => /\ IsPrefix(AnswerData(x), r.data)
                              /\ m = Len(r.answer) => AnswerData(x) = r.data
    BY <1>1 DEF RunOK
  <1>6. LET x == SubSeq(r.answer, 1, n) IN
           ~AnswerFails(x) => /\ IsPrefix(AnswerData(x), r.data)
                              /\ n = Len(r.answer) => AnswerData(x) = r.data
    BY <1>5
  <1>7. ~AnswerFails(b) => /\ IsPrefix(AnswerData(b), r.data)
                           /\ n = Len(r.answer) => AnswerData(b) = r.data
    BY <1>6
  <1> HIDE DEF b
  <1> QED BY <1>3, <1>4, <1>7

\* All of it at the end.
LEMMA DownlinkCarries ==
    ASSUME IndInv
    PROVE  reader.at = Len(run.answer) => received = run.data
  <1>1. TypeInv /\ DownlinkInv
    BY DEF IndInv
  <1>2. run \in Runs /\ run.answer \in Seq(Nat) /\ Len(run.answer) \in Nat
    BY <1>1, RunFacts
  <1>3. reader.at \in 0..Len(run.answer)
    <2>1. reader.at \in Nat /\ reader.at <= answered /\ answered \in Nat /\ answered <= Len(run.answer)
      BY <1>1 DEF TypeInv, Readers
    <2> QED BY <1>2, <2>1
  <1>4. Understood(SubSeq(run.answer, 1, reader.at), reader.header, reader.buf, reader.unpadder, received)
    BY <1>1, DownlinkIs DEF Answered
  <1> QED BY <1>2, <1>3, <1>4, UnderstoodData

LEMMA NothingHeldBackHolds ==
    ASSUME IndInv, DrainedInv
    PROVE  NothingHeldBack
  <1>1. phase = "relay" => ~padder.fresh
    BY DEF IndInv, UplinkInv
  <1>2. phase = "relay" /\ wire = <<>> => server.data = SubSeq(run.input, run.head + 1, taken)
    BY <1>1, UplinkEmptied
  <1>3. phase = "relay" /\ answered > 0 /\ reader.at = Len(run.answer) => received = run.data
    BY DownlinkCarries
  <1> QED BY <1>2, <1>3 DEF NothingHeldBack

---------------------------------------------------------------------------
(* The two pipes *)

LEMMA PipePrefix ==
    ASSUME NEW a, NEW b
    PROVE  (Up!IsPrefix(a, b) <=> IsPrefix(a, b)) /\ (Down!IsPrefix(a, b) <=> IsPrefix(a, b))
  BY DEF Up!IsPrefix, Down!IsPrefix, IsPrefix

LEMMA PrefixOfConcat ==
    ASSUME NEW a \in Seq(Nat), NEW b \in Seq(Nat)
    PROVE  IsPrefix(a, a \o b)
  <1> DEFINE s == a \o b
  <1>1. s \in Seq(Nat) /\ Len(a) <= Len(s) /\ \A i \in 1..Len(a) : s[i] = a[i]
    BY ConcatParts
  <1> HIDE DEF s
  <1>2. IsPrefix(a, s)
    BY <1>1, PrefixWhen
  <1> QED BY <1>2 DEF s

LEMMA PrefixIs ==
    ASSUME NEW a \in Seq(Nat), NEW b \in Seq(Nat), IsPrefix(a, b)
    PROVE  Len(a) <= Len(b) /\ \A i \in 1..Len(a) : a[i] = b[i]
  <1> DEFINE s == SubSeq(a, 1, Len(a))
             t == SubSeq(b, 1, Len(a))
  <1>1. Len(a) <= Len(b) /\ Len(a) \in Nat /\ Len(b) \in Nat /\ s = t
    BY DEF IsPrefix
  <1>2. \A i \in 1..Len(a) : s[i] = a[i] /\ t[i] = b[i]
    BY <1>1
  <1> HIDE DEF s, t
  <1> QED BY <1>1, <1>2

LEMMA PrefixThen ==
    ASSUME NEW a \in Seq(Nat), NEW b \in Seq(Nat), NEW c \in Seq(Nat),
           IsPrefix(a, b), IsPrefix(b, c)
    PROVE  IsPrefix(a, c)
  <1>1. /\ Len(a) <= Len(b) /\ \A i \in 1..Len(a) : a[i] = b[i]
        /\ Len(b) <= Len(c) /\ \A i \in 1..Len(b) : b[i] = c[i]
    BY PrefixIs
  <1>2. Len(a) \in Nat /\ Len(b) \in Nat /\ Len(c) \in Nat
    OBVIOUS
  <1>3. Len(a) <= Len(c) /\ \A i \in 1..Len(a) : a[i] = c[i]
    BY <1>1, <1>2
  <1> QED BY <1>3, PrefixWhen

LEMMA PartsPrefix ==
    ASSUME NEW s \in Seq(Nat), NEW i \in Nat, NEW m \in Nat, NEW n \in Nat,
           i <= m, m <= n, n <= Len(s)
    PROVE  /\ SubSeq(s, i + 1, m) \in Seq(Nat) /\ SubSeq(s, i + 1, n) \in Seq(Nat)
           /\ IsPrefix(SubSeq(s, i + 1, m), SubSeq(s, i + 1, n))
  <1> DEFINE a == SubSeq(s, i + 1, m)
             b == SubSeq(s, i + 1, n)
  <1>1. Len(s) \in Nat
    OBVIOUS
  <1>2. /\ a \in Seq(Nat) /\ b \in Seq(Nat) /\ Len(a) = m - i /\ Len(b) = n - i
    BY <1>1
  <1>3. \A j \in 1..Len(a) : a[j] = b[j]
    BY <1>1, <1>2
  <1>4. Len(a) <= Len(b)
    BY <1>2
  <1> HIDE DEF a, b
  <1>5. IsPrefix(a, b)
    BY <1>2, <1>3, <1>4, PrefixWhen
  <1> QED BY <1>2, <1>5 DEF a, b

\* What the client has sent behind its request.
LEMMA PayloadIs ==
    ASSUME TypeInv
    PROVE  /\ ClientPayload \in Seq(Nat)
           /\ run.head <= taken => /\ IsPrefix(SubSeq(run.input, run.head + 1, taken), ClientPayload)
                                   /\ ClientPayload = SubSeq(run.input, run.head + 1, sent)
           /\ sent = 0 => ClientPayload = <<>>
  <1>1. /\ run.input \in Seq(Nat) /\ Len(run.input) \in Nat /\ run.head \in Nat
        /\ sent \in Nat /\ taken \in Nat /\ taken <= sent /\ sent <= Len(run.input)
    BY RunFacts DEF TypeInv
  <1> DEFINE h == run.head
             s == run.input
             n == IF sent > h THEN sent ELSE h
  <1>2. ClientPayload = SubSeq(s, h + 1, n)
    BY DEF ClientPayload
  <1>3. CASE sent > h
    <2>1. ClientPayload = SubSeq(s, h + 1, sent)
      BY <1>2, <1>3
    <2>2. ClientPayload \in Seq(Nat)
      BY <1>1, <1>3, <2>1, PartsPrefix, SMTT(30)
    <2>3. h <= taken => IsPrefix(SubSeq(s, h + 1, taken), ClientPayload)
      <3>1. SUFFICES ASSUME h <= taken
                     PROVE  IsPrefix(SubSeq(s, h + 1, taken), SubSeq(s, h + 1, sent))
        BY <2>1
      <3> QED BY <1>1, <3>1, PartsPrefix
    <2> QED BY <1>1, <1>3, <2>1, <2>2, <2>3
  <1>4. CASE ~(sent > h)
    <2>1. ClientPayload = SubSeq(s, h + 1, h)
      BY <1>2, <1>4
    <2>2. SubSeq(s, h + 1, h) = <<>>
      BY <1>1
    <2>3. h <= taken => taken = h /\ sent = h
      BY <1>1, <1>4
    <2>4. IsPrefix(<<>>, <<>>)
      BY DEF IsPrefix
    <2>5. h <= taken => /\ IsPrefix(SubSeq(s, h + 1, taken), ClientPayload)
                        /\ ClientPayload = SubSeq(s, h + 1, sent)
      BY <2>1, <2>2, <2>3, <2>4
    <2>6. ClientPayload \in Seq(Nat) /\ ClientPayload = <<>>
      <3>1. ClientPayload = <<>>
        BY <2>1, <2>2
      <3>2. <<>> \in Seq(Nat)
        OBVIOUS
      <3> QED BY <3>1, <3>2
    <2> QED BY <2>5, <2>6
  <1> QED BY <1>3, <1>4

\* A response header, and behind it whatever Vision makes of a write: the client's reader
\* finds no fault with it, and has just what was written (vless.rs:59-99, vision.rs:120-169).
THEOREM AnswerOfFrames ==
    ASSUME NEW h \in Seq(Nat), Headed(h), Len(h) = HeaderEnd(h),
           NEW ts, NEW pd, NEW data, NEW uuid, NEW rs, Padding(ts, pd, data, uuid, rs), pd.fresh,
           NEW b, b = h \o FramesOf(ts, pd, data, uuid, rs)
    PROVE  ~AnswerFails(b) /\ AnswerData(b) = data
  <1> DEFINE f == FramesOf(ts, pd, data, uuid, rs)
             u == NewUnpadder
             none == <<>>
  <1>1. u \in Unpadders /\ ~u.done /\ ~u.failed /\ u.expectUuid
    BY NewUnpadderIs
  <1> HIDE DEF u
  <1>2. PICK v \in Unpadders : ReadBack(ts, pd, data, uuid, rs, u, v)
    <2>1. u.expectUuid <=> pd.fresh
      BY <1>1
    <2> QED BY <1>1, <2>1, WriteAndRead
  <1>3. f \in Seq(Nat) /\ Unpad(u, f) = [u |-> v, buf |-> <<>>, out |-> data] /\ ~v.failed
    BY <1>2 DEF ReadBack, ReadAll
  <1> HIDE DEF f
  <1>4. FedBehind(Feed(FALSE, h), none)
    <2>1. FedBehind(Feed(FALSE, h), Behind(h, Len(h)))
      BY FeedBehind
    <2>2. Behind(h, Len(h)) = none
      BY DEF Behind
    <2> QED BY <2>1, <2>2
  <1>5. FedBehind(Feed(FALSE, b), f)
    <2>1. Feed(FALSE, h).done /\ Feed(FALSE, h).buf = none
      BY <1>4, FedFields
    <2>2. FedBehind(Feed(FALSE, h \o f), none \o f)
      BY <1>3, <2>1, FeedMore
    <2>3. none \o f = f
      BY <1>3
    <2> QED BY <2>2, <2>3 DEF f
  <1>6. Feed(FALSE, b).done /\ ~Feed(FALSE, b).failed /\ Feed(FALSE, b).buf = f
    BY <1>5, FedFields
  <1>7. Unpad(u, f).u = v /\ Unpad(u, f).out = data
    BY <1>3
  <1>8. ~AnswerFails(b)
    BY <1>3, <1>6, <1>7 DEF AnswerFails, u
  <1>9. AnswerData(b) = data
    BY <1>6, <1>7 DEF AnswerData, u
  <1> QED BY <1>8, <1>9

\* A part of an answer without fault has no fault, and its data are a part of the answer's.
THEOREM AnswerInParts ==
    ASSUME NEW b \in Seq(Nat), ~AnswerFails(b), NEW n \in 0..Len(b), NEW a, a = Upto(b, n)
    PROVE  ~AnswerFails(a) /\ IsPrefix(AnswerData(a), AnswerData(b))
  <1> DEFINE x == Behind(b, n)
             f == Feed(FALSE, a)
             q == Unpad(NewUnpadder, f.buf)
             c == IF f.done THEN q.buf ELSE a
             u == IF f.done THEN q.u ELSE NewUnpadder
             d == IF f.done THEN q.out ELSE <<>>
  <1>1. a \in Seq(Nat) /\ x \in Seq(Nat) /\ a \o x = b
    BY UptoIs, BehindIs, CutInTwo
  <1>2. ~AnswerFails(a)
    BY <1>1, AnswerFailsMore
  <1> HIDE DEF x
  <1>3. f \in Feeds
    BY <1>1, FeedTyped
  <1>4. q \in Readings
    BY <1>3, UnpadTyped, NewUnpadderIs DEF Feeds
  <1>5. c \in Seq(Nat) /\ u \in Unpadders /\ d \in Seq(Nat)
    <2> HIDE DEF q, f
    <2> QED BY <1>1, <1>4, NewUnpadderIs DEF Readings
  <1>6. Understood(a, f.done, c, u, d)
    <2>1. CASE f.done
      <3>1. q = [u |-> u, buf |-> c, out |-> d]
        <4> HIDE DEF q, f
        <4> QED BY <1>4, <2>1 DEF Readings
      <3> QED BY <1>2, <2>1, <3>1 DEF Understood
    <2>2. CASE ~f.done
      BY <1>2, <2>2 DEF Understood
    <2> QED BY <2>1, <2>2
  <1>7. PICK fed, got : Reread(fed, got, f.done, c, u, x)
    BY DEF Reread
  <1> HIDE DEF c, u, d, f, q
  <1>8. UnderstoodNext(fed, got, a, x, d)
    BY <1>1, <1>5, <1>6, <1>7, UnderstoodMore
  <1>9. got \in Readings /\ Understood(b, fed.done, got.buf, got.u, d \o got.out)
    BY <1>1, <1>8 DEF UnderstoodNext
  <1>10. AnswerData(b) = d \o got.out
    BY <1>9, DataIs
  <1>11. AnswerData(a) = d
    BY <1>1, <1>6, DataIs
  <1>12. got.out \in Seq(Nat)
    BY <1>9 DEF Readings
  <1> QED BY <1>2, <1>5, <1>10, <1>11, <1>12, PrefixOfConcat

---------------------------------------------------------------------------
(***************************************************************************)
(* The uplink implements Pipe: what is proxied is what was sent behind the *)
(* handshake.                                                              *)
(***************************************************************************)
LEMMA UpInit ==
    ASSUME Init
    PROVE  Up!Init
  <1>1. TypeInv
    BY InitTyped
  <1>2. ClientPayload = <<>>
    BY <1>1, PayloadIs DEF Init
  <1> QED BY <1>2 DEF Init, Up!Init

LEMMA DownInit ==
    ASSUME Init
    PROVE  Down!Init
  BY DEF Init, Down!Init

\* An action that neither sends nor reads leaves the uplink as it is.
LEMMA UpSame ==
    ASSUME run' = run, sent' = sent, server'.data = server.data, server'.eof = server.eof
    PROVE  UNCHANGED Up!pipeVars
  <1>1. ClientPayload' = ClientPayload
    BY DEF ClientPayload
  <1> QED BY <1>1 DEF Up!pipeVars

LEMMA UpSends ==
    ASSUME IndInv, ClientSends
    PROVE  [Up!Next]_(Up!pipeVars)
  <1>1. /\ run' = run /\ server' = server /\ taken' = taken
        /\ sent < Len(run.input) /\ \E n \in run.cuts \cup {Len(run.input)} : n > sent /\ sent' = n
    BY DEF ClientSends
  <1>2. TypeInv /\ TypeInv'
    <2>1. IndInv'
      BY ClientSendsStep
    <2> QED BY <2>1 DEF IndInv
  <1>3. /\ run.input \in Seq(Nat) /\ Len(run.input) \in Nat /\ run.head \in Nat
        /\ sent \in Nat /\ taken \in Nat /\ taken <= sent /\ sent <= Len(run.input)
        /\ sent' \in Nat /\ sent' <= Len(run.input) /\ sent < sent'
    <2>1. /\ run.input \in Seq(Nat) /\ Len(run.input) \in Nat /\ run.head \in Nat
          /\ sent \in Nat /\ taken \in Nat /\ taken <= sent /\ sent <= Len(run.input)
      BY <1>2, RunFacts DEF TypeInv
    <2>2. sent' \in Nat /\ sent' <= Len(run'.input)
      BY <1>2 DEF TypeInv
    <2>3. sent' > sent
      BY <1>1
    <2> QED BY <1>1, <2>1, <2>2, <2>3
  <1>4. ~server.eof
    <2>1. CASE Untouched
      BY <2>1 DEF Untouched
    <2>2. CASE UplinkParts
      <3>1. server.eof => taken = Len(run.input)
        BY <2>2 DEF UplinkParts, Ending
      <3> QED BY <1>1, <1>3, <3>1
    <2> QED BY <2>1, <2>2, UplinkCases
  <1>5. IsPrefix(ClientPayload, ClientPayload')
    <2> DEFINE h == run.head
               s == run.input
               m == IF sent > h THEN sent ELSE h
               n == IF sent' > h THEN sent' ELSE h
    <2>1. ClientPayload = SubSeq(s, h + 1, m) /\ ClientPayload' = SubSeq(s, h + 1, n)
      BY <1>1 DEF ClientPayload
    <2>2. CASE sent' > h
      <3>1. n = sent' /\ m \in Nat /\ h <= m /\ m <= sent'
        BY <1>3, <2>2
      <3> HIDE DEF m, n
      <3>2. IsPrefix(SubSeq(s, h + 1, m), SubSeq(s, h + 1, n))
        BY <1>3, <3>1, PartsPrefix
      <3> QED BY <2>1, <3>2
    <2>3. CASE ~(sent' > h)
      <3>1. m = h /\ n = h
        BY <1>3, <2>3
      <3>2. ClientPayload' = ClientPayload /\ ClientPayload \in Seq(Nat)
        BY <1>2, <2>1, <3>1, PayloadIs
      <3> QED BY <3>2 DEF IsPrefix
    <2> QED BY <2>2, <2>3
  <1>6. Up!IsPrefix(ClientPayload, ClientPayload')
    BY <1>5, PipePrefix
  <1>7. CASE ClientPayload' = ClientPayload
    BY <1>1, <1>7 DEF Up!pipeVars
  <1>8. CASE ClientPayload' # ClientPayload
    BY <1>1, <1>4, <1>6, <1>8 DEF Up!Write, Up!Next
  <1> QED BY <1>7, <1>8

\* What the server gets when it reads is what was taken and not yet read.
LEMMA UpReads ==
    ASSUME IndInv, ServerReads
    PROVE  [Up!Next]_(Up!pipeVars)
  <1>1. TypeInv /\ IndInv' /\ wire # <<>>
    BY ServerReadsStep DEF IndInv, ServerReads
  <1>2. PICK n, all :
              /\ Reading(n, all) /\ wire # <<>>
              /\ \/ server.req = {} /\ DecodeRequest(all) = {} /\ server' = [server EXCEPT !.buf = all]
                 \/ /\ server.req = {} /\ DecodeRequest(all) # {}
                    /\ LET rest == Behind(all, (CHOOSE q \in DecodeRequest(all) : TRUE).size)
                       IN  Took(rest, server.prefix \o rest, DecodeRequest(all))
                 \/ server.req # {} /\ Took(all, server.prefix \o Upto(wire, n), server.req)
    BY <1>1, ServerReadsIs
  <1>3. /\ run' = run /\ sent' = sent /\ taken' = taken /\ padder' = padder
    BY <1>2 DEF Reading
  <1>4. ~padder.fresh /\ Sound /\ UplinkParts /\ ~server.eof
    BY <1>1, ReadingState
  <1>5. server \in Servers /\ server.data \in Seq(Nat)
    BY <1>1, ServerTyped DEF TypeInv
  <1>6. server'.eof = server.eof /\ \E out \in Seq(Nat) : server'.data = server.data \o out
    <2>1. ASSUME NEW rest \in Seq(Nat), NEW pre, NEW found, Took(rest, pre, found)
          PROVE  server'.eof = server.eof /\ \E out \in Seq(Nat) : server'.data = server.data \o out
      <3> DEFINE u == server.unpadder
                 r == Unpad(u, rest)
      <3>1. u \in Unpadders
        BY <1>1, ServerTyped
      <3>2. r \in Readings
        BY <2>1, <3>1, UnpadTyped
      <3>3. server'.eof = server.eof /\ server'.data = server.data \o r.out
        BY <1>5, <2>1 DEF Took, Servers
      <3>4. r.out \in Seq(Nat)
        <4> HIDE DEF r
        <4> QED BY <3>2 DEF Readings
      <3> QED BY <3>3, <3>4
    <2>2. all \in Seq(Nat)
      BY <1>1, <1>2, ReadingParts
    <2>3. CASE server' = [server EXCEPT !.buf = all]
      <3>1. server'.eof = server.eof /\ server'.data = server.data
        BY <1>5, <2>3 DEF Servers
      <3> DEFINE d == server.data
                 e == <<>>
      <3>2. d = d \o e /\ e \in Seq(Nat)
        BY <1>5
      <3> HIDE DEF d, e
      <3>3. server'.data = d \o e
        BY <3>1, <3>2 DEF d
      <3> QED BY <3>1, <3>2, <3>3 DEF d
    <2>4. CASE /\ server.req = {} /\ DecodeRequest(all) # {}
               /\ LET rest == Behind(all, (CHOOSE q \in DecodeRequest(all) : TRUE).size)
                  IN  Took(rest, server.prefix \o rest, DecodeRequest(all))
      <3> DEFINE L == Len(Asking)
                 rest == Behind(all, L)
      <3>1. DecodeRequest(all) = {AskedFor} /\ L \in 0..Len(all)
        BY <1>1, <1>2, <2>4, ReadsRequest
      <3>2. (CHOOSE q \in DecodeRequest(all) : TRUE) = AskedFor /\ AskedFor.size = L
        BY <1>1, <1>4, <3>1, AskingIs
      <3>3. Took(rest, server.prefix \o rest, {AskedFor})
        BY <2>4, <3>1, <3>2
      <3> HIDE DEF L
      <3>4. rest \in Seq(Nat)
        BY <2>2, <3>1, BehindIs
      <3> HIDE DEF rest
      <3> QED BY <2>1, <3>3, <3>4
    <2>5. CASE server.req # {} /\ Took(all, server.prefix \o Upto(wire, n), server.req)
      BY <2>1, <2>2, <2>5
    <2> QED BY <1>2, <2>3, <2>4, <2>5
  <1>7. IsPrefix(server.data, server'.data)
    <2>1. PICK out \in Seq(Nat) : server'.data = server.data \o out
      BY <1>6
    <2> QED BY <1>5, <2>1, PrefixOfConcat
  <1>8. ClientPayload' = ClientPayload /\ ClientPayload \in Seq(Nat)
    BY <1>1, <1>3, PayloadIs DEF ClientPayload
  <1>9. IsPrefix(server'.data, ClientPayload)
    <2>1. TypeInv' /\ server'.data \in Seq(Nat)
      BY <1>1 DEF IndInv, TypeInv, Servers
    <2> DEFINE data == SubSeq(run.input, run.head + 1, taken)
    <2>2. \E d \in Seq(Nat) : server'.data \o d = data
      <3> DEFINE u == server'.unpadder
                 o == Outstanding'
                 rem == Unpad(u, o)
      <3>1. server'.data \o rem.out = data
        BY <1>1, <1>3, <1>4 DEF IndInv, UplinkInv
      <3>2. u \in Unpadders /\ server'.buf \in Seq(Nat) /\ wire' \in Seq(Nat)
        BY <2>1 DEF TypeInv, Servers
      <3>3. o \in Seq(Nat)
        <4> DEFINE w == server'.buf \o wire'
                   L == Len(Asking)
        <4>1. w \in Seq(Nat) /\ L \in Nat
          BY <1>1, <1>4, <3>2, AskingIs, ConcatParts
        <4>2. Asking' = Asking
          BY <1>3 DEF Asking
        <4>3. o = SubSeq(w, L + 1, Len(w)) \/ o = w
          BY <4>2 DEF Outstanding, Behind
        <4> HIDE DEF w, L
        <4>4. SubSeq(w, L + 1, Len(w)) \in Seq(Nat)
          BY <4>1
        <4> QED BY <4>1, <4>3, <4>4
      <3> HIDE DEF u, o
      <3>4. rem \in Readings
        BY <3>2, <3>3, UnpadTyped
      <3>5. rem.out \in Seq(Nat)
        <4> HIDE DEF rem
        <4> QED BY <3>4 DEF Readings
      <3> QED BY <3>1, <3>5
    <2>3. PICK d \in Seq(Nat) : server'.data \o d = data
      BY <2>2
    <2>4. IsPrefix(server'.data, data)
      BY <2>1, <2>3, PrefixOfConcat
    <2>5. IsPrefix(data, ClientPayload)
      BY <1>1, <1>4, PayloadIs DEF UplinkParts
    <2>6. data \in Seq(Nat)
      <3>1. run.input \in Seq(Nat) /\ run.head \in Nat /\ taken \in Nat /\ Len(run.input) \in Nat
            /\ taken <= Len(run.input)
        BY <1>1, RunFacts DEF TypeInv
      <3> QED BY <3>1
    <2> HIDE DEF data
    <2> QED BY <1>8, <2>1, <2>4, <2>5, <2>6, PrefixThen
  <1>10. /\ Up!IsPrefix(server.data, server'.data) /\ Up!IsPrefix(server'.data, ClientPayload)
    BY <1>7, <1>9, PipePrefix
  <1>11. CASE server'.data = server.data
    BY <1>6, <1>8, <1>11 DEF Up!pipeVars
  <1>12. CASE server'.data # server.data
    BY <1>4, <1>6, <1>8, <1>10, <1>12 DEF Up!Read, Up!Next
  <1> QED BY <1>11, <1>12

---------------------------------------------------------------------------
(***************************************************************************)
(* The uplink's end, and the downlink implements Pipe.                     *)
(***************************************************************************)
LEMMA UpEnds ==
    ASSUME IndInv, DrainedInv, ServerSeesEnd
    PROVE  [Up!Next]_(Up!pipeVars)
  <1>1. /\ closed /\ wire = <<>> /\ run' = run /\ sent' = sent
        /\ server' = [server EXCEPT !.eof = TRUE]
    BY DEF ServerSeesEnd
  <1>2. TypeInv /\ UplinkInv
    BY DEF IndInv
  <1>3. ~Untouched /\ ~padder.fresh
    BY <1>1, <1>2 DEF UplinkInv, Untouched
  <1>4. UplinkParts
    BY <1>3, UplinkCases
  <1>5. server.data = SubSeq(run.input, run.head + 1, taken)
    BY <1>1, <1>3, UplinkEmptied
  <1>6. run.head <= taken /\ taken = Len(run.input)
    BY <1>1, <1>4 DEF UplinkParts, Ending
  <1>7. taken = sent
    <2>1. taken \in Nat /\ sent \in Nat /\ taken <= sent /\ sent <= Len(run.input)
      BY <1>2 DEF TypeInv
    <2> QED BY <1>6, <2>1
  <1>8. ClientPayload = server.data /\ ClientPayload' = ClientPayload
    BY <1>1, <1>2, <1>5, <1>6, <1>7, PayloadIs DEF ClientPayload
  <1>9. server'.eof = TRUE /\ server'.data = server.data
    BY <1>1, <1>2 DEF TypeInv, Servers
  <1> QED BY <1>8, <1>9 DEF Up!Close, Up!Next

\* The actions that neither send, nor read, nor end.
LEMMA UpOthers ==
    ASSUME TypeInv, [Next]_vars, ~(ClientSends \/ ServerReads \/ ServerSeesEnd)
    PROVE  UNCHANGED Up!pipeVars
  <1>1. server \in Servers
    BY DEF TypeInv
  <1>2. CASE ServerAnswers \/ Load \/ Greeting \/ Methods \/ Request
    BY <1>2, UpSame DEF ServerAnswers, Load, Greeting, Methods, Request
  <1>3. CASE DomainLength \/ AddressBytes \/ Port \/ HangsUp \/ Reply \/ NetworkFails
    BY <1>3, UpSame DEF DomainLength, AddressBytes, Port, HangsUp, Reply, NetworkFails
  <1>4. CASE FirstPayload \/ NoPayload \/ PumpUp \/ PumpUpEnds \/ PaddedRead \/ PlainRead \/ AnswerEnds
    BY <1>4, UpSame DEF FirstPayload, NoPayload, PumpUp, PumpUpEnds, PaddedRead, PlainRead, AnswerEnds
  <1>5. CASE Connect
    <2>1. /\ run' = run /\ sent' = sent
          /\ \/ server' = server
             \/ server' = [server EXCEPT !.auth = {[key |-> Creds.publicKey,
                                                    shortId |-> ShortIdField(Creds.shortId)]}]
      BY <1>5 DEF Connect
    <2>2. server'.data = server.data /\ server'.eof = server.eof
      BY <1>1, <2>1 DEF Servers
    <2> QED BY <2>1, <2>2, UpSame
  <1>6. CASE UNCHANGED vars
    BY <1>6, UpSame DEF vars
  <1> QED BY <1>2, <1>3, <1>4, <1>5, <1>6 DEF Next

LEMMA UpStep ==
    ASSUME IndInv, DrainedInv, [Next]_vars
    PROVE  [Up!Next]_(Up!pipeVars)
  <1>1. CASE ClientSends \/ ServerReads \/ ServerSeesEnd
    BY <1>1, UpSends, UpReads, UpEnds
  <1>2. CASE ~(ClientSends \/ ServerReads \/ ServerSeesEnd)
    <2>1. TypeInv
      BY DEF IndInv
    <2>2. UNCHANGED Up!pipeVars
      BY <1>2, <2>1, UpOthers
    <2> QED BY <2>2
  <1> QED BY <1>1, <1>2

\* The answer's data is there as soon as any of the answer is.
LEMMA DownSends ==
    ASSUME IndInv, ServerAnswers
    PROVE  [Down!Next]_(Down!pipeVars)
  <1>1. /\ run' = run /\ received' = received /\ ended' = ended
        /\ answered < Len(run.answer) /\ \E n \in run.answerCuts \cup {Len(run.answer)} : n > answered /\ answered' = n
    BY DEF ServerAnswers
  <1>2. TypeInv /\ DownlinkInv
    BY DEF IndInv
  <1>3. /\ answered \in Nat /\ reader.at \in Nat /\ reader.at <= answered
        /\ run.data \in Seq(Nat) /\ Len(run.answer) \in Nat
    BY <1>2, RunFacts DEF TypeInv, Readers
  <1>4. ~ended
    <2>1. ended => reader.at = Len(run.answer)
      BY <1>2, DownlinkIs
    <2> QED BY <1>1, <1>3, <2>1
  <1>5. answered' # 0
    <2>1. answered' > answered
      BY <1>1
    <2>2. answered' \in Nat
      BY ServerAnswersStep DEF IndInv, TypeInv
    <2> QED BY <1>3, <2>1, <2>2
  <1> DEFINE given == IF answered = 0 THEN <<>> ELSE run.data
  <1>6. given' = run.data
    BY <1>1, <1>5
  <1>7. CASE given = run.data
    BY <1>1, <1>6, <1>7 DEF Down!pipeVars
  <1>8. CASE given # run.data
    <2>1. given = <<>>
      BY <1>8
    <2>2. IsPrefix(<<>>, run.data)
      BY <1>3 DEF IsPrefix
    <2>3. Down!IsPrefix(given, given')
      BY <1>6, <2>1, <2>2, PipePrefix
    <2> QED BY <1>1, <1>4, <1>6, <1>8, <2>3 DEF Down!Write, Down!Next
  <1> QED BY <1>7, <1>8

LEMMA DownReads ==
    ASSUME IndInv, PaddedRead \/ PlainRead
    PROVE  [Down!Next]_(Down!pipeVars)
  <1>1. /\ Reads /\ run' = run /\ answered' = answered /\ ended' = ended
    BY DEF PaddedRead, PlainRead
  <1>2. TypeInv /\ DownlinkInv /\ IndInv'
    BY PaddedReadStep, PlainReadStep DEF IndInv
  <1>3. /\ reader.at < answered /\ reader.at \in Nat /\ answered \in Nat /\ answered <= Len(run.answer)
        /\ received \in Seq(Nat) /\ Fresh \in Seq(Nat) /\ reader.buf \in Seq(Nat)
        /\ reader.unpadder \in Unpadders /\ Len(run.answer) \in Nat
    BY <1>1, <1>2, FreshIs, RunFacts
  <1>4. ~ended /\ answered # 0
    <2>1. ended => reader.at = Len(run.answer)
      BY <1>2, DownlinkIs
    <2> QED BY <1>3, <2>1
  <1>5. \E out \in Seq(Nat) : received' = received \o out
    <2>1. CASE PlainRead
      BY <1>3, <2>1 DEF PlainRead, Deliver
    <2>2. CASE PaddedRead
      <3> DEFINE c == reader.buf
                 x == Fresh
                 h == reader.header
                 u == reader.unpadder
                 fed == Feed(h, c \o x)
                 got == IF fed.done THEN Unpad(u, fed.buf) ELSE [u |-> u, buf |-> fed.buf, out |-> <<>>]
                 b == Answered
      <3>1. received' = received \/ (~(fed.failed \/ got.u.failed) /\ received' = received \o got.out)
        BY <2>2 DEF PaddedRead, Deliver
      <3>2. b \in Seq(Nat) /\ x \in Seq(Nat) /\ c \in Seq(Nat) /\ u \in Unpadders
        BY <1>1, <1>2, FreshIs
      <3>3. Understood(b, h, c, u, received)
        BY <1>2, DownlinkIs
      <3>4. Reread(fed, got, h, c, u, x)
        BY DEF Reread
      <3> HIDE DEF c, x, h, u, fed, got, b
      <3>5. UnderstoodNext(fed, got, b, x, received)
        BY <1>3, <3>2, <3>3, <3>4, UnderstoodMore
      <3>6. got.out \in Seq(Nat)
        BY <3>5 DEF UnderstoodNext, Readings
      <3> DEFINE e == <<>>
      <3>7. e \in Seq(Nat) /\ received \o e = received
        BY <1>3
      <3> HIDE DEF e
      <3>8. CASE received' = received
        BY <3>7, <3>8
      <3>9. CASE received' = received \o got.out
        BY <3>6, <3>9
      <3> QED BY <3>1, <3>8, <3>9
    <2> QED BY <2>1, <2>2
  <1>6. IsPrefix(received, received')
    <2>1. PICK out \in Seq(Nat) : received' = received \o out
      BY <1>5
    <2> QED BY <1>3, <2>1, PrefixOfConcat
  <1>7. IsPrefix(received', run.data)
    <2>1. Understood(SubSeq(run'.answer, 1, reader'.at), reader'.header, reader'.buf, reader'.unpadder,
                     received')
      BY <1>2 DEF IndInv, DownlinkInv, Understood
    <2>2. reader'.at \in Nat /\ reader'.at <= answered' /\ answered' \in Nat
      BY <1>2 DEF IndInv, TypeInv, Readers
    <2>3. run \in Runs /\ reader'.at \in 0..Len(run.answer)
      BY <1>1, <1>2, <1>3, <2>2 DEF TypeInv
    <2>4. Understood(SubSeq(run.answer, 1, reader'.at), reader'.header, reader'.buf, reader'.unpadder,
                     received')
      BY <1>1, <2>1
    <2> QED BY <2>3, <2>4, UnderstoodData
  <1>8. Down!IsPrefix(received, received') /\ Down!IsPrefix(received', run.data)
    BY <1>6, <1>7, PipePrefix
  <1> DEFINE given == IF answered = 0 THEN <<>> ELSE run.data
  <1>9. given = run.data /\ given' = run.data
    BY <1>1, <1>4
  <1>10. CASE received' = received
    BY <1>1, <1>9, <1>10 DEF Down!pipeVars
  <1>11. CASE received' # received
    BY <1>1, <1>4, <1>8, <1>9, <1>11 DEF Down!Read, Down!Next
  <1> QED BY <1>10, <1>11

LEMMA DownEnds ==
    ASSUME IndInv, AnswerEnds
    PROVE  [Down!Next]_(Down!pipeVars)
  <1>1. /\ run' = run /\ answered' = answered /\ received' = received /\ reader' = reader
        /\ ended' = TRUE /\ reader.at = Len(run.answer)
    BY DEF AnswerEnds
  <1>2. TypeInv /\ DownlinkInv
    BY DEF IndInv
  <1>3. received = run.data
    BY <1>1, DownlinkCarries
  <1>4. answered = 0 => received = <<>>
    <2>1. SUFFICES ASSUME answered = 0 PROVE received = <<>>
      OBVIOUS
    <2>2. reader.at = 0
      BY <1>2, <2>1 DEF TypeInv, Readers
    <2>3. Answered = <<>>
      BY <1>2, <2>2, RunFacts DEF Answered
    <2>4. Understood(Answered, reader.header, reader.buf, reader.unpadder, received)
      BY <1>2, DownlinkIs
    <2>5. Understood(<<>>, reader.header, reader.buf, reader.unpadder, received)
      BY <2>3, <2>4
    <2> QED BY <2>5, NothingRead DEF Understood
  <1> DEFINE given == IF answered = 0 THEN <<>> ELSE run.data
  <1>5. given = received /\ given' = given
    BY <1>1, <1>3, <1>4
  <1> QED BY <1>1, <1>5 DEF Down!Close, Down!Next

LEMMA DownSame ==
    ASSUME run' = run, answered' = answered, received' = received, ended' = ended
    PROVE  UNCHANGED Down!pipeVars
  BY DEF Down!pipeVars

LEMMA DownStep ==
    ASSUME IndInv, [Next]_vars
    PROVE  [Down!Next]_(Down!pipeVars)
  <1>1. CASE ServerAnswers
    BY <1>1, DownSends
  <1>2. CASE PaddedRead \/ PlainRead
    BY <1>2, DownReads
  <1>3. CASE AnswerEnds
    BY <1>3, DownEnds
  <1>4. CASE ~(ServerAnswers \/ PaddedRead \/ PlainRead \/ AnswerEnds)
    <2> DEFINE same == run' = run /\ answered' = answered /\ received' = received /\ ended' = ended
    <2>1. ASSUME ClientSends \/ ServerReads \/ ServerSeesEnd \/ Load \/ Greeting \/ Methods \/ Request PROVE same
      BY <2>1 DEF ClientSends, ServerReads, ServerSeesEnd, Load, Greeting, Methods, Request,
                            downlinkVars
    <2>2. ASSUME DomainLength \/ AddressBytes \/ Port \/ HangsUp \/ Reply \/ NetworkFails PROVE same
      BY <2>2 DEF DomainLength, AddressBytes, Port, HangsUp, Reply, NetworkFails, downlinkVars
    <2>3. ASSUME Connect \/ FirstPayload \/ NoPayload \/ PumpUp \/ PumpUpEnds PROVE same
      BY <2>3 DEF Connect, FirstPayload, NoPayload, PumpUp, PumpUpEnds, downlinkVars
    <2>4. ASSUME UNCHANGED vars PROVE same
      BY <2>4 DEF vars
    <2> HIDE DEF same
    <2>5. same
      BY <1>4, <2>1, <2>2, <2>3, <2>4 DEF Next
    <2> QED BY <2>5, DownSame DEF same
  <1> QED BY <1>1, <1>2, <1>3, <1>4

---------------------------------------------------------------------------
(***************************************************************************)
(* The theorems about a connection.                                        *)
(***************************************************************************)
SessionInv == IndInv /\ DrainedInv

\* SessionInv is inductive: it holds at the start and every step of the
\* client, the handshake, the configuration, both pumps, the network and
\* the server keeps it.
THEOREM Invariance == Spec => []SessionInv
  <1>1. Init => SessionInv
    BY InitStep DEF SessionInv
  <1>2. SessionInv /\ [Next]_vars => SessionInv'
    BY NextStep, DrainedStep DEF SessionInv
  <1> QED BY <1>1, <1>2, PTL DEF Spec

\* The variables have their types, the positions are in order, the sniffing
\* budget never falls below zero, and no frame that the first write or a
\* pump writes, the UUID in front of it included, is longer than the buffer
\* of xray's reader (vision.rs:46).
THEOREM TypeOKTheorem == Spec => []TypeOK
  <1>1. SessionInv => TypeOK
    BY TypeOKHolds DEF SessionInv
  <1> QED BY <1>1, Invariance, PTL

\* However the bytes are cut, the server authenticates the key and the
\* short ID the configuration was written with, and is asked for the user,
\* the flow and the target that the client named; what it sees first is a
\* part of the user's UUID.
THEOREM AsAskedTheorem == Spec => []AsAsked
  <1>1. SessionInv => AsAsked
    BY AsAskedHolds DEF SessionInv
  <1> QED BY <1>1, Invariance, PTL

\* When the wire is read empty the server has all that was taken from the
\* client, and when the answer is read the client has all the proxied data:
\* no stage keeps bytes until the next call (mod.rs:56-65, vision.rs
\* poll_read and poll_write).
THEOREM NothingHeldBackTheorem == Spec => []NothingHeldBack
  <1>1. SessionInv => NothingHeldBack
    BY NothingHeldBackHolds DEF SessionInv
  <1> QED BY <1>1, Invariance, PTL

\* A connection is given up only for a fault of somebody, a configuration
\* or a client at fault never gets through to the server, and a client is
\* told that no method will do only if it offers none (socks5.rs:20-23).
THEOREM RefusedForCauseTheorem == Spec => []RefusedForCause
  <1>1. SessionInv => RefusedForCause
    BY RefusedForCauseHolds DEF SessionInv
  <1> QED BY <1>1, Invariance, PTL

\* A connection implements two byte pipes: what the target gets is what the
\* client sent behind the handshake, what the client gets is the proxied
\* data in the answer, in order, once, and each ends only behind all of it.
THEOREM PipesTheorem == Spec => PipesSpec
  <1>1. Init => Up!Init /\ Down!Init
    BY UpInit, DownInit
  <1>2. SessionInv /\ [Next]_vars => [Up!Next]_(Up!pipeVars) /\ [Down!Next]_(Down!pipeVars)
    BY UpStep, DownStep DEF SessionInv
  <1> QED
    BY <1>1, <1>2, Invariance, PTL DEF Spec, PipesSpec, Up!Spec, Down!Spec
===========================================================================
