------------------------------ MODULE LoginProofs ------------------------------
(***************************************************************************)
(* The throttle of password logins: the slots, the budget and the lockout, *)
(* for any requests, addresses, limits and times.                          *)
(***************************************************************************)
EXTENDS LoginGuard, LoginPipeline, SequenceTheorems, FiniteSetTheorems, WellFoundedInduction,
        TLAPS

(***************************************************************************)
(* Induction and recursion up to a number, in terms of sets and functions. *)
(***************************************************************************)

LEMMA LeastElement ==
    ASSUME NEW T \in SUBSET Nat, T # {}
    PROVE  \E m \in T : \A n \in T : m <= n
<1> DEFINE R == OpToRel(<, Nat)
<1>1. IsWellFoundedOn(R, Nat)
  BY NatLessThanWellFounded
<1>2. \A x, y \in Nat : x < y => <<x, y>> \in R
  BY DEF OpToRel
<1> HIDE DEF R
<1>3. PICK m \in T : \A y \in T : ~ (<<y, m>> \in R)
  BY <1>1, WFMin
<1>4. \A y \in T : ~ (y < m)
  BY <1>2, <1>3
<1> QED BY <1>3, <1>4

LEMMA InductionUpTo ==
    ASSUME NEW N \in Nat, NEW T, 0 \in T, \A n \in 0 .. N - 1 : n \in T => n + 1 \in T
    PROVE  \A n \in 0 .. N : n \in T
<1> SUFFICES ASSUME NEW k \in 0 .. N, k \notin T PROVE FALSE
  OBVIOUS
<1> DEFINE Out == {n \in 0 .. N : n \notin T}
<1>1. PICK m \in Out : \A n \in Out : m <= n
  <2>1. Out \in SUBSET Nat /\ Out # {}
    OBVIOUS
  <2> HIDE DEF Out
  <2> QED BY <2>1, LeastElement
<1>2. m # 0 /\ m - 1 \in 0 .. N - 1
  BY <1>1
<1>3. m - 1 \in T
  BY <1>1, <1>2
<1>4. m - 1 + 1 \in T
  BY <1>2, <1>3
<1> QED BY <1>1, <1>4

\* some function starts with a and goes on with E, up to N
Unrolls(N, S, a, E) ==
    \E h \in [0 .. N -> S] : h[0] = a /\ \A n \in 1 .. N : h[n] = E[<<h[n - 1], n>>]

LEMMA RecursionUpTo ==
    ASSUME NEW N \in Nat, NEW S, NEW a \in S, NEW E \in [S \X (1 .. N) -> S]
    PROVE  Unrolls(N, S, a, E)
<1> DEFINE Upto(k) == \E h \in [0 .. k -> S] :
                         h[0] = a /\ \A n \in 1 .. k : h[n] = E[<<h[n - 1], n>>]
           T == {k \in 0 .. N : Upto(k)}
<1>1. Upto(0)
  <2> DEFINE h == [n \in 0 .. 0 |-> a]
  <2>1. h \in [0 .. 0 -> S] /\ h[0] = a
    OBVIOUS
  <2> HIDE DEF h
  <2> QED BY <2>1
<1>2. ASSUME NEW k \in 0 .. N - 1, Upto(k) PROVE Upto(k + 1)
  <2>1. PICK g \in [0 .. k -> S] :
            g[0] = a /\ \A n \in 1 .. k : g[n] = E[<<g[n - 1], n>>]
    BY <1>2
  <2> DEFINE h == [n \in 0 .. k + 1 |-> IF n = k + 1 THEN E[<<g[k], k + 1>>] ELSE g[n]]
  <2>2. <<g[k], k + 1>> \in S \X (1 .. N)
    BY <2>1
  <2>3. h \in [0 .. k + 1 -> S]
    BY <2>1, <2>2
  <2>4. /\ h[k + 1] = E[<<g[k], k + 1>>]
        /\ \A n \in 0 .. k : h[n] = g[n]
    OBVIOUS
  <2> HIDE DEF h
  <2>5. h[0] = a
    BY <2>1, <2>4
  <2>6. ASSUME NEW n \in 1 .. k + 1 PROVE h[n] = E[<<h[n - 1], n>>]
    <3>1. CASE n = k + 1
      BY <2>4, <3>1
    <3>2. CASE n # k + 1
      <4>1. n \in 1 .. k /\ n - 1 \in 0 .. k
        BY <3>2
      <4> QED BY <2>1, <2>4, <4>1
    <3> QED BY <3>1, <3>2
  <2> QED BY <2>3, <2>5, <2>6
<1> HIDE DEF Upto
<1>3. \A n \in 0 .. N : n \in T
  <2>1. 0 \in T
    BY <1>1
  <2>2. \A n \in 0 .. N - 1 : n \in T => n + 1 \in T
    BY <1>2
  <2> HIDE DEF T
  <2> QED BY <2>1, <2>2, InductionUpTo
<1>4. Upto(N)
  BY <1>3
<1> QED BY <1>4 DEF Upto, Unrolls

(***************************************************************************)
(* The budget: powers, cooldowns and the filter of recordFailure().        *)
(***************************************************************************)

LEMMA PowerType ==
    /\ Power \in [0 .. 30 -> Nat \ {0}]
    /\ Power[0] = 1
    /\ \A l \in 0 .. 29 : Power[l + 1] = 2 * Power[l]
<1> DEFINE E == [p \in (Nat \ {0}) \X (1 .. 30) |-> 2 * p[1]]
           Doubles(h) == h = [l \in 0 .. 30 |-> IF l = 0 THEN 1 ELSE 2 * h[l - 1]]
<1>1. E \in [(Nat \ {0}) \X (1 .. 30) -> Nat \ {0}]
  OBVIOUS
<1>2. \A x \in Nat \ {0}, l \in 1 .. 30 : E[<<x, l>>] = 2 * x
  OBVIOUS
<1> HIDE DEF E
<1>3. PICK h \in [0 .. 30 -> Nat \ {0}] :
          h[0] = 1 /\ \A l \in 1 .. 30 : h[l] = E[<<h[l - 1], l>>]
  <2> DEFINE S == Nat \ {0}
             N == 30
             a == 1
  <2>1. a \in S /\ N \in Nat /\ E \in [S \X (1 .. N) -> S]
    BY <1>1
  <2> HIDE DEF S, N, a
  <2>2. Unrolls(N, S, a, E)
    BY <2>1, RecursionUpTo
  <2> QED BY <2>2 DEF S, N, a, Unrolls
<1>4. ASSUME NEW l \in 1 .. 30 PROVE h[l] = 2 * h[l - 1]
  <2>1. l - 1 \in 0 .. 30
    OBVIOUS
  <2>2. h[l - 1] \in Nat \ {0}
    BY <2>1
  <2> QED BY <1>2, <1>3, <2>2
<1>5. Doubles(h)
  BY <1>3, <1>4
<1>6. Power = [l \in 0 .. 30 |-> IF l = 0 THEN 1 ELSE 2 * Power[l - 1]]
  BY <1>5, Zenon DEF Power
<1>7. Power[0] = 1 /\ \A n \in 0 .. 29 : Power[n + 1] = 2 * Power[n]
  BY <1>6
<1> DEFINE P == {n \in 0 .. 30 : Power[n] \in Nat \ {0}}
<1>8. \A n \in 0 .. 30 : n \in P
  <2>1. 0 \in P
    BY <1>7
  <2>2. \A n \in 0 .. 30 - 1 : n \in P => n + 1 \in P
    BY <1>7
  <2> HIDE DEF P
  <2> QED BY <2>1, <2>2, InductionUpTo
<1> QED BY <1>6, <1>7, <1>8

\* h[n] is what the filter keeps of the first n elements of s
Keeps(s, t, h) ==
    /\ h[0] = <<>>
    /\ \A n \in 0 .. Len(s) - 1 :
          h[n + 1] = IF t - s[n + 1] < Window THEN Append(h[n], s[n + 1]) ELSE h[n]

\* the filter goes through such steps
Filtered(S, s, t) ==
    \E h \in [0 .. Len(s) -> Seq(S)] : Keeps(s, t, h) /\ Recent(s, t) = h[Len(s)]

LEMMA RecentSteps ==
    ASSUME NEW S, NEW s \in Seq(S), NEW t
    PROVE  Filtered(S, s, t)
<1> DEFINE N == Len(s)
           Step(x, n) == IF t - s[n] < Window THEN Append(x, s[n]) ELSE x
           E == [p \in Seq(S) \X (1 .. N) |-> Step(p[1], p[2])]
           Unfolds(h) == h = [n \in 0 .. N |-> IF n = 0 THEN <<>> ELSE Step(h[n - 1], n)]
<1>0. N \in Nat /\ <<>> \in Seq(S)
  BY LenProperties, EmptySeq
<1>1. \A x \in Seq(S), n \in 1 .. N : Step(x, n) \in Seq(S)
  BY ElementOfSeq, AppendProperties
<1>2. E \in [Seq(S) \X (1 .. N) -> Seq(S)] /\ \A x \in Seq(S), n \in 1 .. N : E[<<x, n>>] = Step(x, n)
  <2> HIDE DEF Step, N
  <2> QED BY <1>1
<1>3. \E h : Unfolds(h)
  <2> DEFINE T == Seq(S)
             a == <<>>
  <2> HIDE DEF N, E, T, a, Step
  <2>1. Unrolls(N, T, a, E)
    <3>1. a \in T /\ E \in [T \X (1 .. N) -> T]
      BY <1>0, <1>2 DEF T, a
    <3> QED BY <1>0, <3>1, RecursionUpTo
  <2>2. PICK h \in [0 .. N -> T] : h[0] = a /\ \A n \in 1 .. N : h[n] = E[<<h[n - 1], n>>]
    BY <2>1 DEF Unrolls
  <2>3. \A n \in 1 .. N : h[n] = Step(h[n - 1], n)
    <3> SUFFICES ASSUME NEW n \in 1 .. N PROVE h[n] = Step(h[n - 1], n)
      OBVIOUS
    <3>1. n - 1 \in 0 .. N
      BY <1>0
    <3>2. h[n - 1] \in Seq(S)
      BY <3>1 DEF T
    <3> QED BY <1>2, <2>2, <3>2
  <2>4. Unfolds(h)
    BY <1>0, <2>2, <2>3 DEF a
  <2> QED BY <2>4
<1>4. PICK h : Unfolds(h) /\ Recent(s, t) = h[N]
  BY <1>3, Zenon DEF Recent
<1>5. h[0] = <<>> /\ \A n \in 1 .. N : h[n] = Step(h[n - 1], n)
  <2> HIDE DEF N, Step
  <2> QED BY <1>0, <1>4
<1>6. DOMAIN h = 0 .. N /\ h = [n \in 0 .. N |-> h[n]]
  BY <1>4
<1> DEFINE P == {n \in 0 .. N : h[n] \in Seq(S)}
<1>7. \A n \in 0 .. N : n \in P
  <2> HIDE DEF N, Step
  <2>1. 0 \in P
    <3>1. h[0] \in Seq(S)
      BY <1>0, <1>5, Zenon
    <3> QED BY <1>0, <3>1
  <2>2. \A n \in 0 .. N - 1 : n \in P => n + 1 \in P
    BY <1>0, <1>1, <1>5
  <2> HIDE DEF P
  <2> QED BY <1>0, <2>1, <2>2, InductionUpTo
<1>8. h \in [0 .. N -> Seq(S)]
  BY <1>6, <1>7
<1>9. Keeps(s, t, h)
  <2> SUFFICES ASSUME NEW n \in 0 .. N - 1 PROVE h[n + 1] = Step(h[n], n + 1)
    BY <1>5 DEF Keeps
  <2>1. n + 1 \in 1 .. N /\ n + 1 - 1 = n
    BY <1>0
  <2> HIDE DEF Step, N
  <2> QED BY <1>5, <2>1
<1> QED BY <1>4, <1>8, <1>9 DEF Filtered
LEMMA RecentType ==
    ASSUME NEW S, NEW s \in Seq(S), NEW t
    PROVE  /\ Recent(s, t) \in Seq(S)
           /\ Len(Recent(s, t)) \in Nat /\ Len(Recent(s, t)) <= Len(s)
<1>1. PICK h \in [0 .. Len(s) -> Seq(S)] : Keeps(s, t, h) /\ Recent(s, t) = h[Len(s)]
  BY RecentSteps DEF Filtered
<1> DEFINE N == Len(s)
           P == {n \in 0 .. N : Len(h[n]) <= n}
<1>2. N \in Nat /\ \A n \in 1 .. N : s[n] \in S
  BY LenProperties, ElementOfSeq
<1>3. \A n \in 0 .. N : n \in P
  <2>1. 0 \in P
    <3>1. Len(<<>>) = 0 /\ h[0] = <<>>
      BY <1>1, EmptySeq DEF Keeps
    <3> QED BY <1>2, <3>1
  <2>2. ASSUME NEW n \in 0 .. N - 1, n \in P PROVE n + 1 \in P
    <3>1. n \in 0 .. N /\ n + 1 \in 1 .. N /\ n + 1 - 1 = n
      BY <1>2
    <3>2. h[n] \in Seq(S) /\ Len(h[n]) \in Nat
      BY <1>1, <3>1, LenProperties
    <3>3. Len(Append(h[n], s[n + 1])) = Len(h[n]) + 1
      BY <1>2, <3>1, <3>2, AppendProperties
    <3>4. h[n + 1] = Append(h[n], s[n + 1]) \/ h[n + 1] = h[n]
      BY <1>1 DEF Keeps
    <3> QED BY <1>2, <2>2, <3>1, <3>2, <3>3, <3>4
  <2> HIDE DEF P
  <2> QED BY <1>2, <2>1, <2>2, InductionUpTo
<1>4. Len(h[N]) <= N /\ h[N] \in Seq(S)
  BY <1>1, <1>2, <1>3
<1> QED BY <1>1, <1>4, LenProperties

LEMMA RecentOld ==
    ASSUME NEW S, NEW s \in Seq(S), NEW t, \A x \in S : ~ (t - x < Window)
    PROVE  Recent(s, t) = <<>>
<1>1. PICK h \in [0 .. Len(s) -> Seq(S)] : Keeps(s, t, h) /\ Recent(s, t) = h[Len(s)]
  BY RecentSteps DEF Filtered
<1> DEFINE N == Len(s)
           P == {n \in 0 .. N : h[n] = <<>>}
<1>2. N \in Nat /\ \A n \in 1 .. N : s[n] \in S
  BY LenProperties, ElementOfSeq
<1>3. \A n \in 0 .. N : n \in P
  <2>1. 0 \in P
    BY <1>1, <1>2 DEF Keeps
  <2>2. ASSUME NEW n \in 0 .. N - 1, n \in P PROVE n + 1 \in P
    <3>1. n + 1 \in 1 .. N /\ n + 1 \in 0 .. N /\ n + 1 - 1 = n
      BY <1>2
    <3>2. h[n + 1] = h[n]
      BY <1>1, <1>2, <3>1 DEF Keeps
    <3> QED BY <2>2, <3>1, <3>2
  <2> HIDE DEF P
  <2> QED BY <1>2, <2>1, <2>2, InductionUpTo
<1> QED BY <1>1, <1>2, <1>3

\* An element that is appended to the second of two sequences is appended to both.
AppendsToBoth(S) == \A u, v \in Seq(S), x \in S : Append(u \o v, x) = u \o Append(v, x)

LEMMA AppendToConcat ==
    ASSUME NEW S
    PROVE  AppendsToBoth(S)
<1> SUFFICES ASSUME NEW u \in Seq(S), NEW v \in Seq(S), NEW x \in S
             PROVE  Append(u \o v, x) = u \o Append(v, x)
  BY DEF AppendsToBoth
<1>1. <<x>> \in Seq(S) /\ u \o v \in Seq(S)
  BY ConcatProperties
<1>2. Append(u \o v, x) = (u \o v) \o <<x>>
  BY <1>1, AppendIsConcat
<1>3. Append(v, x) = v \o <<x>>
  BY AppendIsConcat
<1>4. (u \o v) \o <<x>> = u \o (v \o <<x>>)
  BY <1>1, ConcatAssociative
<1> QED BY <1>2, <1>3, <1>4

\* The filter of two sequences is the two filters.
LEMMA RecentConcat ==
    ASSUME NEW S, NEW a \in Seq(S), NEW b \in Seq(S), NEW t
    PROVE  Recent(a \o b, t) = Recent(a, t) \o Recent(b, t)
<1> DEFINE s == a \o b
           M == Len(a)
           N == Len(b)
<1>1. /\ s \in Seq(S) /\ Len(s) = M + N /\ M \in Nat /\ N \in Nat
      /\ \A i \in 1 .. M : s[i] = a[i] /\ a[i] \in S
      /\ \A i \in 1 .. N : s[M + i] = b[i] /\ b[i] \in S
  <2>1. M \in Nat /\ N \in Nat /\ s \in Seq(S) /\ Len(s) = M + N
    BY LenProperties, ConcatProperties
  <2>2. \A i \in 1 .. M + N : s[i] = IF i <= M THEN a[i] ELSE b[i - M]
    BY ConcatProperties
  <2>3. \A i \in 1 .. M : a[i] \in S
    BY ElementOfSeq
  <2>4. \A i \in 1 .. N : b[i] \in S
    BY ElementOfSeq
  <2> HIDE DEF s, M, N
  <2> QED BY <2>1, <2>2, <2>3, <2>4
<1> HIDE DEF s, M, N
<1>2. PICK h \in [0 .. M + N -> Seq(S)] : Keeps(s, t, h) /\ Recent(s, t) = h[M + N]
  <2>1. PICK h \in [0 .. Len(s) -> Seq(S)] : Keeps(s, t, h) /\ Recent(s, t) = h[Len(s)]
    <3>1. Filtered(S, s, t)
      BY <1>1, RecentSteps
    <3> QED BY <3>1 DEF Filtered
  <2> QED BY <1>1, <2>1
<1>3. PICK f \in [0 .. M -> Seq(S)] : Keeps(a, t, f) /\ Recent(a, t) = f[M]
  BY RecentSteps DEF M, Filtered
<1>4. PICK g \in [0 .. N -> Seq(S)] : Keeps(b, t, g) /\ Recent(b, t) = g[N]
  BY RecentSteps DEF N, Filtered
<1> DEFINE P == {n \in 0 .. M : h[n] = f[n]}
           Q == {n \in 0 .. N : h[M + n] = f[M] \o g[n]}
<1>5. \A n \in 0 .. M : n \in P
  <2>1. 0 \in P
    BY <1>1, <1>2, <1>3 DEF Keeps
  <2>2. ASSUME NEW n \in 0 .. M - 1, n \in P PROVE n + 1 \in P
    <3>1. n + 1 \in 1 .. M /\ n + 1 \in 1 .. M + N /\ n + 1 \in 0 .. M /\ n + 1 - 1 = n
      BY <1>1
    <3>2. h[n + 1] = IF t - a[n + 1] < Window THEN Append(h[n], a[n + 1]) ELSE h[n]
      <4>1. n \in 0 .. Len(s) - 1 /\ Len(s) \in Nat
        BY <1>1
      <4>2. h[n + 1] = IF t - s[n + 1] < Window THEN Append(h[n], s[n + 1]) ELSE h[n]
        BY <1>2, <4>1 DEF Keeps
      <4> QED BY <1>1, <3>1, <4>2
    <3>3. f[n + 1] = IF t - a[n + 1] < Window THEN Append(f[n], a[n + 1]) ELSE f[n]
      BY <1>3, <3>1 DEF Keeps, M
    <3> QED BY <2>2, <3>1, <3>2, <3>3
  <2> HIDE DEF P
  <2> QED BY <1>1, <2>1, <2>2, InductionUpTo
<1>6. \A n \in 0 .. N : n \in Q
  <2>0. M \in 0 .. M /\ f[M] \in Seq(S)
    BY <1>1, <1>3
  <2>1. 0 \in Q
    <3>1. h[M] = f[M] /\ M + 0 = M /\ 0 \in 0 .. N
      BY <1>1, <1>5
    <3>2. g[0] = <<>>
      BY <1>4 DEF Keeps
    <3>3. f[M] \o <<>> = f[M]
      BY <2>0, ConcatEmptySeq
    <3> QED BY <3>1, <3>2, <3>3
  <2>2. ASSUME NEW n \in 0 .. N - 1, n \in Q PROVE n + 1 \in Q
    <3>1. /\ n + 1 \in 1 .. N /\ n \in 0 .. N /\ n + 1 \in 0 .. N /\ n + 1 - 1 = n
          /\ M + (n + 1) \in 1 .. M + N /\ M + (n + 1) - 1 = M + n
      BY <1>1
    <3>2. /\ g[n] \in Seq(S) /\ b[n + 1] \in S /\ s[M + (n + 1)] = b[n + 1]
      BY <1>1, <1>4, <3>1
    <3>3. h[M + (n + 1)] = IF t - b[n + 1] < Window THEN Append(h[M + n], b[n + 1]) ELSE h[M + n]
      <4>1. M + n \in 0 .. Len(s) - 1 /\ Len(s) \in Nat /\ M + n + 1 = M + (n + 1)
        BY <1>1
      <4>2. h[M + n + 1] =
              IF t - s[M + n + 1] < Window THEN Append(h[M + n], s[M + n + 1]) ELSE h[M + n]
        BY <1>2, <4>1 DEF Keeps
      <4> QED BY <3>2, <4>1, <4>2
    <3>4. g[n + 1] = IF t - b[n + 1] < Window THEN Append(g[n], b[n + 1]) ELSE g[n]
      BY <1>4, <3>1 DEF Keeps, N
    <3>5. Append(f[M] \o g[n], b[n + 1]) = f[M] \o Append(g[n], b[n + 1])
      <4>1. f[M] \in Seq(S) /\ g[n] \in Seq(S) /\ b[n + 1] \in S
        BY <2>0, <3>2
      <4>2. AppendsToBoth(S)
        BY AppendToConcat
      <4> QED BY <4>1, <4>2 DEF AppendsToBoth
    <3>6. h[M + n] = f[M] \o g[n]
      BY <2>2
    <3>7. h[M + (n + 1)] = f[M] \o g[n + 1]
      BY <3>3, <3>4, <3>5, <3>6
    <3> QED BY <3>1, <3>7
  <2> HIDE DEF Q
  <2> QED BY <1>1, <2>1, <2>2, InductionUpTo
<1>7. h[M + N] = f[M] \o g[N]
  <2>1. N \in 0 .. N
    BY <1>1
  <2>2. N \in Q
    BY <1>6, <2>1
  <2> QED BY <2>2
<1> QED BY <1>2, <1>3, <1>4, <1>7 DEF s
LEMMA CooldownType ==
    \A l \in 0 .. 30 :
       /\ Cooldown(l) \in Nat /\ BaseCooldown <= Cooldown(l) /\ Cooldown(l) <= MaxCooldown
       /\ l < 30 => Cooldown(l + 1) >= MaxCooldown \/ Cooldown(l + 1) >= 2 * Cooldown(l)
       /\ l = 30 => Cooldown(l) = MaxCooldown
<1> SUFFICES ASSUME NEW l \in 0 .. 30
             PROVE  /\ Cooldown(l) \in Nat /\ BaseCooldown <= Cooldown(l)
                    /\ Cooldown(l) <= MaxCooldown
                    /\ l < 30 => \/ Cooldown(l + 1) >= MaxCooldown
                                 \/ Cooldown(l + 1) >= 2 * Cooldown(l)
                    /\ l = 30 => Cooldown(l) = MaxCooldown
  OBVIOUS
<1> DEFINE d(n) == BaseCooldown * Power[n]
<1>1. BaseCooldown \in Nat \ {0} /\ MaxCooldown \in Nat /\ BaseCooldown <= MaxCooldown
  BY BudgetAssumption
<1>2. Power[l] \in Nat /\ Power[l] >= 1
  BY PowerType
<1>3. d(l) \in Nat /\ d(l) >= BaseCooldown
  BY <1>1, <1>2
<1>4. l < 30 => d(l + 1) = 2 * d(l)
  <2>1. l < 30 => Power[l + 1] = 2 * Power[l]
    BY PowerType
  <2> QED BY <1>1, <1>2, <2>1
<1>5. l = 30 => d(l) >= MaxCooldown
  BY <1>1, <1>2, BudgetAssumption
<1>6. \A n \in 0 .. 30 : Cooldown(n) = IF d(n) < MaxCooldown THEN d(n) ELSE MaxCooldown
  BY DEF Cooldown
<1> HIDE DEF d
<1>7. l < 30 => l + 1 \in 0 .. 30
  OBVIOUS
<1> QED BY <1>1, <1>3, <1>4, <1>5, <1>6, <1>7

-----------------------------------------------------------------------------

\* Failures that a cooldown has outlived, or will.
Past == {x \in 0 .. now : x + Window <= cooldownUntil}

\* The list holds the failures since the last trigger; those before it are past.
LogFits == \E old \in Seq(Past) : log = old \o failures

\* The last cooldown had the length of the level before this one.
CooldownFits ==
    \/ level = 0 /\ cooldownUntil = 0 /\ lastTrigger = 0
    \/ \E l \in 0 .. 30 : /\ level = (IF l < 30 THEN l + 1 ELSE 30)
                          /\ cooldownUntil = lastTrigger + Cooldown(l)

BInv ==
    /\ BudgetTypeOK
    /\ lastTrigger <= now
    /\ failures \in Seq(0 .. now)
    /\ LogFits
    /\ CooldownFits

\* What a trigger promises, CooldownDoubles as a step.
Doubling ==
    lastTrigger' # lastTrigger \/ level' # level =>
        /\ cooldownUntil' >= cooldownUntil
        /\ now - lastTrigger <= Calm =>
             LET length == cooldownUntil' - now
             IN length >= MaxCooldown \/ length >= 2 * (cooldownUntil - lastTrigger)

LEMMA BudgetStarts == BudgetInit => BInv
<1> SUFFICES ASSUME BudgetInit PROVE BInv
  OBVIOUS
<1>1. Len(<<>>) = 0 /\ <<>> \in Seq(0 .. MaxTime) /\ <<>> \in Seq(0 .. now) /\ <<>> \in Seq(Past)
  BY EmptySeq
<1>2. <<>> \o <<>> = <<>>
  BY <1>1, ConcatEmptySeq
<1>3. LogFits
  BY <1>1, <1>2 DEF LogFits, BudgetInit
<1>4. BudgetTypeOK
  BY <1>1, BudgetAssumption DEF BudgetInit, BudgetTypeOK
<1> QED BY <1>1, <1>3, <1>4 DEF BInv, BudgetInit, CooldownFits

LEMMA BurstIsMet == BInv => BurstCoolsDown
<1> SUFFICES ASSUME BInv, ~ CoolingDown PROVE ~ (Len(Recent(log, now)) >= FailureLimit)
  BY DEF BurstCoolsDown
<1>1. PICK old \in Seq(Past) : log = old \o failures
  BY DEF BInv, LogFits
<1>2. now \in Nat /\ cooldownUntil \in Nat /\ Window \in Nat /\ FailureLimit \in Nat
  BY BudgetAssumption DEF BInv, BudgetTypeOK
<1>3. \A x \in Past : ~ (now - x < Window)
  BY <1>2 DEF Past, CoolingDown
<1>4. Recent(old, now) = <<>>
  BY <1>3, RecentOld
<1>5. old \in Seq(0 .. now) /\ failures \in Seq(0 .. now)
  BY SeqMonotonic DEF Past, BInv
<1>6. Recent(log, now) = Recent(old, now) \o Recent(failures, now)
  BY <1>1, <1>5, RecentConcat
<1>7. /\ Recent(failures, now) \in Seq(0 .. now)
      /\ Len(Recent(failures, now)) \in Nat
      /\ Len(Recent(failures, now)) <= Len(failures)
  BY <1>5, RecentType
<1>8. Recent(log, now) = Recent(failures, now)
  BY <1>4, <1>6, <1>7, ConcatEmptySeq
<1>9. Len(failures) \in Nat /\ Len(failures) < FailureLimit
  BY LenProperties DEF BInv, BudgetTypeOK
<1> QED BY <1>2, <1>7, <1>8, <1>9

LEMMA TickKeeps ==
    ASSUME BInv, BudgetTick, UNCHANGED budget
    PROVE  BInv'
<1> USE DEF BudgetTick, budget
<1>1. now \in 0 .. MaxTime /\ now' = now + 1 /\ now' \in 0 .. MaxTime /\ MaxTime \in Nat
  BY BudgetAssumption DEF BInv, BudgetTypeOK
<1>2. BudgetTypeOK'
  BY <1>1 DEF BInv, BudgetTypeOK
<1>3. lastTrigger' <= now'
  BY <1>1 DEF BInv, BudgetTypeOK
<1>4. failures' \in Seq(0 .. now')
  BY <1>1, SeqMonotonic DEF BInv
<1>5. LogFits'
  <2>1. PICK old \in Seq(Past) : log = old \o failures
    BY DEF BInv, LogFits
  <2>2. Past \subseteq Past'
    BY <1>1 DEF Past
  <2>3. old \in Seq(Past')
    BY <2>2, SeqMonotonic
  <2> QED BY <2>1, <2>3 DEF LogFits
<1>6. CooldownFits'
  BY DEF BInv, CooldownFits
<1> QED BY <1>2, <1>3, <1>4, <1>5, <1>6 DEF BInv
\* The failures that are kept, and the new one.
LEMMA CountedOnce ==
    ASSUME BInv
    PROVE  /\ Append(Recent(failures, now), now) \in Seq(0 .. now)
           /\ Len(Append(Recent(failures, now), now)) <= Len(failures) + 1
           /\ Append(Recent(log, now), now) \in Seq(0 .. now)
           /\ Len(Append(Recent(log, now), now)) = Len(Recent(log, now)) + 1
           /\ Len(Recent(log, now)) \in Nat
           /\ \E old \in Seq(Past) :
                 Append(Recent(log, now), now) = old \o Append(Recent(failures, now), now)
<1>1. PICK old \in Seq(Past) : log = old \o failures
  BY DEF BInv, LogFits
<1>2. now \in Nat /\ now \in 0 .. now /\ Past \subseteq 0 .. now
  BY BudgetAssumption DEF BInv, BudgetTypeOK, Past
<1>3. old \in Seq(0 .. now) /\ failures \in Seq(0 .. now)
  BY <1>2, SeqMonotonic DEF BInv
<1>4. log \in Seq(0 .. now)
  BY <1>1, <1>3, ConcatProperties
<1>5. /\ Recent(failures, now) \in Seq(0 .. now)
      /\ Len(Recent(failures, now)) \in Nat
      /\ Len(Recent(failures, now)) <= Len(failures)
      /\ Recent(log, now) \in Seq(0 .. now) /\ Len(Recent(log, now)) \in Nat
  BY <1>3, <1>4, RecentType
<1>6. Recent(log, now) = Recent(old, now) \o Recent(failures, now)
  BY <1>1, <1>3, RecentConcat
<1>7. Recent(old, now) \in Seq(Past)
  BY RecentType
<1>8. Append(Recent(log, now), now) = Recent(old, now) \o Append(Recent(failures, now), now)
  <2>1. ASSUME NEW u \in Seq(0 .. now), NEW v \in Seq(0 .. now), NEW x \in 0 .. now
        PROVE  Append(u \o v, x) = u \o Append(v, x)
    <3>1. <<x>> \in Seq(0 .. now) /\ u \o v \in Seq(0 .. now)
      BY ConcatProperties
    <3>2. Append(u \o v, x) = (u \o v) \o <<x>>
      BY <3>1, AppendIsConcat
    <3>3. Append(v, x) = v \o <<x>>
      BY AppendIsConcat
    <3>4. (u \o v) \o <<x>> = u \o (v \o <<x>>)
      BY <3>1, ConcatAssociative
    <3> QED BY <3>2, <3>3, <3>4
  <2>2. Recent(old, now) \in Seq(0 .. now)
    BY <1>2, <1>7, SeqMonotonic
  <2>3. Append(Recent(old, now) \o Recent(failures, now), now)
            = Recent(old, now) \o Append(Recent(failures, now), now)
    <3> DEFINE u == Recent(old, now)
               v == Recent(failures, now)
    <3>1. u \in Seq(0 .. now) /\ v \in Seq(0 .. now)
      BY <1>5, <2>2
    <3> HIDE DEF u, v
    <3>2. Append(u \o v, now) = u \o Append(v, now)
      BY <1>2, <2>1, <3>1
    <3> QED BY <3>2 DEF u, v
  <2> QED BY <1>6, <2>3
<1>9. /\ Append(Recent(failures, now), now) \in Seq(0 .. now)
      /\ Len(Append(Recent(failures, now), now)) = Len(Recent(failures, now)) + 1
      /\ Append(Recent(log, now), now) \in Seq(0 .. now)
      /\ Len(Append(Recent(log, now), now)) = Len(Recent(log, now)) + 1
  BY <1>2, <1>5, AppendProperties
<1>10. Len(failures) \in Nat
  BY <1>3, LenProperties
<1>11. \E o \in Seq(Past) :
          Append(Recent(log, now), now) = o \o Append(Recent(failures, now), now)
  BY <1>7, <1>8, Zenon
<1>12. Len(Append(Recent(failures, now), now)) <= Len(failures) + 1
  BY <1>5, <1>9, <1>10
<1> QED BY <1>5, <1>9, <1>11, <1>12

\* The level goes on from where it is, unless there was a calm hour.
LEMMA PressureFits ==
    ASSUME BInv
    PROVE  /\ Pressure \in 0 .. 30 /\ Cooldown(Pressure) \in Nat
           /\ Window <= Cooldown(Pressure) /\ Cooldown(Pressure) <= MaxCooldown
           /\ cooldownUntil <= now + Cooldown(Pressure)
           /\ now - lastTrigger <= Calm =>
                \/ Cooldown(Pressure) >= MaxCooldown
                \/ Cooldown(Pressure) >= 2 * (cooldownUntil - lastTrigger)
<1>1. /\ now \in Nat /\ lastTrigger \in Nat /\ level \in 0 .. 30 /\ lastTrigger <= now
      /\ cooldownUntil \in Nat
      /\ Window \in Nat /\ BaseCooldown \in Nat /\ Window <= BaseCooldown
      /\ MaxCooldown \in Nat /\ Calm \in Nat /\ MaxCooldown <= Calm
  BY BudgetAssumption DEF BInv, BudgetTypeOK
<1>2. Pressure \in 0 .. 30
  BY <1>1 DEF Pressure
<1>3. /\ Cooldown(Pressure) \in Nat /\ BaseCooldown <= Cooldown(Pressure)
      /\ Cooldown(Pressure) <= MaxCooldown
  BY <1>2, CooldownType
<1>4. CASE level = 0 /\ cooldownUntil = 0 /\ lastTrigger = 0
  BY <1>1, <1>2, <1>3, <1>4
<1>5. CASE \E l \in 0 .. 30 : /\ level = (IF l < 30 THEN l + 1 ELSE 30)
                              /\ cooldownUntil = lastTrigger + Cooldown(l)
  <2>1. PICK l \in 0 .. 30 : /\ level = (IF l < 30 THEN l + 1 ELSE 30)
                             /\ cooldownUntil = lastTrigger + Cooldown(l)
    BY <1>5
  <2>2. Cooldown(l) \in Nat /\ Cooldown(l) <= MaxCooldown
    BY CooldownType
  <2>3. CASE now - lastTrigger > Calm
    <3>1. cooldownUntil <= now + Cooldown(Pressure)
      BY <1>1, <1>3, <2>1, <2>2, <2>3
    <3> QED BY <1>1, <1>2, <1>3, <2>3, <3>1
  <2>4. CASE ~ (now - lastTrigger > Calm)
    <3>1. Pressure = level
      BY <2>4 DEF Pressure
    <3>2. \/ Cooldown(level) >= MaxCooldown
          \/ Cooldown(level) >= 2 * Cooldown(l)
      <4>1. CASE l < 30
        BY <2>1, <4>1, CooldownType
      <4>2. CASE ~ (l < 30)
        <5>1. l = 30 /\ level = 30
          BY <2>1, <4>2
        <5> QED BY <1>1, <5>1, CooldownType
      <4> QED BY <4>1, <4>2
    <3>3. cooldownUntil - lastTrigger = Cooldown(l)
      BY <1>1, <2>1, <2>2
    <3>4. Cooldown(level) >= Cooldown(l)
      BY <1>1, <1>3, <2>2, <3>1, <3>2
    <3> QED BY <1>1, <1>2, <1>3, <2>1, <2>2, <3>1, <3>2, <3>3, <3>4
  <2> QED BY <2>3, <2>4
<1> QED BY <1>4, <1>5 DEF BInv, CooldownFits

LEMMA RecordKeeps ==
    ASSUME BInv, RecordFailure, UNCHANGED now
    PROVE  BInv' /\ Doubling
<1> DEFINE counted == Append(Recent(failures, now), now)
           logged == Append(Recent(log, now), now)
<1>1. /\ now \in 0 .. MaxTime /\ now' = now /\ lastTrigger \in 0 .. MaxTime
      /\ lastTrigger <= now /\ cooldownUntil \in 0 .. MaxTime + MaxCooldown
      /\ MaxTime \in Nat /\ MaxCooldown \in Nat /\ Window \in Nat /\ FailureLimit \in Nat \ {0}
      /\ LogLength \in Nat /\ level \in 0 .. 30
  BY BudgetAssumption DEF BInv, BudgetTypeOK
<1>2. /\ counted \in Seq(0 .. now) /\ logged \in Seq(0 .. now)
      /\ Len(logged) = Len(Recent(log, now)) + 1 /\ Len(Recent(log, now)) \in Nat
      /\ \E old \in Seq(Past) : logged = old \o counted
  BY CountedOnce
<1>3. log' = logged /\ Len(Recent(log, now)) < LogLength
  BY DEF RecordFailure
<1>4. Len(logged) <= LogLength /\ logged \in Seq(0 .. MaxTime) /\ counted \in Seq(0 .. MaxTime)
  <2>1. 0 .. now \subseteq 0 .. MaxTime
    BY <1>1
  <2> HIDE DEF counted, logged
  <2> QED BY <1>1, <1>2, <1>3, <2>1, SeqMonotonic
<1>5. CASE ~ Spent(counted)
  <2>1. failures' = counted /\ UNCHANGED <<cooldownUntil, level, lastTrigger>>
    BY <1>5 DEF RecordFailure
  <2> HIDE DEF counted, logged
  <2>2. Len(counted) < FailureLimit
    BY <1>1, <1>2, <1>5, LenProperties DEF Spent
  <2>3. BudgetTypeOK'
    BY <1>1, <1>3, <1>4, <2>1, <2>2 DEF BudgetTypeOK
  <2>4. LogFits'
    <3>1. PICK old \in Seq(Past) : logged = old \o counted
      BY <1>2
    <3>2. Past' = Past
      BY <1>1, <2>1 DEF Past
    <3> QED BY <1>3, <2>1, <3>1, <3>2 DEF LogFits
  <2>5. CooldownFits'
    BY <2>1 DEF BInv, CooldownFits
  <2> QED BY <1>1, <1>2, <2>1, <2>3, <2>4, <2>5 DEF BInv, Doubling
<1>6. CASE Spent(counted)
  <2>1. /\ cooldownUntil' = now + Cooldown(Pressure)
        /\ lastTrigger' = now
        /\ level' = IF Pressure < 30 THEN Pressure + 1 ELSE 30
        /\ failures' = <<>>
    BY <1>6 DEF RecordFailure
  <2> HIDE DEF counted, logged
  <2>2. /\ Pressure \in 0 .. 30 /\ Cooldown(Pressure) \in Nat
        /\ Window <= Cooldown(Pressure) /\ Cooldown(Pressure) <= MaxCooldown
        /\ cooldownUntil <= now + Cooldown(Pressure)
        /\ now - lastTrigger <= Calm =>
             \/ Cooldown(Pressure) >= MaxCooldown
             \/ Cooldown(Pressure) >= 2 * (cooldownUntil - lastTrigger)
    BY PressureFits
  <2>3. BudgetTypeOK'
    <3>1. failures' \in Seq(0 .. MaxTime) /\ Len(failures') < FailureLimit
      BY <1>1, <2>1, EmptySeq
    <3>2. cooldownUntil' \in 0 .. MaxTime + MaxCooldown /\ level' \in 0 .. 30
      BY <1>1, <2>1, <2>2
    <3> QED BY <1>1, <1>3, <1>4, <2>1, <3>1, <3>2 DEF BudgetTypeOK
  <2>4. LogFits'
    <3>1. 0 .. now \subseteq Past'
      BY <1>1, <2>1, <2>2 DEF Past
    <3>2. logged \in Seq(Past')
      BY <1>2, <3>1, SeqMonotonic
    <3>3. logged \o <<>> = logged
      BY <3>2, ConcatEmptySeq
    <3> QED BY <1>3, <2>1, <3>2, <3>3 DEF LogFits
  <2>5. CooldownFits'
    BY <2>1, <2>2 DEF CooldownFits
  <2>6. failures' \in Seq(0 .. now')
    BY <2>1, EmptySeq
  <2>7. Doubling
    BY <1>1, <2>1, <2>2 DEF Doubling
  <2> QED BY <1>1, <2>1, <2>3, <2>4, <2>5, <2>6, <2>7 DEF BInv
<1> QED BY <1>5, <1>6
(***************************************************************************)
(* The slots.                                                              *)
(***************************************************************************)

\* the tasks that run or wait
InSlots == {t \in Tasks : status[t] # "new"}

Distinct(q) == \A i, j \in 1 .. Len(q) : q[i] = q[j] => i = j

\* SlotsBounded is inductive once it is known what is counted: the tasks that are neither new
\* nor settled.
SInv ==
    /\ SlotsTypeOK
    /\ SlotsBounded
    /\ Distinct(queue)
    /\ \A i \in 1 .. Len(queue) : status[queue[i]] = "queued"
    /\ IsFiniteSet(InSlots) /\ Cardinality(InSlots) = running + Len(queue)

\* the first n tasks of q are started and the others wait
Starts(n, q, s) ==
    /\ status' = [t \in Tasks |-> IF \E i \in 1 .. n : q[i] = t THEN "running" ELSE s[t]]
    /\ Len(queue') = Len(q) - n
    /\ \A i \in 1 .. Len(queue') : queue'[i] = q[n + i]

\* drain() fills the slots, leaves the rest of the queue, and stops at the first of no slot
\* or no task.
LEMMA Drained ==
    ASSUME NEW r \in Int, NEW q \in Seq(Tasks), NEW s, r <= MaxConcurrent, Drain(r, q, s)
    PROVE  /\ running' \in Int /\ queue' \in Seq(Tasks) /\ Len(queue') \in Nat
           /\ running' <= MaxConcurrent
           /\ running' + Len(queue') = r + Len(q)
           /\ Len(queue') > 0 => running' = MaxConcurrent
           /\ \E n \in 0 .. Len(q) : Starts(n, q, s)
<1> DEFINE free == MaxConcurrent - r
           n == IF free < 0 THEN 0 ELSE IF Len(q) < free THEN Len(q) ELSE free
<1>1. /\ running' = r + n /\ queue' = SubSeq(q, n + 1, Len(q))
      /\ status' = [t \in Tasks |-> IF \E i \in 1 .. n : q[i] = t THEN "running" ELSE s[t]]
  BY DEF Drain
<1>2. Len(q) \in Nat /\ free \in Nat /\ MaxConcurrent \in Nat
  BY SlotsAssumption, LenProperties
<1>3. n \in 0 .. Len(q) /\ n <= free /\ (n # Len(q) => n = free)
  BY <1>2
<1> HIDE DEF n
<1>4. /\ queue' \in Seq(Tasks) /\ Len(queue') = Len(q) - n
      /\ \A i \in 1 .. Len(queue') : queue'[i] = q[n + i]
  <2>1. \A i \in n + 1 .. Len(q) : q[i] \in Tasks
    <3> SUFFICES ASSUME NEW i \in n + 1 .. Len(q) PROVE q[i] \in Tasks
      OBVIOUS
    <3>1. i \in 1 .. Len(q)
      BY <1>2, <1>3
    <3> QED BY <3>1, ElementOfSeq
  <2>2. n + 1 \in Int /\ Len(q) \in Int
    BY <1>2, <1>3
  <2>3. /\ SubSeq(q, n + 1, Len(q)) \in Seq(Tasks)
        /\ Len(SubSeq(q, n + 1, Len(q))) = IF n + 1 <= Len(q) THEN Len(q) - (n + 1) + 1 ELSE 0
        /\ \A i \in 1 .. Len(q) - (n + 1) + 1 : SubSeq(q, n + 1, Len(q))[i] = q[n + 1 + i - 1]
    BY <2>1, <2>2, SubSeqProperties
  <2>4. Len(queue') = Len(q) - n
    BY <1>1, <1>2, <1>3, <2>3
  <2>5. \A i \in 1 .. Len(queue') : queue'[i] = q[n + i]
    <3> SUFFICES ASSUME NEW i \in 1 .. Len(queue') PROVE queue'[i] = q[n + i]
      OBVIOUS
    <3>1. i \in 1 .. Len(q) - (n + 1) + 1 /\ n + 1 + i - 1 = n + i
      BY <1>2, <1>3, <2>4
    <3> QED BY <1>1, <2>3, <3>1
  <2> QED BY <1>1, <2>3, <2>4, <2>5
<1>5. Len(queue') \in Nat /\ (Len(queue') > 0 => n = free)
  BY <1>2, <1>3, <1>4
<1>6. r + n \in Int /\ r + n <= MaxConcurrent /\ (n = free => r + n = MaxConcurrent)
  BY <1>2, <1>3
<1>7. r + n + (Len(q) - n) = r + Len(q)
  BY <1>2, <1>3
<1>8. \E k \in 0 .. Len(q) : Starts(k, q, s)
  BY <1>1, <1>3, <1>4 DEF Starts
<1> HIDE DEF free
<1> QED BY <1>1, <1>4, <1>5, <1>6, <1>7, <1>8

\* drain() starts tasks that wait, and moves no other.
LEMMA DrainedTasks ==
    ASSUME NEW r \in Int, NEW q \in Seq(Tasks), r <= MaxConcurrent,
           NEW s \in [Tasks -> {"new", "queued", "running"}], Drain(r, q, s),
           Distinct(q), \A i \in 1 .. Len(q) : s[q[i]] = "queued"
    PROVE  /\ status' \in [Tasks -> {"new", "queued", "running"}]
           /\ InSlots' = {t \in Tasks : s[t] # "new"}
           /\ Distinct(queue')
           /\ \A i \in 1 .. Len(queue') : status'[queue'[i]] = "queued"
<1>1. PICK n \in 0 .. Len(q) :
          /\ status' = [t \in Tasks |-> IF \E i \in 1 .. n : q[i] = t THEN "running" ELSE s[t]]
          /\ Len(queue') = Len(q) - n
          /\ \A i \in 1 .. Len(queue') : queue'[i] = q[n + i]
  <2>1. \E n \in 0 .. Len(q) : Starts(n, q, s)
    BY Drained
  <2> QED BY <2>1 DEF Starts
<1>2. Len(q) \in Nat /\ n \in Nat /\ \A i \in 1 .. Len(q) : q[i] \in Tasks
  BY LenProperties, ElementOfSeq
<1>3. \A i \in 1 .. Len(queue') : n + i \in 1 .. Len(q) /\ queue'[i] = q[n + i]
  BY <1>1, <1>2
<1>4. \A i \in 1 .. n : i \in 1 .. Len(q)
  BY <1>2
<1>5. status' \in [Tasks -> {"new", "queued", "running"}]
  BY <1>1
<1>6. InSlots' = {t \in Tasks : s[t] # "new"}
  <2>1. \A t \in Tasks : status'[t] # "new" <=> s[t] # "new"
    <3> SUFFICES ASSUME NEW t \in Tasks PROVE status'[t] # "new" <=> s[t] # "new"
      OBVIOUS
    <3>1. CASE \E i \in 1 .. n : q[i] = t
      <4>1. status'[t] = "running"
        BY <1>1, <3>1
      <4>2. s[t] = "queued"
        BY <1>4, <3>1
      <4> QED BY <4>1, <4>2
    <3>2. CASE ~ \E i \in 1 .. n : q[i] = t
      BY <1>1, <3>2
    <3> QED BY <3>1, <3>2
  <2> QED BY <2>1 DEF InSlots
<1>7. Distinct(queue')
  BY <1>2, <1>3 DEF Distinct
<1>8. \A i \in 1 .. Len(queue') : status'[queue'[i]] = "queued"
  <2> SUFFICES ASSUME NEW i \in 1 .. Len(queue') PROVE status'[q[n + i]] = "queued"
    BY <1>3
  <2>1. n + i \in 1 .. Len(q) /\ q[n + i] \in Tasks /\ s[q[n + i]] = "queued"
    BY <1>2, <1>3
  <2>2. ~ \E j \in 1 .. n : q[j] = q[n + i]
    BY <1>2, <1>4, <2>1 DEF Distinct
  <2> QED BY <1>1, <2>1, <2>2
<1> QED BY <1>5, <1>6, <1>7, <1>8

\* The queue grows only when every slot is taken and it has a place.
LEMMA RunKeeps ==
    ASSUME SInv, NEW t \in Tasks, Run(t)
    PROVE  SInv' /\ InSlots' = InSlots \cup {t}
<1> DEFINE q == Append(queue, t)
           s == [status EXCEPT ![t] = "queued"]
<1>1. /\ q \in Seq(Tasks) /\ Len(q) = Len(queue) + 1 /\ Len(queue) \in Nat
      /\ \A i \in 1 .. Len(queue) : q[i] = queue[i] /\ queue[i] \in Tasks
      /\ q[Len(queue) + 1] = t
  BY AppendProperties, LenProperties, ElementOfSeq DEF SInv, SlotsTypeOK
<1>2. /\ running \in Int /\ running <= MaxConcurrent /\ Drain(running, q, s)
      /\ status \in [Tasks -> {"new", "queued", "running"}] /\ status[t] = "new"
  BY DEF SInv, SlotsTypeOK, SlotsBounded, Run
<1>3. s \in [Tasks -> {"new", "queued", "running"}]
  BY <1>2
<1>4. \A i \in 1 .. Len(q) : i \in 1 .. Len(queue) \/ i = Len(queue) + 1
  BY <1>1
<1>5. \A i \in 1 .. Len(queue) : queue[i] # t
  BY <1>2 DEF SInv
<1>6. \A x \in Tasks : s[x] = IF x = t THEN "queued" ELSE status[x]
  BY <1>2
<1> HIDE DEF q, s
<1>7. Distinct(q)
  <2> SUFFICES ASSUME NEW i \in 1 .. Len(q), NEW j \in 1 .. Len(q), q[i] = q[j] PROVE i = j
    BY DEF Distinct
  <2>1. CASE i \in 1 .. Len(queue) /\ j \in 1 .. Len(queue)
    BY <1>1, <2>1 DEF SInv, Distinct
  <2>2. CASE i = Len(queue) + 1 /\ j = Len(queue) + 1
    BY <2>2
  <2>3. CASE i = Len(queue) + 1 /\ j \in 1 .. Len(queue)
    BY <1>1, <1>5, <2>3
  <2>4. CASE i \in 1 .. Len(queue) /\ j = Len(queue) + 1
    BY <1>1, <1>5, <2>4
  <2> QED BY <1>4, <2>1, <2>2, <2>3, <2>4
<1>8. \A i \in 1 .. Len(q) : s[q[i]] = "queued"
  BY <1>1, <1>4, <1>6 DEF SInv
<1>9. /\ running' \in Int /\ queue' \in Seq(Tasks) /\ running' <= MaxConcurrent
      /\ Len(queue') \in Nat
      /\ running' + Len(queue') = running + Len(q)
      /\ Len(queue') > 0 => running' = MaxConcurrent
  BY <1>1, <1>2, Drained
<1>10. /\ status' \in [Tasks -> {"new", "queued", "running"}]
       /\ InSlots' = {x \in Tasks : s[x] # "new"}
       /\ Distinct(queue')
       /\ \A i \in 1 .. Len(queue') : status'[queue'[i]] = "queued"
  BY <1>1, <1>2, <1>3, <1>7, <1>8, DrainedTasks
<1>11. InSlots' = InSlots \cup {t} /\ t \notin InSlots
  BY <1>2, <1>6, <1>10 DEF InSlots
<1>12. IsFiniteSet(InSlots') /\ Cardinality(InSlots') = Cardinality(InSlots) + 1
  BY <1>11, FS_AddElement DEF SInv
<1>13. Cardinality(InSlots') = running' + Len(queue') /\ Cardinality(InSlots') \in Nat
  <2>1. Cardinality(InSlots) = running + Len(queue)
    BY DEF SInv
  <2> QED BY <1>1, <1>2, <1>9, <1>12, <2>1, FS_CardinalityType
<1>14. running >= MaxConcurrent => Len(queue) < MaxQueue
  BY <1>1, <1>2, SlotsAssumption DEF Run, Full
<1>15. running < MaxConcurrent => Len(queue) = 0
  BY <1>1, <1>2, EmptySeq DEF SInv, SlotsBounded
<1>16. queue' # <<>> => Len(queue') > 0
  BY <1>9, EmptySeq
<1>17. Len(queue') <= MaxQueue
  BY <1>1, <1>2, <1>9, <1>14, <1>15, SlotsAssumption DEF SInv, SlotsBounded
<1>18. running' \in Nat
  BY <1>9, <1>13, SlotsAssumption
<1>19. SlotsTypeOK' /\ SlotsBounded'
  BY <1>9, <1>10, <1>16, <1>17, <1>18 DEF SlotsTypeOK, SlotsBounded
<1> QED BY <1>10, <1>11, <1>12, <1>13, <1>19 DEF SInv

\* The slot of a finished task goes to the head of the queue, if there is one.
LEMMA SettleKeeps ==
    ASSUME SInv, NEW t \in Tasks, Settle(t)
    PROVE  SInv' /\ InSlots' = InSlots \ {t} /\ t \in InSlots
<1> DEFINE s == [status EXCEPT ![t] = "new"]
<1>1. /\ queue \in Seq(Tasks) /\ Len(queue) \in Nat
      /\ \A i \in 1 .. Len(queue) : queue[i] \in Tasks
  BY LenProperties, ElementOfSeq DEF SInv, SlotsTypeOK
<1>2. /\ running - 1 \in Int /\ running - 1 <= MaxConcurrent /\ running \in Nat
      /\ Drain(running - 1, queue, s)
      /\ status \in [Tasks -> {"new", "queued", "running"}] /\ status[t] = "running"
  BY SlotsAssumption DEF SInv, SlotsTypeOK, SlotsBounded, Settle
<1>3. s \in [Tasks -> {"new", "queued", "running"}]
  BY <1>2
<1>4. \A x \in Tasks : s[x] = IF x = t THEN "new" ELSE status[x]
  BY <1>2
<1> HIDE DEF s
<1>5. \A i \in 1 .. Len(queue) : s[queue[i]] = "queued"
  BY <1>1, <1>2, <1>4 DEF SInv
<1>6. Distinct(queue)
  BY DEF SInv
<1>7. /\ running' \in Int /\ queue' \in Seq(Tasks) /\ running' <= MaxConcurrent
      /\ Len(queue') \in Nat
      /\ running' + Len(queue') = running - 1 + Len(queue)
      /\ Len(queue') > 0 => running' = MaxConcurrent
  BY <1>1, <1>2, Drained
<1>8. /\ status' \in [Tasks -> {"new", "queued", "running"}]
      /\ InSlots' = {x \in Tasks : s[x] # "new"}
      /\ Distinct(queue')
      /\ \A i \in 1 .. Len(queue') : status'[queue'[i]] = "queued"
  BY <1>1, <1>2, <1>3, <1>5, <1>6, DrainedTasks
<1>9. InSlots' = InSlots \ {t} /\ t \in InSlots
  BY <1>2, <1>4, <1>8 DEF InSlots
<1>10. IsFiniteSet(InSlots') /\ Cardinality(InSlots') = Cardinality(InSlots) - 1
  BY <1>9, FS_RemoveElement DEF SInv
<1>11. Cardinality(InSlots') = running' + Len(queue') /\ Cardinality(InSlots') \in Nat
  <2>1. Cardinality(InSlots) = running + Len(queue)
    BY DEF SInv
  <2> QED BY <1>1, <1>2, <1>7, <1>10, <2>1, FS_CardinalityType
<1>12. queue' # <<>> => Len(queue') > 0
  BY <1>7, EmptySeq
<1>13. Len(queue') <= MaxQueue
  <2>1. CASE Len(queue') = 0
    BY <2>1, SlotsAssumption
  <2>2. CASE Len(queue') # 0
    <3>1. running' = MaxConcurrent /\ running <= MaxConcurrent /\ Len(queue) <= MaxQueue
      BY <1>7, <2>2 DEF SInv, SlotsBounded
    <3> QED BY <1>1, <1>2, <1>7, <3>1, SlotsAssumption
  <2> QED BY <2>1, <2>2
<1>14. running' \in Nat
  BY <1>7, <1>11, SlotsAssumption
<1>15. SlotsTypeOK' /\ SlotsBounded'
  BY <1>7, <1>8, <1>12, <1>13, <1>14 DEF SlotsTypeOK, SlotsBounded
<1> QED BY <1>8, <1>9, <1>10, <1>11, <1>15 DEF SInv

LEMMA SlotsStart == SlotsInit => SInv /\ InSlots = {}
<1> SUFFICES ASSUME SlotsInit PROVE SInv /\ InSlots = {}
  OBVIOUS
<1>1. /\ <<>> \in Seq(Tasks) /\ Len(<<>>) = 0
  BY EmptySeq
<1>2. SlotsTypeOK
  BY <1>1 DEF SlotsInit, SlotsTypeOK
<1>3. SlotsBounded
  BY <1>1, SlotsAssumption DEF SlotsInit, SlotsBounded
<1>4. InSlots = {}
  BY DEF SlotsInit, InSlots
<1>5. IsFiniteSet(InSlots) /\ Cardinality(InSlots) = running + Len(queue)
  BY <1>1, <1>4, FS_EmptySet DEF SlotsInit
<1> QED BY <1>1, <1>2, <1>3, <1>4, <1>5 DEF SInv, SlotsInit, Distinct
\* However many verifications are asked for and in whatever order they end, no more run
\* than there are slots, no more wait than the queue allows, and none waits beside a free
\* slot.
THEOREM SlotsAreBounded == SlotsSpec => []SlotsBounded
<1>1. SlotsInit => SInv
  BY SlotsStart
<1>2. SInv /\ [SlotsNext]_slotVars => SInv'
  <2> SUFFICES ASSUME SInv, [SlotsNext]_slotVars PROVE SInv'
    OBVIOUS
  <2>1. CASE SlotsNext
    BY <2>1, RunKeeps, SettleKeeps DEF SlotsNext
  <2>2. CASE UNCHANGED slotVars
    BY <2>2 DEF slotVars, SInv, SlotsBounded, SlotsTypeOK, InSlots, Distinct
  <2> QED BY <2>1, <2>2
<1>3. SInv => SlotsBounded
  BY DEF SInv
<1> QED BY <1>1, <1>2, <1>3, PTL DEF SlotsSpec

(***************************************************************************)
(* Slots and budget together.                                              *)
(***************************************************************************)

LEMMA BudgetRests ==
    ASSUME BInv, UNCHANGED budgetVars
    PROVE  BInv'
BY DEF budgetVars, BInv, BudgetTypeOK, LogFits, Past, CooldownFits

LEMMA SlotsRest ==
    ASSUME SInv, UNCHANGED slotVars
    PROVE  SInv' /\ InSlots' = InSlots
BY DEF slotVars, SInv, SlotsBounded, SlotsTypeOK, InSlots, Distinct

LEMMA GuardStep ==
    ASSUME BInv, SInv, [GuardNext]_guardVars
    PROVE  BInv' /\ SInv' /\ (UNCHANGED budgetVars \/ Doubling)
<1>1. ASSUME NEW t \in Tasks, Admit(t) PROVE BInv' /\ SInv' /\ UNCHANGED budgetVars
  BY <1>1, BudgetRests, RunKeeps DEF Admit
<1>2. ASSUME NEW t \in Tasks, Succeeds(t) PROVE BInv' /\ SInv' /\ UNCHANGED budgetVars
  BY <1>2, BudgetRests, SettleKeeps DEF Succeeds
<1>3. ASSUME NEW t \in Tasks, Fails(t) PROVE BInv' /\ SInv' /\ Doubling
  BY <1>3, RecordKeeps, SettleKeeps DEF Fails
<1>4. CASE BudgetTick /\ UNCHANGED <<budget, slotVars>>
  BY <1>4, TickKeeps, SlotsRest DEF Doubling, budget
<1>5. CASE UNCHANGED guardVars
  BY <1>5, BudgetRests, SlotsRest DEF guardVars
<1> QED BY <1>1, <1>2, <1>3, <1>4, <1>5 DEF GuardNext

LEMMA GuardInvariant == FairGuardSpec => [](BInv /\ SInv)
<1>1. GuardInit => BInv /\ SInv
  BY BudgetStarts, SlotsStart DEF GuardInit
<1>2. BInv /\ SInv /\ [GuardNext]_guardVars => (BInv /\ SInv)'
  BY GuardStep
<1> QED BY <1>1, <1>2, PTL DEF FairGuardSpec

\* A burst is contained, for any limits and windows: the slots and the queue keep their limits, and
\* as many failures as the limit within a window start a cooldown, though the list is
\* cleared at every trigger and filtered at every failure (recordFailure, run, drain).
THEOREM GuardContainsBursts == FairGuardSpec => []BurstsAreContained
<1>1. BInv /\ SInv => BurstsAreContained
  BY BurstIsMet DEF BInv, SInv, BurstsAreContained
<1> QED BY <1>1, GuardInvariant, PTL

\* No failure shortens a cooldown, and each cooldown under pressure is twice the one before
\* it or the longest (recordFailure: level and cooldownUntil).
THEOREM GuardDoublesCooldowns == FairGuardSpec => CooldownDoubles
<1>1. BInv /\ SInv /\ [GuardNext]_guardVars => [Doubling]_budgetVars
  BY GuardStep
<1>2. FairGuardSpec => [][Doubling]_budgetVars
  BY <1>1, GuardInvariant, PTL DEF FairGuardSpec
<1> QED BY <1>2 DEF CooldownDoubles, Doubling
(***************************************************************************)
(* The pipeline.                                                           *)
(***************************************************************************)

\* A row is locked, now or before, exactly when its attempts are used up.
RowFits(row) == row.lockedUntil # 0 <=> row.attempts >= MaxAttempts

\* Whatever the moment, also while microtasks run, the row counts what was admitted.
RowsCount ==
    \A i \in Ips : RowFits(lockouts[i]) /\ tries[i] <= lockouts[i].attempts /\ tries[i] <= MaxAttempts

\* A handler waits in one microtask at a time.
OneMicrotask ==
    \A j, k \in 1 .. Len(micro) :
        /\ stage[micro[j][1]] = "micro"
        /\ micro[j][1] = micro[k][1] => j = k

\* A snapshot that will be put back was taken when everything was full, so that nothing has been
\* admitted after it, and it counts what was admitted before.
SnapshotsCount ==
    \A k \in 1 .. Len(micro) : micro[k][2] = "rollback" =>
        LET r == micro[k][1] IN
        Full /\ RowFits(before[r]) /\ tries[ipOf[r]] <= before[r].attempts

\* What the slots hold cannot spend the budget again while a cooldown runs.
Chargeable == {r \in InSlots : ipOf[r] \notin Exempt}
Spared == CoolingDown => Len(failures) + Cardinality(Chargeable) < FailureLimit

PInv ==
    /\ TypeOK /\ BInv /\ SInv
    /\ RowsCount /\ OneMicrotask /\ SnapshotsCount /\ Spared
Microtask == Requests \X {"attempt", "rollback"}

\* A microtask leaves the queue.
LEMMA ThenNothing ==
    ASSUME micro \in Seq(Microtask), micro # <<>>, Then(<<>>)
    PROVE  /\ micro' \in Seq(Microtask) /\ draining' \in BOOLEAN
           /\ Len(micro) \in Nat \ {0} /\ Len(micro') = Len(micro) - 1
           /\ micro[1] = Head(micro)
           /\ \A k \in 1 .. Len(micro') : k + 1 \in 1 .. Len(micro) /\ micro'[k] = micro[k + 1]
<1>1. /\ Tail(micro) \in Seq(Microtask) /\ Len(Tail(micro)) = Len(micro) - 1
      /\ \A k \in 1 .. Len(Tail(micro)) : Tail(micro)[k] = micro[k + 1]
  BY HeadTailProperties
<1>2. Len(micro) \in Nat \ {0}
  BY EmptySeq
<1>3. micro' = Tail(micro) /\ draining' \in BOOLEAN
  BY <1>1, ConcatEmptySeq DEF Then
<1>4. micro[1] = Head(micro)
  OBVIOUS
<1> QED BY <1>1, <1>2, <1>3, <1>4

\* A microtask leaves the queue and e comes last.
LEMMA ThenLast ==
    ASSUME NEW e \in Microtask, micro \in Seq(Microtask), micro # <<>>, Then(<<e>>)
    PROVE  /\ micro' \in Seq(Microtask) /\ draining' \in BOOLEAN
           /\ Len(micro) \in Nat \ {0} /\ Len(micro') = Len(micro)
           /\ micro[1] = Head(micro)
           /\ \A k \in 1 .. Len(micro') :
                 IF k < Len(micro) THEN k + 1 \in 1 .. Len(micro) /\ micro'[k] = micro[k + 1]
                                   ELSE micro'[k] = e
<1>1. /\ Tail(micro) \in Seq(Microtask) /\ Len(Tail(micro)) = Len(micro) - 1
      /\ \A k \in 1 .. Len(Tail(micro)) : Tail(micro)[k] = micro[k + 1]
  BY HeadTailProperties
<1>2. Len(micro) \in Nat \ {0}
  BY EmptySeq
<1>3. <<e>> \in Seq(Microtask) /\ Len(<<e>>) = 1 /\ <<e>>[1] = e
  OBVIOUS
<1>4. micro' = Tail(micro) \o <<e>> /\ draining' \in BOOLEAN
  BY DEF Then
<1>5. /\ micro' \in Seq(Microtask) /\ Len(micro') = Len(micro)
      /\ \A k \in 1 .. Len(micro) :
            micro'[k] = IF k <= Len(micro) - 1 THEN Tail(micro)[k] ELSE <<e>>[k - (Len(micro) - 1)]
  <2> DEFINE u == Tail(micro)
             v == <<e>>
             N == Len(micro)
  <2>1. u \in Seq(Microtask) /\ v \in Seq(Microtask) /\ Len(u) = N - 1 /\ Len(v) = 1 /\ N \in Nat
    BY <1>1, <1>2, <1>3
  <2>2. micro' = u \o v
    BY <1>4
  <2> HIDE DEF u, v, N
  <2>3. /\ u \o v \in Seq(Microtask) /\ Len(u \o v) = Len(u) + Len(v)
        /\ \A k \in 1 .. Len(u) + Len(v) : (u \o v)[k] = IF k <= Len(u) THEN u[k] ELSE v[k - Len(u)]
    BY <2>1, ConcatProperties
  <2>4. /\ micro' \in Seq(Microtask) /\ Len(micro') = N
        /\ \A k \in 1 .. N : micro'[k] = IF k <= N - 1 THEN u[k] ELSE v[k - (N - 1)]
    BY <2>1, <2>2, <2>3
  <2> QED BY <2>4 DEF u, v, N
<1>6. micro[1] = Head(micro)
  OBVIOUS
<1>7. ASSUME NEW k \in 1 .. Len(micro')
      PROVE  IF k < Len(micro) THEN k + 1 \in 1 .. Len(micro) /\ micro'[k] = micro[k + 1]
                               ELSE micro'[k] = e
  <2>1. CASE k < Len(micro)
    <3>1. k \in 1 .. Len(Tail(micro)) /\ k \in 1 .. Len(micro) /\ k <= Len(micro) - 1
      BY <1>1, <1>2, <1>5, <2>1
    <3>2. micro'[k] = Tail(micro)[k]
      BY <1>5, <3>1
    <3> QED BY <1>1, <1>2, <2>1, <3>1, <3>2
  <2>2. CASE ~ (k < Len(micro))
    <3>1. k = Len(micro) /\ k - (Len(micro) - 1) = 1 /\ ~ (k <= Len(micro) - 1)
      BY <1>2, <1>5, <2>2
    <3>2. micro'[k] = <<e>>[1]
      BY <1>2, <1>5, <3>1
    <3> QED BY <1>3, <2>2, <3>2
  <2> QED BY <2>1, <2>2
<1> QED BY <1>2, <1>4, <1>5, <1>6, <1>7

\* A row that is not locked has attempts left once checkLockout has seen it.
LEMMA ClearedRow ==
    ASSUME NEW row \in Lockout, RowFits(row), now \in Nat
    PROVE  /\ Cleared(row) \in Lockout /\ RowFits(Cleared(row))
           /\ Expired(row) => Cleared(row).attempts = 0
           /\ ~ Expired(row) => Cleared(row) = row
           /\ ~ Locked(row) => Cleared(row).lockedUntil = 0 /\ Cleared(row).attempts < MaxAttempts
<1>1. NoAttempts \in Lockout /\ RowFits(NoAttempts) /\ NoAttempts.attempts = 0
  BY PipelineAssumption DEF NoAttempts, Lockout, RowFits
<1>2. row.attempts \in Nat /\ row.lockedUntil \in Nat /\ MaxAttempts \in Nat
  BY PipelineAssumption DEF Lockout
<1>3. CASE Expired(row)
  BY <1>1, <1>3, PipelineAssumption DEF Cleared, NoAttempts
<1>4. CASE ~ Expired(row)
  <2>1. Cleared(row) = row
    BY <1>4 DEF Cleared
  <2>2. ~ Locked(row) => row.lockedUntil = 0
    BY <1>2, <1>4 DEF Locked, Expired
  <2> QED BY <1>2, <1>4, <2>1, <2>2 DEF RowFits
<1> QED BY <1>3, <1>4

LEMMA ChargedRow ==
    ASSUME NEW row \in Lockout, row.lockedUntil = 0, now \in Nat
    PROVE  /\ Charged(row) \in Lockout /\ RowFits(Charged(row))
           /\ Charged(row).attempts = row.attempts + 1
<1>1. row.attempts \in Nat /\ MaxAttempts \in Nat /\ LockTime \in Nat \ {0}
  BY PipelineAssumption DEF Lockout
<1> QED BY <1>1 DEF Charged, Lockout, RowFits

\* checkLockout keeps the count.
LEMMA CheckKeepsRows ==
    ASSUME PInv, NEW i \in Ips, CheckLockout(i)
    PROVE  /\ lockouts' \in [Ips -> Lockout] /\ tries' \in [Ips -> Nat]
           /\ \A j \in Ips : /\ RowFits(lockouts'[j])
                             /\ tries'[j] <= lockouts'[j].attempts
                             /\ tries'[j] <= tries[j]
<1>1. /\ now \in Nat /\ lockouts \in [Ips -> Lockout] /\ tries \in [Ips -> Nat]
      /\ lockouts[i] \in Lockout /\ RowFits(lockouts[i])
  BY DEF PInv, TypeOK, BudgetTypeOK, RowsCount
<1>2. /\ Cleared(lockouts[i]) \in Lockout /\ RowFits(Cleared(lockouts[i]))
      /\ Expired(lockouts[i]) => Cleared(lockouts[i]).attempts = 0
      /\ ~ Expired(lockouts[i]) => Cleared(lockouts[i]) = lockouts[i]
  BY <1>1, ClearedRow
<1>3. /\ lockouts' = [lockouts EXCEPT ![i] = Cleared(lockouts[i])]
      /\ tries' = IF Expired(lockouts[i]) THEN [tries EXCEPT ![i] = 0] ELSE tries
  BY DEF CheckLockout
<1>4. lockouts' \in [Ips -> Lockout] /\ tries' \in [Ips -> Nat]
  BY <1>1, <1>2, <1>3
<1>5. ASSUME NEW j \in Ips
      PROVE  RowFits(lockouts'[j]) /\ tries'[j] <= lockouts'[j].attempts /\ tries'[j] <= tries[j]
  <2>1. RowFits(lockouts[j]) /\ tries[j] <= lockouts[j].attempts /\ tries[j] \in Nat
    BY <1>1 DEF PInv, RowsCount
  <2>2. CASE j # i
    BY <1>1, <1>3, <2>1, <2>2
  <2>3. CASE j = i
    BY <1>1, <1>2, <1>3, <2>1, <2>3
  <2> QED BY <2>2, <2>3
<1> QED BY <1>4, <1>5
\* What a step that leaves budget, slots and addresses alone need not show.
LEMMA GuardRests ==
    ASSUME PInv, UNCHANGED <<budgetVars, slotVars, ipOf>>
    PROVE  /\ BInv' /\ SInv' /\ Spared' /\ now' = now
           /\ ipOf' \in [Requests -> Ips] /\ (Full' <=> Full)
<1>1. BInv' /\ SInv' /\ InSlots' = InSlots
  BY BudgetRests, SlotsRest DEF PInv
<1>2. Chargeable' = Chargeable
  BY <1>1 DEF Chargeable
<1>3. Spared'
  BY <1>2 DEF PInv, Spared, CoolingDown, budgetVars
<1> QED BY <1>1, <1>3 DEF PInv, TypeOK, Full, slotVars, budgetVars

\* A step that keeps the snapshots, and raises no count of admitted attempts.
LEMMA SnapshotsKept ==
    ASSUME PInv, UNCHANGED ipOf, Full' <=> Full,
           tries' \in [Ips -> Nat], \A i \in Ips : tries'[i] <= tries[i],
           \A k \in 1 .. Len(micro') : micro'[k][2] = "rollback" =>
              \E j \in 1 .. Len(micro) :
                 micro'[k] = micro[j] /\ before'[micro[j][1]] = before[micro[j][1]]
    PROVE  SnapshotsCount'
<1> SUFFICES ASSUME NEW k \in 1 .. Len(micro'), micro'[k][2] = "rollback"
             PROVE  /\ Full' /\ RowFits(before'[micro'[k][1]])
                    /\ tries'[ipOf'[micro'[k][1]]] <= before'[micro'[k][1]].attempts
  BY DEF SnapshotsCount, RowFits
<1>1. PICK j \in 1 .. Len(micro) :
          micro'[k] = micro[j] /\ before'[micro[j][1]] = before[micro[j][1]]
  OBVIOUS
<1> DEFINE r == micro[j][1]
<1>2. micro[j] \in Requests \X {"attempt", "rollback"}
  BY ElementOfSeq DEF PInv, TypeOK
<1>3. r \in Requests /\ ipOf[r] \in Ips /\ before[r] \in Lockout
  BY <1>2 DEF PInv, TypeOK
<1>4. Full /\ RowFits(before[r]) /\ tries[ipOf[r]] <= before[r].attempts
  BY <1>1 DEF PInv, SnapshotsCount
<1>5. /\ tries'[ipOf[r]] \in Nat /\ tries'[ipOf[r]] <= tries[ipOf[r]] /\ tries[ipOf[r]] \in Nat
      /\ before[r].attempts \in Nat
  BY <1>3 DEF PInv, TypeOK, Lockout
<1> QED BY <1>1, <1>4, <1>5

LEMMA BeginKeeps ==
    ASSUME PInv, NEW r \in Requests, NEW p \in BOOLEAN, Begin(r, p)
    PROVE  PInv'
<1>1. /\ BInv' /\ SInv' /\ Spared' /\ now' = now
      /\ ipOf' \in [Requests -> Ips] /\ (Full' <=> Full)
  BY GuardRests DEF Begin
<1>2. ipOf[r] \in Ips
  BY DEF PInv, TypeOK
<1>3. /\ lockouts' \in [Ips -> Lockout] /\ tries' \in [Ips -> Nat]
      /\ \A j \in Ips : /\ RowFits(lockouts'[j])
                        /\ tries'[j] <= lockouts'[j].attempts
                        /\ tries'[j] <= tries[j]
  BY <1>2, CheckKeepsRows DEF Begin
<1>4. UNCHANGED <<ipOf, before, micro, draining>> /\ stage[r] = "idle"
  BY DEF Begin
<1>5. TypeOK'
  BY <1>1, <1>3, <1>4 DEF PInv, TypeOK, Begin, BInv, SInv
<1>6. RowsCount'
  <2>1. \A j \in Ips : tries[j] <= MaxAttempts /\ tries[j] \in Nat /\ tries'[j] \in Nat
    BY <1>3 DEF PInv, RowsCount, TypeOK
  <2> QED BY <1>3, <2>1, PipelineAssumption DEF RowsCount, RowFits
<1>7. OneMicrotask'
  <2>1. \A j \in 1 .. Len(micro) : micro[j] \in Requests \X {"attempt", "rollback"}
    BY ElementOfSeq DEF PInv, TypeOK
  <2> QED BY <1>4, <2>1 DEF PInv, OneMicrotask, Begin, TypeOK
<1>8. SnapshotsCount'
  BY <1>1, <1>3, <1>4, SnapshotsKept
<1> QED BY <1>1, <1>5, <1>6, <1>7, <1>8 DEF PInv

LEMMA BodyKeeps ==
    ASSUME PInv, NEW r \in Requests, BodyEnds(r) \/ BodyFails(r)
    PROVE  PInv'
<1>1. /\ BInv' /\ SInv' /\ Spared' /\ now' = now
      /\ ipOf' \in [Requests -> Ips] /\ (Full' <=> Full)
  BY GuardRests DEF BodyEnds, BodyFails
<1>2. UNCHANGED <<lockouts, ipOf, right, before, draining, tries>> /\ stage[r] = "body"
  BY DEF BodyEnds, BodyFails
<1>3. /\ micro \in Seq(Requests \X {"attempt", "rollback"}) /\ Len(micro) \in Nat
      /\ \A j \in 1 .. Len(micro) : micro[j] \in Requests \X {"attempt", "rollback"}
      /\ stage \in [Requests -> {"idle", "body", "micro", "guard"}]
  BY ElementOfSeq, LenProperties DEF PInv, TypeOK
<1>4. RowsCount'
  BY <1>2 DEF PInv, RowsCount, RowFits
<1>5. tries' \in [Ips -> Nat] /\ \A i \in Ips : tries'[i] <= tries[i]
  BY <1>2 DEF PInv, TypeOK
<1>6. CASE BodyFails(r)
  <2>1. micro' = micro /\ stage' = [stage EXCEPT ![r] = "idle"]
    BY <1>6 DEF BodyFails
  <2>2. TypeOK'
    BY <1>1, <1>2, <1>3, <2>1 DEF PInv, TypeOK, BInv, SInv
  <2>3. OneMicrotask'
    BY <1>2, <1>3, <2>1 DEF PInv, OneMicrotask
  <2>4. SnapshotsCount'
    BY <1>1, <1>2, <1>5, <2>1, SnapshotsKept
  <2> QED BY <1>1, <1>4, <2>2, <2>3, <2>4 DEF PInv
<1>7. CASE BodyEnds(r)
  <2>1. micro' = Append(micro, <<r, "attempt">>) /\ stage' = [stage EXCEPT ![r] = "micro"]
    BY <1>7 DEF BodyEnds
  <2>2. <<r, "attempt">> \in Requests \X {"attempt", "rollback"}
    OBVIOUS
  <2>3. /\ micro' \in Seq(Requests \X {"attempt", "rollback"})
        /\ Len(micro') = Len(micro) + 1
        /\ \A k \in 1 .. Len(micro) : micro'[k] = micro[k]
        /\ micro'[Len(micro) + 1] = <<r, "attempt">>
    BY <1>3, <2>1, <2>2, AppendProperties
  <2>4. \A k \in 1 .. Len(micro') : k \in 1 .. Len(micro) \/ k = Len(micro) + 1
    BY <1>3, <2>3
  <2>5. TypeOK'
    BY <1>1, <1>2, <1>3, <2>1, <2>3 DEF PInv, TypeOK, BInv, SInv
  <2>6. OneMicrotask'
    <3>1. \A j \in 1 .. Len(micro) : micro[j][1] # r /\ micro[j][1] \in Requests
      BY <1>2, <1>3 DEF PInv, OneMicrotask
    <3>2. \A j \in 1 .. Len(micro) : stage'[micro[j][1]] = "micro"
      BY <1>3, <2>1, <3>1 DEF PInv, OneMicrotask
    <3>3. stage'[r] = "micro" /\ <<r, "attempt">>[1] = r
      BY <1>3, <2>1
    <3>4. \A j, k \in 1 .. Len(micro) : micro[j][1] = micro[k][1] => j = k
      BY DEF PInv, OneMicrotask
    <3> QED BY <2>3, <2>4, <3>1, <3>2, <3>3, <3>4 DEF OneMicrotask
  <2>7. SnapshotsCount'
    <3>1. <<r, "attempt">>[2] # "rollback"
      OBVIOUS
    <3>2. \A k \in 1 .. Len(micro') : micro'[k][2] = "rollback" =>
              \E j \in 1 .. Len(micro) :
                 micro'[k] = micro[j] /\ before'[micro[j][1]] = before[micro[j][1]]
      BY <1>2, <2>3, <2>4, <3>1
    <3> QED BY <1>1, <1>2, <1>5, <3>2, SnapshotsKept
  <2> QED BY <1>1, <1>4, <2>5, <2>6, <2>7 DEF PInv
<1> QED BY <1>6, <1>7
\* Once r's microtask has run and queued nothing, none of r's is left.
LEMMA RanOnce ==
    ASSUME PInv, NEW r, NEW m, Runs(r, m), Then(<<>>)
    PROVE  /\ micro' \in Seq(Microtask) /\ draining' \in BOOLEAN
           /\ r \in Requests /\ <<r, m>> \in Microtask
           /\ 1 \in 1 .. Len(micro) /\ micro[1] = <<r, m>>
           /\ \A k \in 1 .. Len(micro') :
                 /\ micro'[k] \in Microtask /\ micro'[k][1] # r
                 /\ stage[micro'[k][1]] = "micro"
                 /\ \E j \in 1 .. Len(micro) : micro'[k] = micro[j]
           /\ \A j, k \in 1 .. Len(micro') : micro'[j][1] = micro'[k][1] => j = k
<1>1. /\ micro \in Seq(Microtask) /\ micro # <<>> /\ Head(micro) = <<r, m>>
      /\ \A j, k \in 1 .. Len(micro) : stage[micro[j][1]] = "micro" /\ (micro[j][1] = micro[k][1] => j = k)
      /\ \A j \in 1 .. Len(micro) : micro[j] \in Microtask
  BY ElementOfSeq DEF PInv, TypeOK, OneMicrotask, Runs, Microtask
<1>2. /\ micro' \in Seq(Microtask) /\ draining' \in BOOLEAN
      /\ Len(micro) \in Nat \ {0} /\ Len(micro') = Len(micro) - 1
      /\ micro[1] = Head(micro)
      /\ \A k \in 1 .. Len(micro') : k + 1 \in 1 .. Len(micro) /\ micro'[k] = micro[k + 1]
  BY <1>1, ThenNothing
<1>3. 1 \in 1 .. Len(micro) /\ micro[1] = <<r, m>> /\ <<r, m>> \in Microtask
  <2>1. 1 \in 1 .. Len(micro)
    BY <1>2
  <2> QED BY <1>1, <1>2, <2>1
<1>4. r \in Requests /\ micro[1][1] = r
  BY <1>3 DEF Microtask
<1>5. ASSUME NEW k \in 1 .. Len(micro')
      PROVE  /\ micro'[k] \in Microtask /\ micro'[k][1] # r
             /\ stage[micro'[k][1]] = "micro"
             /\ \E j \in 1 .. Len(micro) : micro'[k] = micro[j]
  <2>1. k + 1 \in 1 .. Len(micro) /\ micro'[k] = micro[k + 1] /\ k + 1 # 1
    BY <1>2
  <2>2. micro[k + 1][1] # micro[1][1]
    BY <1>1, <1>3, <2>1
  <2> QED BY <1>1, <1>4, <2>1, <2>2
<1>6. ASSUME NEW j \in 1 .. Len(micro'), NEW k \in 1 .. Len(micro'), micro'[j][1] = micro'[k][1]
      PROVE  j = k
  <2>1. /\ j + 1 \in 1 .. Len(micro) /\ k + 1 \in 1 .. Len(micro)
        /\ micro[j + 1][1] = micro[k + 1][1]
    BY <1>2, <1>6
  <2>2. j + 1 = k + 1
    BY <1>1, <2>1
  <2> QED BY <2>2
<1> QED BY <1>2, <1>3, <1>4, <1>5, <1>6

LEMMA RefuseKeeps ==
    ASSUME PInv, NEW r \in Requests, Refuse(r)
    PROVE  PInv'
<1>1. /\ BInv' /\ SInv' /\ Spared' /\ now' = now
      /\ ipOf' \in [Requests -> Ips] /\ (Full' <=> Full)
  BY GuardRests DEF Refuse
<1>2. /\ UNCHANGED <<ipOf, right, before>> /\ stage' = [stage EXCEPT ![r] = "idle"]
      /\ Runs(r, "attempt") /\ Then(<<>>)
  BY DEF Refuse
<1>3. /\ micro' \in Seq(Microtask) /\ draining' \in BOOLEAN
      /\ \A k \in 1 .. Len(micro') :
            /\ micro'[k] \in Microtask /\ micro'[k][1] # r
            /\ stage[micro'[k][1]] = "micro"
            /\ \E j \in 1 .. Len(micro) : micro'[k] = micro[j]
      /\ \A j, k \in 1 .. Len(micro') : micro'[j][1] = micro'[k][1] => j = k
  BY <1>2, RanOnce
<1>4. /\ lockouts' \in [Ips -> Lockout] /\ tries' \in [Ips -> Nat]
      /\ \A j \in Ips : /\ RowFits(lockouts'[j])
                        /\ tries'[j] <= lockouts'[j].attempts
                        /\ tries'[j] <= tries[j]
  <2>1. CASE UNCHANGED <<lockouts, tries>>
    BY <2>1 DEF PInv, TypeOK, RowsCount
  <2>2. CASE CheckLockout(ipOf[r])
    <3>1. ipOf[r] \in Ips
      BY DEF PInv, TypeOK
    <3> QED BY <2>2, <3>1, CheckKeepsRows
  <2> QED BY <2>1, <2>2 DEF Refuse
<1>5. TypeOK'
  BY <1>1, <1>2, <1>3, <1>4 DEF PInv, TypeOK, BInv, SInv, Microtask
<1>6. RowsCount'
  <2>1. \A j \in Ips : tries[j] <= MaxAttempts /\ tries[j] \in Nat /\ tries'[j] \in Nat
    BY <1>4 DEF PInv, RowsCount, TypeOK
  <2> QED BY <1>4, <2>1, PipelineAssumption DEF RowsCount, RowFits
<1>7. OneMicrotask'
  BY <1>2, <1>3 DEF PInv, OneMicrotask, TypeOK, Microtask
<1>8. SnapshotsCount'
  BY <1>1, <1>2, <1>3, <1>4, SnapshotsKept
<1> QED BY <1>1, <1>5, <1>6, <1>7, <1>8 DEF PInv

\* A rollback puts back a snapshot that counts what was admitted.
LEMMA RollbackKeeps ==
    ASSUME PInv, NEW r \in Requests, Rollback(r)
    PROVE  PInv'
<1>1. /\ BInv' /\ SInv' /\ Spared' /\ now' = now
      /\ ipOf' \in [Requests -> Ips] /\ (Full' <=> Full)
  BY GuardRests DEF Rollback
<1>2. /\ UNCHANGED <<ipOf, right, tries>> /\ stage' = [stage EXCEPT ![r] = "idle"]
      /\ lockouts' = [lockouts EXCEPT ![ipOf[r]] = before[r]]
      /\ before' = [before EXCEPT ![r] = NoAttempts]
      /\ Runs(r, "rollback") /\ Then(<<>>)
  BY DEF Rollback, Refund
<1>3. /\ micro' \in Seq(Microtask) /\ draining' \in BOOLEAN
      /\ 1 \in 1 .. Len(micro) /\ micro[1] = <<r, "rollback">>
      /\ \A k \in 1 .. Len(micro') :
            /\ micro'[k] \in Microtask /\ micro'[k][1] # r
            /\ stage[micro'[k][1]] = "micro"
            /\ \E j \in 1 .. Len(micro) : micro'[k] = micro[j]
      /\ \A j, k \in 1 .. Len(micro') : micro'[j][1] = micro'[k][1] => j = k
  BY <1>2, RanOnce
<1>4. RowFits(before[r]) /\ tries[ipOf[r]] <= before[r].attempts
  <2>1. micro[1][2] = "rollback" /\ micro[1][1] = r
    BY <1>3
  <2> QED BY <1>3, <2>1 DEF PInv, SnapshotsCount
<1>5. /\ ipOf[r] \in Ips /\ before[r] \in Lockout /\ NoAttempts \in Lockout
      /\ before \in [Requests -> Lockout] /\ lockouts \in [Ips -> Lockout]
      /\ stage \in [Requests -> {"idle", "body", "micro", "guard"}]
  BY DEF PInv, TypeOK, NoAttempts, Lockout
<1>6. TypeOK'
  BY <1>1, <1>2, <1>3, <1>5 DEF PInv, TypeOK, BInv, SInv, Microtask
<1>7. RowsCount'
  <2> SUFFICES ASSUME NEW j \in Ips
               PROVE  /\ RowFits(lockouts'[j])
                      /\ tries[j] <= lockouts'[j].attempts /\ tries[j] <= MaxAttempts
    BY <1>2 DEF RowsCount, RowFits
  <2>1. CASE j = ipOf[r]
    BY <1>2, <1>4, <1>5, <2>1 DEF PInv, RowsCount
  <2>2. CASE j # ipOf[r]
    BY <1>2, <1>5, <2>2 DEF PInv, RowsCount
  <2> QED BY <2>1, <2>2
<1>8. OneMicrotask'
  BY <1>2, <1>3, <1>5 DEF OneMicrotask, Microtask
<1>9. SnapshotsCount'
  <2>1. \A k \in 1 .. Len(micro') : micro'[k][2] = "rollback" =>
            \E j \in 1 .. Len(micro) :
               micro'[k] = micro[j] /\ before'[micro[j][1]] = before[micro[j][1]]
    <3> SUFFICES ASSUME NEW k \in 1 .. Len(micro')
                 PROVE  \E j \in 1 .. Len(micro) :
                           micro'[k] = micro[j] /\ before'[micro[j][1]] = before[micro[j][1]]
      OBVIOUS
    <3>1. PICK j \in 1 .. Len(micro) : micro'[k] = micro[j]
      BY <1>3
    <3>2. micro[j][1] \in Requests /\ micro[j][1] # r
      BY <1>3, <3>1 DEF Microtask
    <3> QED BY <1>2, <1>5, <3>1, <3>2
  <2>2. tries' \in [Ips -> Nat] /\ \A i \in Ips : tries'[i] <= tries[i]
    BY <1>2 DEF PInv, TypeOK
  <2> QED BY <1>1, <1>2, <2>1, <2>2, SnapshotsKept
<1> QED BY <1>1, <1>6, <1>7, <1>8, <1>9 DEF PInv
\* The row of an attempt that is charged: it is not locked and has attempts left.
LEMMA ChargedWhenOpen ==
    ASSUME PInv, NEW i \in Ips, ~ Locked(lockouts[i])
    PROVE  LET c == Cleared(lockouts[i])
               n == IF Expired(lockouts[i]) THEN 0 ELSE tries[i]
           IN  /\ c \in Lockout /\ RowFits(c) /\ c.attempts < MaxAttempts
               /\ Charged(c) \in Lockout /\ RowFits(Charged(c))
               /\ Charged(c).attempts = c.attempts + 1
               /\ n \in Nat /\ n <= c.attempts /\ n <= tries[i]
<1> DEFINE c == Cleared(lockouts[i])
<1>1. /\ now \in Nat /\ lockouts[i] \in Lockout /\ RowFits(lockouts[i])
      /\ tries[i] \in Nat /\ tries[i] <= lockouts[i].attempts
  BY DEF PInv, TypeOK, BudgetTypeOK, RowsCount
<1>2. /\ c \in Lockout /\ RowFits(c)
      /\ Expired(lockouts[i]) => c.attempts = 0
      /\ ~ Expired(lockouts[i]) => c = lockouts[i]
      /\ c.lockedUntil = 0 /\ c.attempts < MaxAttempts
  BY <1>1, ClearedRow
<1>3. Charged(c) \in Lockout /\ RowFits(Charged(c)) /\ Charged(c).attempts = c.attempts + 1
  BY <1>1, <1>2, ChargedRow
<1> HIDE DEF c
<1>4. /\ (IF Expired(lockouts[i]) THEN 0 ELSE tries[i]) \in Nat
      /\ (IF Expired(lockouts[i]) THEN 0 ELSE tries[i]) <= c.attempts
      /\ (IF Expired(lockouts[i]) THEN 0 ELSE tries[i]) <= tries[i]
  BY <1>1, <1>2
<1> QED BY <1>2, <1>3, <1>4 DEF c

\* A refused attempt leaves a snapshot that counts, taken while everything is full.
LEMMA BusyKeeps ==
    ASSUME PInv, NEW r \in Requests, Busy(r)
    PROVE  PInv'
<1> DEFINE i == ipOf[r]
           c == Cleared(lockouts[i])
           n == IF Expired(lockouts[i]) THEN 0 ELSE tries[i]
           e == <<r, "rollback">>
<1>1. /\ BInv' /\ SInv' /\ Spared' /\ now' = now
      /\ ipOf' \in [Requests -> Ips] /\ (Full' <=> Full)
  BY GuardRests DEF Busy
<1>2. /\ UNCHANGED <<ipOf, right, stage>> /\ before' = [before EXCEPT ![r] = c]
      /\ lockouts' = [lockouts EXCEPT ![i] = Charged(c)]
      /\ tries' = IF Expired(lockouts[i]) THEN [tries EXCEPT ![i] = 0] ELSE tries
      /\ Runs(r, "attempt") /\ Then(<<e>>) /\ Full /\ ~ Locked(lockouts[i])
  BY DEF Busy, Admissible
<1>3. /\ i \in Ips /\ lockouts \in [Ips -> Lockout] /\ tries \in [Ips -> Nat]
      /\ before \in [Requests -> Lockout]
      /\ stage \in [Requests -> {"idle", "body", "micro", "guard"}]
  BY DEF PInv, TypeOK
<1>4. /\ c \in Lockout /\ RowFits(c) /\ c.attempts < MaxAttempts
      /\ Charged(c) \in Lockout /\ RowFits(Charged(c))
      /\ Charged(c).attempts = c.attempts + 1
      /\ n \in Nat /\ n <= c.attempts /\ n <= tries[i]
  BY <1>2, <1>3, ChargedWhenOpen
<1>5. /\ micro \in Seq(Microtask) /\ micro # <<>> /\ Head(micro) = <<r, "attempt">>
      /\ e \in Microtask /\ e[1] = r /\ e[2] = "rollback"
  BY <1>2 DEF PInv, TypeOK, Runs, Microtask
<1> HIDE DEF c, e
<1>6. /\ micro' \in Seq(Microtask) /\ draining' \in BOOLEAN
      /\ Len(micro) \in Nat \ {0} /\ Len(micro') = Len(micro)
      /\ micro[1] = Head(micro)
      /\ \A k \in 1 .. Len(micro') :
            IF k < Len(micro) THEN k + 1 \in 1 .. Len(micro) /\ micro'[k] = micro[k + 1]
                              ELSE micro'[k] = e
  BY <1>2, <1>5, ThenLast
<1>7. \A k \in 1 .. Len(micro') :
         \/ k = Len(micro) /\ micro'[k] = e
         \/ k + 1 \in 1 .. Len(micro) /\ k + 1 # 1 /\ micro'[k] = micro[k + 1]
  BY <1>6
<1>8. /\ 1 \in 1 .. Len(micro) /\ micro[1][1] = r
      /\ \A j, k \in 1 .. Len(micro) : /\ stage[micro[j][1]] = "micro"
                                       /\ micro[j][1] = micro[k][1] => j = k
  BY <1>5, <1>6 DEF PInv, OneMicrotask
<1>9. \A j \in 1 .. Len(micro) : j # 1 => micro[j][1] # r
  BY <1>8
<1>10. lockouts' \in [Ips -> Lockout] /\ tries' \in [Ips -> Nat] /\ before' \in [Requests -> Lockout]
  BY <1>2, <1>3, <1>4
<1>11. \A j \in Ips : /\ lockouts'[j] = IF j = i THEN Charged(c) ELSE lockouts[j]
                      /\ tries'[j] = IF j = i THEN n ELSE tries[j]
  BY <1>2, <1>3
<1>12. \A q \in Requests : before'[q] = IF q = r THEN c ELSE before[q]
  BY <1>2, <1>3
<1>13. TypeOK'
  BY <1>1, <1>2, <1>6, <1>10 DEF PInv, TypeOK, BInv, SInv, Microtask
<1> HIDE DEF i, n
<1>14. RowsCount'
  <2> SUFFICES ASSUME NEW j \in Ips
               PROVE  /\ RowFits(lockouts'[j])
                      /\ tries'[j] <= lockouts'[j].attempts /\ tries'[j] <= MaxAttempts
    BY DEF RowsCount, RowFits
  <2>1. CASE j = i
    <3>1. lockouts'[j] = Charged(c) /\ tries'[j] = n
      BY <1>11, <2>1
    <3>2. c.attempts \in Nat /\ MaxAttempts \in Nat
      BY <1>4, PipelineAssumption DEF Lockout
    <3> QED BY <1>4, <3>1, <3>2
  <2>2. CASE j # i
    BY <1>11, <2>2 DEF PInv, RowsCount
  <2> QED BY <2>1, <2>2
<1>15. OneMicrotask'
  <2>1. \A j \in 1 .. Len(micro') : stage[micro'[j][1]] = "micro"
    BY <1>5, <1>7, <1>8
  <2>2. ASSUME NEW j \in 1 .. Len(micro'), NEW k \in 1 .. Len(micro'), micro'[j][1] = micro'[k][1]
        PROVE  j = k
    <3>1. CASE j = Len(micro) /\ micro'[j] = e
      BY <1>5, <1>7, <1>9, <2>2, <3>1
    <3>2. CASE k = Len(micro) /\ micro'[k] = e
      BY <1>5, <1>7, <1>9, <2>2, <3>2
    <3>3. CASE /\ j + 1 \in 1 .. Len(micro) /\ micro'[j] = micro[j + 1]
               /\ k + 1 \in 1 .. Len(micro) /\ micro'[k] = micro[k + 1]
      <4>1. j + 1 = k + 1
        BY <1>8, <2>2, <3>3
      <4> QED BY <4>1
    <3> QED BY <1>7, <3>1, <3>2, <3>3
  <2> QED BY <1>2, <2>1, <2>2 DEF OneMicrotask
<1>16. SnapshotsCount'
  <2> SUFFICES ASSUME NEW k \in 1 .. Len(micro'), micro'[k][2] = "rollback"
               PROVE  /\ Full' /\ RowFits(before'[micro'[k][1]])
                      /\ tries'[ipOf'[micro'[k][1]]] <= before'[micro'[k][1]].attempts
    BY DEF SnapshotsCount, RowFits
  <2>1. CASE micro'[k] = e
    <3>1. micro'[k][1] = r /\ before'[r] = c /\ ipOf'[r] = i
      BY <1>2, <1>5, <1>12, <2>1 DEF i
    <3>2. tries'[i] = n
      BY <1>3, <1>11
    <3> QED BY <1>1, <1>2, <1>4, <3>1, <3>2
  <2>2. CASE k + 1 \in 1 .. Len(micro) /\ k + 1 # 1 /\ micro'[k] = micro[k + 1]
    <3> DEFINE q == micro[k + 1][1]
    <3>1. q # r /\ q \in Requests /\ micro[k + 1][2] = "rollback"
      <4>1. micro[k + 1] \in Microtask
        BY <1>5, <2>2, ElementOfSeq
      <4> QED BY <1>9, <2>2, <4>1 DEF Microtask
    <3>2. Full /\ RowFits(before[q]) /\ tries[ipOf[q]] <= before[q].attempts
      BY <2>2, <3>1 DEF PInv, SnapshotsCount
    <3>3. before'[q] = before[q] /\ ipOf[q] \in Ips /\ ipOf' = ipOf /\ before[q].attempts \in Nat
      BY <1>2, <1>3, <1>12, <3>1 DEF PInv, TypeOK, Lockout
    <3>4. tries'[ipOf[q]] \in Nat /\ tries[ipOf[q]] \in Nat /\ tries'[ipOf[q]] <= tries[ipOf[q]]
      <4>1. CASE ipOf[q] = i
        BY <1>3, <1>4, <1>11, <4>1
      <4>2. CASE ipOf[q] # i
        BY <1>3, <1>11, <3>3, <4>2
      <4> QED BY <4>1, <4>2
    <3> QED BY <1>1, <2>2, <3>2, <3>3, <3>4
  <2> QED BY <1>7, <2>1, <2>2
<1> QED BY <1>1, <1>13, <1>14, <1>15, <1>16 DEF PInv

\* What an admitted attempt costs; nothing is left to be rolled back, for a slot or a place was free.
LEMMA ReserveKeeps ==
    ASSUME PInv, NEW r \in Requests, Reserve(r)
    PROVE  PInv'
<1> DEFINE i == ipOf[r]
           c == Cleared(lockouts[i])
           n == IF Expired(lockouts[i]) THEN 0 ELSE tries[i]
<1>1. /\ UNCHANGED <<budgetVars, ipOf, right, before>> /\ stage' = [stage EXCEPT ![r] = "guard"]
      /\ lockouts' = [lockouts EXCEPT ![i] = Charged(c)]
      /\ tries' = [tries EXCEPT ![i] = n + 1]
      /\ Runs(r, "attempt") /\ Then(<<>>) /\ Run(r)
      /\ ~ Locked(lockouts[i]) /\ ~ Refusable(i)
  BY DEF Reserve, Admissible
<1>2. BInv' /\ SInv' /\ InSlots' = InSlots \cup {r}
  BY <1>1, BudgetRests, RunKeeps DEF PInv, Requests
<1>3. /\ i \in Ips /\ lockouts \in [Ips -> Lockout] /\ tries \in [Ips -> Nat]
      /\ stage \in [Requests -> {"idle", "body", "micro", "guard"}]
  BY DEF PInv, TypeOK
<1>4. /\ c \in Lockout /\ RowFits(c) /\ c.attempts < MaxAttempts
      /\ Charged(c) \in Lockout /\ RowFits(Charged(c))
      /\ Charged(c).attempts = c.attempts + 1
      /\ n \in Nat /\ n <= c.attempts /\ n <= tries[i]
  BY <1>1, <1>3, ChargedWhenOpen
<1>5. /\ micro' \in Seq(Microtask) /\ draining' \in BOOLEAN
      /\ \A k \in 1 .. Len(micro') :
            /\ micro'[k] \in Microtask /\ micro'[k][1] # r
            /\ stage[micro'[k][1]] = "micro"
            /\ \E j \in 1 .. Len(micro) : micro'[k] = micro[j]
      /\ \A j, k \in 1 .. Len(micro') : micro'[j][1] = micro'[k][1] => j = k
  BY <1>1, RanOnce
<1>6. TypeOK'
  BY <1>1, <1>2, <1>3, <1>4, <1>5 DEF PInv, TypeOK, BInv, SInv, Microtask
<1>7. RowsCount'
  <2> SUFFICES ASSUME NEW j \in Ips
               PROVE  /\ RowFits(lockouts'[j])
                      /\ tries'[j] <= lockouts'[j].attempts /\ tries'[j] <= MaxAttempts
    BY DEF RowsCount, RowFits
  <2>1. CASE j = i
    <3>1. lockouts'[j] = Charged(c) /\ tries'[j] = n + 1
      BY <1>1, <1>3, <2>1
    <3>2. c.attempts \in Nat /\ MaxAttempts \in Nat
      BY <1>4, PipelineAssumption DEF Lockout
    <3> HIDE DEF c, n
    <3> QED BY <1>4, <3>1, <3>2
  <2>2. CASE j # i
    BY <1>1, <1>3, <2>2 DEF PInv, RowsCount
  <2> QED BY <2>1, <2>2
<1>8. OneMicrotask'
  BY <1>1, <1>3, <1>5 DEF OneMicrotask, Microtask
<1>9. SnapshotsCount'
  <2>1. \A k \in 1 .. Len(micro') : micro'[k][2] # "rollback"
    BY <1>1, <1>5 DEF PInv, SnapshotsCount, Run
  <2> QED BY <2>1 DEF SnapshotsCount
<1>10. Spared'
  <2> SUFFICES ASSUME CoolingDown PROVE Chargeable' = Chargeable
    BY <1>1 DEF PInv, Spared, CoolingDown, budgetVars
  <2>1. i \in Exempt
    BY <1>1 DEF Refusable
  <2> QED BY <1>1, <1>2, <2>1 DEF Chargeable
<1> QED BY <1>2, <1>6, <1>7, <1>8, <1>9, <1>10 DEF PInv
LEMMA ChargeableFinite ==
    ASSUME SInv
    PROVE  /\ IsFiniteSet(Chargeable) /\ Cardinality(Chargeable) \in Nat
           /\ Cardinality(Chargeable) <= MaxConcurrent + MaxQueue
<1>1. Chargeable \subseteq InSlots
  BY DEF Chargeable
<1>2. /\ IsFiniteSet(InSlots) /\ Cardinality(InSlots) \in Nat
      /\ Cardinality(InSlots) = running + Len(queue)
  BY FS_CardinalityType DEF SInv
<1>3. /\ running \in Nat /\ running <= MaxConcurrent
      /\ Len(queue) \in Nat /\ Len(queue) <= MaxQueue
  BY LenProperties DEF SInv, SlotsTypeOK, SlotsBounded
<1>4. /\ IsFiniteSet(Chargeable) /\ Cardinality(Chargeable) <= Cardinality(InSlots)
  BY <1>1, <1>2, FS_Subset
<1>5. Cardinality(Chargeable) \in Nat
  BY <1>4, FS_CardinalityType
<1> QED BY <1>2, <1>3, <1>4, <1>5, SlotsAssumption

\* What all ends of a verification have in common.
LEMMA FinishKeeps ==
    ASSUME PInv, NEW r \in Requests, Finish(r)
    PROVE  /\ SInv' /\ InSlots' = InSlots \ {r} /\ r \in InSlots
           /\ OneMicrotask' /\ SnapshotsCount' /\ micro' = micro /\ micro = <<>>
           /\ stage' \in [Requests -> {"idle", "body", "micro", "guard"}]
           /\ Chargeable' = Chargeable \ {r}
           /\ Cardinality(Chargeable') =
                IF ipOf[r] \in Exempt THEN Cardinality(Chargeable) ELSE Cardinality(Chargeable) - 1
           /\ Cardinality(Chargeable') \in Nat
           /\ Cardinality(Chargeable') <= MaxConcurrent + MaxQueue
<1>1. micro' = micro /\ micro = <<>> /\ ipOf' = ipOf /\ Settle(r)
  BY DEF Finish, Quiet
<1>2. Len(<<>>) = 0
  BY EmptySeq
<1>3. OneMicrotask' /\ SnapshotsCount'
  BY <1>1, <1>2 DEF OneMicrotask, SnapshotsCount
<1>4. SInv' /\ InSlots' = InSlots \ {r} /\ r \in InSlots
  BY <1>1, SettleKeeps DEF PInv, Requests
<1>5. Chargeable' = Chargeable \ {r} /\ (r \in Chargeable <=> ipOf[r] \notin Exempt)
  BY <1>1, <1>4 DEF Chargeable
<1>6. IsFiniteSet(Chargeable)
  BY ChargeableFinite DEF PInv
<1>7. Cardinality(Chargeable \ {r}) =
          IF r \in Chargeable THEN Cardinality(Chargeable) - 1 ELSE Cardinality(Chargeable)
  BY <1>6, FS_RemoveElement
<1>8. /\ Cardinality(Chargeable \ {r}) \in Nat /\ Cardinality(Chargeable) \in Nat
      /\ Cardinality(Chargeable) <= MaxConcurrent + MaxQueue
  <2>1. IsFiniteSet(Chargeable \ {r})
    BY <1>6, FS_RemoveElement
  <2> QED BY <2>1, FS_CardinalityType, ChargeableFinite DEF PInv
<1>9. Cardinality(Chargeable \ {r}) <= MaxConcurrent + MaxQueue
  BY <1>7, <1>8, SlotsAssumption
<1> QED BY <1>1, <1>3, <1>4, <1>5, <1>7, <1>8, <1>9 DEF PInv, TypeOK, Finish

LEMMA AcceptKeeps ==
    ASSUME PInv, NEW r \in Requests, Accept(r)
    PROVE  PInv'
<1>1. Finish(r) /\ UNCHANGED budgetVars /\ UNCHANGED <<ipOf, right, before, draining>>
  BY DEF Accept, Finish, budget, budgetVars
<1>2. /\ SInv' /\ OneMicrotask' /\ SnapshotsCount' /\ micro' = micro
      /\ stage' \in [Requests -> {"idle", "body", "micro", "guard"}]
      /\ Cardinality(Chargeable') =
           IF ipOf[r] \in Exempt THEN Cardinality(Chargeable) ELSE Cardinality(Chargeable) - 1
      /\ Cardinality(Chargeable') \in Nat
      /\ Cardinality(Chargeable') <= MaxConcurrent + MaxQueue
  BY <1>1, FinishKeeps
<1>3. BInv'
  BY <1>1, BudgetRests DEF PInv
<1>4. /\ lockouts' = [lockouts EXCEPT ![ipOf[r]] = NoAttempts]
      /\ tries' = [tries EXCEPT ![ipOf[r]] = 0]
      /\ lockouts \in [Ips -> Lockout] /\ tries \in [Ips -> Nat]
  BY DEF Accept, PInv, TypeOK
<1>5. NoAttempts \in Lockout /\ RowFits(NoAttempts) /\ NoAttempts.attempts = 0 /\ MaxAttempts \in Nat
  BY PipelineAssumption DEF NoAttempts, Lockout, RowFits
<1>6. TypeOK'
  BY <1>1, <1>2, <1>3, <1>4, <1>5 DEF PInv, TypeOK, BInv, SInv
<1>7. RowsCount'
  BY <1>4, <1>5 DEF PInv, RowsCount, RowFits
<1>8. Spared'
  <2>1. /\ Cardinality(Chargeable') \in Nat /\ Cardinality(Chargeable) \in Nat
        /\ Len(failures) \in Nat /\ FailureLimit \in Nat
    BY <1>2, ChargeableFinite, LenProperties, BudgetAssumption DEF PInv, BInv
  <2>2. failures' = failures /\ (CoolingDown' <=> CoolingDown)
    BY <1>1 DEF budgetVars, CoolingDown
  <2> QED BY <1>2, <2>1, <2>2 DEF PInv, Spared
<1> QED BY <1>2, <1>3, <1>6, <1>7, <1>8 DEF PInv

LEMMA RevokedKeeps ==
    ASSUME PInv, NEW r \in Requests, Revoked(r)
    PROVE  PInv'
<1>1. /\ Finish(r) /\ UNCHANGED budgetVars
      /\ UNCHANGED <<lockouts, tries, ipOf, right, before, draining>>
  BY DEF Revoked, Finish, budget, budgetVars
<1>2. /\ SInv' /\ OneMicrotask' /\ SnapshotsCount' /\ micro' = micro
      /\ stage' \in [Requests -> {"idle", "body", "micro", "guard"}]
      /\ Cardinality(Chargeable') =
           IF ipOf[r] \in Exempt THEN Cardinality(Chargeable) ELSE Cardinality(Chargeable) - 1
      /\ Cardinality(Chargeable') \in Nat
      /\ Cardinality(Chargeable') <= MaxConcurrent + MaxQueue
  BY <1>1, FinishKeeps
<1>3. BInv'
  BY <1>1, BudgetRests DEF PInv
<1>4. TypeOK' /\ RowsCount'
  BY <1>1, <1>2, <1>3 DEF PInv, TypeOK, BInv, SInv, RowsCount, RowFits
<1>5. Spared'
  <2>1. /\ Cardinality(Chargeable') \in Nat /\ Cardinality(Chargeable) \in Nat
        /\ Len(failures) \in Nat /\ FailureLimit \in Nat
    BY <1>2, ChargeableFinite, LenProperties, BudgetAssumption DEF PInv, BInv
  <2>2. failures' = failures /\ (CoolingDown' <=> CoolingDown)
    BY <1>1 DEF budgetVars, CoolingDown
  <2> QED BY <1>2, <2>1, <2>2 DEF PInv, Spared
<1> QED BY <1>2, <1>3, <1>4, <1>5 DEF PInv

\* A failure that counts leaves the slots as it enters the list: while a cooldown runs, the
\* list does not get full.
LEMMA DenyKeeps ==
    ASSUME PInv, NEW r \in Requests, Deny(r)
    PROVE  PInv' /\ (cooldownUntil' # cooldownUntil => ~ CoolingDown)
<1>1. /\ Finish(r) /\ UNCHANGED <<now, lockouts, tries, ipOf, right, before, draining>>
  BY DEF Deny, Finish
<1>2. /\ SInv' /\ OneMicrotask' /\ SnapshotsCount' /\ micro' = micro /\ r \in InSlots
      /\ stage' \in [Requests -> {"idle", "body", "micro", "guard"}]
      /\ Chargeable' = Chargeable \ {r}
      /\ Cardinality(Chargeable') =
           IF ipOf[r] \in Exempt THEN Cardinality(Chargeable) ELSE Cardinality(Chargeable) - 1
      /\ Cardinality(Chargeable') \in Nat
      /\ Cardinality(Chargeable') <= MaxConcurrent + MaxQueue
  BY <1>1, FinishKeeps
<1>3. CASE ipOf[r] \in Exempt
  <2>1. UNCHANGED budgetVars
    BY <1>1, <1>3 DEF Deny, budget, budgetVars
  <2>2. BInv'
    BY <2>1, BudgetRests DEF PInv
  <2>3. TypeOK' /\ RowsCount'
    BY <1>1, <1>2, <2>2 DEF PInv, TypeOK, BInv, SInv, RowsCount, RowFits
  <2>4. Spared'
    BY <1>2, <1>3, <2>1 DEF budgetVars, CoolingDown, PInv, Spared
  <2> QED BY <1>2, <2>1, <2>2, <2>3, <2>4 DEF PInv, budgetVars
<1>4. CASE ipOf[r] \notin Exempt
  <2> DEFINE counted == Append(Recent(failures, now), now)
  <2>1. RecordFailure
    BY <1>4 DEF Deny
  <2>2. BInv'
    BY <1>1, <2>1, RecordKeeps DEF PInv
  <2>3. TypeOK' /\ RowsCount'
    BY <1>1, <1>2, <2>2 DEF PInv, TypeOK, BInv, SInv, RowsCount, RowFits
  <2>4. counted \in Seq(0 .. now) /\ Len(counted) <= Len(failures) + 1
    BY CountedOnce DEF PInv
  <2>5. /\ Cardinality(Chargeable) \in Nat /\ Cardinality(Chargeable') \in Nat
        /\ Cardinality(Chargeable') <= MaxConcurrent + MaxQueue
        /\ Cardinality(Chargeable') = Cardinality(Chargeable) - 1
        /\ Len(failures) \in Nat /\ FailureLimit \in Nat /\ Len(counted) \in Nat
        /\ FailureLimit > MaxConcurrent + MaxQueue
    <3>1. Cardinality(Chargeable) \in Nat
      BY ChargeableFinite DEF PInv
    <3>2. /\ Cardinality(Chargeable') \in Nat
          /\ Cardinality(Chargeable') <= MaxConcurrent + MaxQueue
      BY <1>2
    <3>3. Len(failures) \in Nat /\ Len(counted) \in Nat
      BY <2>4, LenProperties DEF PInv, BInv
    <3> QED BY <1>2, <1>4, <3>1, <3>2, <3>3, BudgetAssumption, PipelineAssumption
  <2> HIDE DEF counted
  <2>6. CASE ~ Spent(counted)
    <3>1. failures' = counted /\ cooldownUntil' = cooldownUntil
      BY <2>1, <2>6 DEF RecordFailure, counted
    <3>2. CoolingDown' <=> CoolingDown
      BY <1>1, <3>1 DEF CoolingDown
    <3>3. Spared'
      BY <2>4, <2>5, <3>1, <3>2 DEF PInv, Spared
    <3> QED BY <1>2, <2>2, <2>3, <3>1, <3>3 DEF PInv
  <2>7. CASE Spent(counted)
    <3>1. failures' = <<>>
      BY <2>1, <2>7 DEF RecordFailure, counted
    <3>2. Len(counted) >= FailureLimit
      BY <2>7 DEF Spent
    <3>3. ~ CoolingDown
      BY <2>4, <2>5, <3>2 DEF PInv, Spared
    <3>4. Len(failures') = 0
      BY <3>1, EmptySeq
    <3>5. Spared'
      BY <2>5, <3>4, SlotsAssumption DEF Spared
    <3> QED BY <1>2, <2>2, <2>3, <3>3, <3>5 DEF PInv
  <2> QED BY <2>6, <2>7
<1> QED BY <1>3, <1>4

LEMMA ClockKeeps ==
    ASSUME PInv, Tick
    PROVE  PInv'
<1>1. BudgetTick /\ UNCHANGED <<budget, slotVars, loginVars>>
  BY DEF Tick
<1>2. BInv'
  BY <1>1, TickKeeps DEF PInv
<1>3. SInv' /\ InSlots' = InSlots
  BY <1>1, SlotsRest DEF PInv
<1>4. TypeOK' /\ RowsCount'
  BY <1>1, <1>2, <1>3 DEF PInv, TypeOK, BInv, SInv, RowsCount, RowFits, loginVars
<1>5. OneMicrotask' /\ SnapshotsCount'
  BY <1>1 DEF PInv, OneMicrotask, SnapshotsCount, RowFits, Full, loginVars, slotVars
<1>6. Spared'
  <2>1. now \in Nat /\ cooldownUntil \in Nat
    BY BudgetAssumption DEF PInv, TypeOK, BudgetTypeOK
  <2>2. CoolingDown' => CoolingDown
    BY <1>1, <2>1 DEF CoolingDown, BudgetTick, budget
  <2>3. Chargeable' = Chargeable /\ failures' = failures
    BY <1>1, <1>3 DEF Chargeable, loginVars, budget
  <2> QED BY <2>2, <2>3 DEF PInv, Spared
<1> QED BY <1>2, <1>3, <1>4, <1>5, <1>6 DEF PInv
LEMMA PipelineStarts == Init => PInv
<1> SUFFICES ASSUME Init PROVE PInv
  OBVIOUS
<1>1. BInv /\ SInv /\ InSlots = {}
  BY BudgetStarts, SlotsStart DEF Init
<1>2. <<>> \in Seq(Requests \X {"attempt", "rollback"}) /\ Len(<<>>) = 0
  BY EmptySeq
<1>3. NoAttempts \in Lockout /\ RowFits(NoAttempts) /\ NoAttempts.attempts = 0 /\ MaxAttempts \in Nat
  BY PipelineAssumption DEF NoAttempts, Lockout, RowFits
<1>4. TypeOK
  BY <1>1, <1>2, <1>3 DEF Init, TypeOK, BInv, SInv
<1>5. RowsCount
  BY <1>3 DEF Init, RowsCount
<1>6. OneMicrotask /\ SnapshotsCount
  BY <1>2 DEF Init, OneMicrotask, SnapshotsCount
<1>7. Spared
  BY DEF Init, BudgetInit, Spared, CoolingDown
<1> QED BY <1>1, <1>4, <1>5, <1>6, <1>7 DEF PInv

LEMMA PipelineStep ==
    ASSUME PInv, [Next]_vars
    PROVE  PInv' /\ (cooldownUntil' # cooldownUntil => ~ CoolingDown)
<1>1. ASSUME NEW r \in Requests, NEW p \in BOOLEAN, Begin(r, p)
      PROVE  PInv' /\ UNCHANGED cooldownUntil
  BY <1>1, BeginKeeps DEF Begin, budgetVars
<1>2. ASSUME NEW r \in Requests, BodyEnds(r) \/ BodyFails(r) PROVE PInv' /\ UNCHANGED cooldownUntil
  BY <1>2, BodyKeeps DEF BodyEnds, BodyFails, budgetVars
<1>3. ASSUME NEW r \in Requests, Refuse(r) PROVE PInv' /\ UNCHANGED cooldownUntil
  BY <1>3, RefuseKeeps DEF Refuse, budgetVars
<1>4. ASSUME NEW r \in Requests, Reserve(r) PROVE PInv' /\ UNCHANGED cooldownUntil
  BY <1>4, ReserveKeeps DEF Reserve, budgetVars
<1>5. ASSUME NEW r \in Requests, Busy(r) PROVE PInv' /\ UNCHANGED cooldownUntil
  BY <1>5, BusyKeeps DEF Busy, budgetVars
<1>6. ASSUME NEW r \in Requests, Rollback(r) PROVE PInv' /\ UNCHANGED cooldownUntil
  BY <1>6, RollbackKeeps DEF Rollback, budgetVars
<1>7. ASSUME NEW r \in Requests, Accept(r) PROVE PInv' /\ UNCHANGED cooldownUntil
  BY <1>7, AcceptKeeps DEF Accept, budget
<1>8. ASSUME NEW r \in Requests, Deny(r)
      PROVE  PInv' /\ (cooldownUntil' # cooldownUntil => ~ CoolingDown)
  BY <1>8, DenyKeeps
<1>9. ASSUME NEW r \in Requests, Revoked(r) PROVE PInv' /\ UNCHANGED cooldownUntil
  BY <1>9, RevokedKeeps DEF Revoked, budget
<1>10. CASE Tick
  BY <1>10, ClockKeeps DEF Tick, budget
<1>11. CASE UNCHANGED vars
  <2>1. UNCHANGED <<budgetVars, slotVars>> /\ UNCHANGED loginVars
    BY <1>11 DEF vars
  <2>2. BInv' /\ SInv' /\ InSlots' = InSlots
    BY <2>1, BudgetRests, SlotsRest DEF PInv
  <2>3. TypeOK' /\ RowsCount'
    BY <2>1, <2>2 DEF PInv, TypeOK, BInv, SInv, RowsCount, RowFits, loginVars
  <2>4. OneMicrotask' /\ SnapshotsCount'
    BY <2>1 DEF PInv, OneMicrotask, SnapshotsCount, RowFits, Full, loginVars, slotVars
  <2>5. Spared'
    BY <2>1, <2>2 DEF PInv, Spared, Chargeable, CoolingDown, loginVars, budgetVars
  <2> QED BY <2>1, <2>2, <2>3, <2>4, <2>5 DEF PInv, budgetVars
<1> QED BY <1>1, <1>2, <1>3, <1>4, <1>5, <1>6, <1>7, <1>8, <1>9, <1>10, <1>11 DEF Next

LEMMA PipelineInvariant == Spec => []PInv
<1>1. PInv /\ [Next]_vars => PInv'
  BY PipelineStep
<1> QED BY <1>1, PipelineStarts, PTL DEF Spec

\* Every variable of the pipeline, the budget and the slots stays in its type.
THEOREM PipelineTypeCorrect == Spec => []TypeOK
<1>1. PInv => TypeOK
  BY DEF PInv
<1> QED BY <1>1, PipelineInvariant, PTL

\* However many requests an address sends at once, and whatever is refused and rolled back
\* in between, no more than MaxAttempts verifications are admitted until its row is
\* cleared (auth/login: lockout check, charge, rollback).
THEOREM GuessesAreBounded == Spec => []GuessBudget
<1>1. PInv => GuessBudget
  BY DEF PInv, RowsCount, GuessBudget
<1> QED BY <1>1, PipelineInvariant, PTL

\* No rollback takes back what an admitted attempt was charged (auth/login: Object.assign of the
\* snapshot).
THEOREM AdmittedStaysCharged == Spec => []AdmittedIsCharged
<1>1. PInv => AdmittedIsCharged
  <2> SUFFICES ASSUME PInv, NEW i \in Ips PROVE lockouts[i].attempts >= tries[i]
    BY DEF AdmittedIsCharged
  <2>1. tries[i] <= lockouts[i].attempts /\ tries[i] \in Nat /\ lockouts[i].attempts \in Nat
    BY DEF PInv, RowsCount, TypeOK, Lockout
  <2> QED BY <2>1
<1> QED BY <1>1, PipelineInvariant, PTL

\* What slots and queue still hold when a cooldown starts cannot trigger another, as long as the
\* limit of failures exceeds the places (createLoginGuard: 30 against 2 and 8).
THEOREM CooldownsRunTheirTime == Spec => NoTriggerWhileCooling
<1>1. PInv /\ [Next]_vars => [cooldownUntil' # cooldownUntil => ~ CoolingDown]_vars
  BY PipelineStep
<1> QED BY <1>1, PipelineInvariant, PTL DEF Spec, NoTriggerWhileCooling

\* The bounds of slots and budget also hold in the handlers' order of microtasks.
THEOREM PipelineContainsBursts == Spec => []BurstsAreContained
<1>1. PInv => BurstsAreContained
  BY BurstIsMet DEF PInv, TypeOK, SInv, BurstsAreContained
<1> QED BY <1>1, PipelineInvariant, PTL
================================================================================
