--------------------------- MODULE CountingLemmas ---------------------------
(***************************************************************************)
(* Arithmetic that several proofs rest on: a set of naturals has a least   *)
(* member, a function can be applied any number of times, what a thread    *)
(* number is made of, and sums over the threads that contributed to a      *)
(* shared counter, in whatever order.                                      *)
(***************************************************************************)
EXTENDS Integers, FiniteSetTheorems, WellFoundedInduction, TLAPS

\* The sums of the first n of the N numbers f[0], ..., f[N-1], for n in 0..N.
IsPrefixSum(g, f, N) ==
  /\ g \in [0..N -> Int] /\ g[0] = 0
  /\ \A n \in 1..N : g[n] = g[n - 1] + f[n - 1]

PrefixSum(f, N) == CHOOSE g : IsPrefixSum(g, f, N)

\* The sum of the numbers f[0], ..., f[N-1].
SumOf(f, N) == PrefixSum(f, N)[N]

\* What applying F to x once, twice, ..., N times gives.
IsIteration(g, S, x, F, N) ==
  g \in [0..N -> S] /\ g[0] = x /\ \A n \in 1..N : g[n] = F[g[n - 1]]

-----------------------------------------------------------------------------
(***************************************************************************)
(* Naturals.                                                               *)
(***************************************************************************)
\* Every set of naturals that has a member has a least one.
LEMMA Least ==
  ASSUME NEW T, T \subseteq Nat, T # {}
  PROVE  \E m \in T : \A n \in T : m <= n
<1>1. PICK k : k \in T OBVIOUS
<1> DEFINE R == StrictSubsetOrdering(0..k)
           Low == {n \in T : n <= k}
           Intervals == {0..n : n \in Low}
<1>2. IsWellFoundedOn(R, FiniteSubsetsOf(0..k)) BY FS_StrictSubsetOrderingWellFounded
<1>3. Intervals \subseteq FiniteSubsetsOf(0..k)
  <2>1. ASSUME NEW n \in Low PROVE 0..n \in SUBSET (0..k) /\ IsFiniteSet(0..n)
    <3>1. n \in Nat /\ k \in Nat /\ n <= k BY <1>1
    <3> QED BY <3>1, FS_Interval
  <2> QED BY <2>1 DEF FiniteSubsetsOf
<1>4. Intervals # {}
  <2>1. k \in Low BY <1>1
  <2> QED BY <2>1
<1> HIDE DEF R
<1>5. PICK I \in Intervals : \A J \in Intervals : <<J, I>> \notin R
  <2> HIDE DEF Intervals
  <2> QED BY <1>2, <1>3, <1>4, WFMin
<1>6. PICK m \in Low : I = 0..m OBVIOUS
<1>7. ASSUME NEW n \in T, n < m PROVE FALSE
  <2>1. n \in Nat /\ m \in Nat /\ k \in Nat /\ m <= k BY <1>1, <1>6
  <2>2. n \in Low BY <2>1, <1>7
  <2>3. 0..n \in Intervals BY <2>2
  <2>4. 0..n \subseteq 0..m /\ m \in 0..m /\ m \notin 0..n BY <2>1, <1>7
  <2>5. 0..n \in SUBSET (0..k) /\ 0..m \in SUBSET (0..k) BY <2>1, <1>7
  <2>6. <<0..n, 0..m>> \in R BY <2>4, <2>5 DEF R, StrictSubsetOrdering
  <2> QED BY <2>3, <2>6, <1>5, <1>6
<1>8. m \in T /\ m \in Nat BY <1>6
<1> QED BY <1>7, <1>8

\* What holds at 0 and goes on from n to n + 1 holds up to N.
LEMMA UpTo ==
  ASSUME NEW N \in Nat, NEW Good, 0 \in Good,
         \A n \in 0..N : n + 1 \in 0..N /\ n \in Good => n + 1 \in Good
  PROVE  0..N \subseteq Good
<1> SUFFICES ASSUME (0..N) \ Good # {} PROVE FALSE
  OBVIOUS
<1>1. PICK m \in (0..N) \ Good : \A n \in (0..N) \ Good : m <= n
  <2>1. (0..N) \ Good \subseteq Nat OBVIOUS
  <2> QED BY <2>1, Least
<1>2. m # 0 /\ m \in Nat /\ m <= N OBVIOUS
<1>3. m - 1 \in 0..N /\ (m - 1) + 1 = m /\ ~(m <= m - 1) BY <1>2
<1>4. m - 1 \in Good BY <1>1, <1>3
<1> QED BY <1>3, <1>4

\* A function from a set to itself can be applied N times.
LEMMA Iterates ==
  ASSUME NEW N \in Nat, NEW S, NEW x \in S, NEW F \in [S -> S]
  PROVE  \E g : IsIteration(g, S, x, F, N)
<1> DEFINE Upto(g, m) == g \in [0..m -> S] /\ g[0] = x /\ \A n \in 1..m : g[n] = F[g[n - 1]]
           Good == {m \in 0..N : \E g : Upto(g, m)}
<1>1. 0 \in Good
  <2>1. \E g : Upto(g, 0)
    <3>1. Upto([k \in 0..0 |-> x], 0) OBVIOUS
    <3> HIDE DEF Upto
    <3> QED BY <3>1
  <2>2. 0 \in 0..N OBVIOUS
  <2> HIDE DEF Upto
  <2> QED BY <2>1, <2>2
<1>2. ASSUME NEW m \in 0..N, m + 1 \in 0..N, m \in Good PROVE m + 1 \in Good
  <2>1. PICK g : Upto(g, m) BY <1>2
  <2> DEFINE h == [k \in 0..(m + 1) |-> IF k = m + 1 THEN F[g[m]] ELSE g[k]]
  <2>2. g[m] \in S /\ \A k \in 0..m : g[k] \in S BY <2>1
  <2>3. F[g[m]] \in S BY <2>2
  <2>4. h \in [0..(m + 1) -> S] BY <2>2, <2>3
  <2>5. h[0] = x BY <2>1
  <2>6. ASSUME NEW n \in 1..(m + 1) PROVE h[n] = F[h[n - 1]]
    <3>1. n - 1 \in 0..m BY <2>6
    <3>2. h[n - 1] = g[n - 1] BY <3>1
    <3>3. CASE n = m + 1 BY <3>2, <3>3
    <3>4. CASE n # m + 1
      <4>1. n \in 1..m BY <3>4
      <4>2. h[n] = g[n] BY <4>1
      <4> QED BY <4>1, <4>2, <3>2, <2>1
    <3> QED BY <3>3, <3>4
  <2> HIDE DEF h
  <2>7. Upto(h, m + 1) BY <2>4, <2>5, <2>6
  <2> QED BY <2>7, <1>2
<1>3. 0..N \subseteq Good
  <2> HIDE DEF Good
  <2> QED BY <1>1, <1>2, UpTo
<1> QED BY <1>3 DEF IsIteration

\* Quotient and remainder are the only ones.
LEMMA Division ==
  ASSUME NEW n \in Nat \ {0}, NEW q \in Nat, NEW r \in 0..(n - 1), NEW x, x = q * n + r
  PROVE  x \in Nat /\ x \div n = q /\ x % n = r
<1>1. q * n \in Nat /\ x \in Nat OBVIOUS
<1>2. PICK p \in Nat, s \in 0..(n - 1) : p = x \div n /\ s = x % n /\ x = n * p + s
  BY <1>1
<1>3. ASSUME NEW a \in Nat, NEW c \in Nat, a < c PROVE a * n \in Nat /\ a * n + n <= c * n
  <2>1. PICK d \in Nat : c = a + 1 + d
    <3>1. c - (a + 1) \in Nat /\ c = a + 1 + (c - (a + 1)) BY <1>3
    <3> QED BY <3>1
  <2>2. c * n = a * n + n + d * n /\ d * n \in Nat /\ a * n \in Nat BY <2>1
  <2> QED BY <2>2
<1> DEFINE nq == q * n
           np == p * n
<1>4. nq \in Nat /\ np \in Nat /\ x = nq + r /\ x = np + s BY <1>2
<1>5. (q < p => nq + n <= np) /\ (p < q => np + n <= nq) BY <1>3
<1>6. q < p \/ p < q \/ p = q OBVIOUS
<1>7. p = q
  <2> HIDE DEF nq, np
  <2> QED BY <1>4, <1>5, <1>6
<1>8. s = r
  <2>1. np = nq BY <1>7
  <2> HIDE DEF nq, np
  <2> QED BY <2>1, <1>4
<1> QED BY <1>1, <1>2, <1>7, <1>8

\* Multiples are ordered as their factors.
LEMMA Multiples ==
  ASSUME NEW n \in Nat \ {0}, NEW a \in Nat, NEW c \in Nat
  PROVE  /\ a * n \in Nat /\ c * n \in Nat
         /\ a < c <=> a * n < c * n
         /\ a = c <=> a * n = c * n
<1>1. a * n \in Nat /\ c * n \in Nat OBVIOUS
<1>2. ASSUME NEW x \in Nat, NEW y \in Nat, x < y PROVE x * n < y * n
  <2>1. PICK d \in Nat : y = x + 1 + d
    <3>1. y - (x + 1) \in Nat /\ y = x + 1 + (y - (x + 1)) BY <1>2
    <3> QED BY <3>1
  <2>2. y * n = x * n + n + d * n /\ d * n \in Nat /\ x * n \in Nat BY <2>1
  <2> QED BY <2>2
<1> DEFINE A == a * n
           C == c * n
<1>3. (a < c => A < C) /\ (c < a => C < A) /\ (a = c => A = C) BY <1>2
<1>4. A \in Nat /\ C \in Nat BY <1>1
<1> HIDE DEF A, C
<1>5. (a < c <=> A < C) /\ (a = c <=> A = C) BY <1>3, <1>4
<1> QED BY <1>1, <1>5 DEF A, C

\* Numbers with the same remainder are a multiple of the divisor apart.
LEMMA SameRemainder ==
  ASSUME NEW n \in Nat \ {0}, NEW x \in Nat, NEW y \in Nat
  PROVE  /\ (x + n) % n = x % n
         /\ x % n \in 0..(n - 1) /\ x % n <= x
         /\ x < n => x % n = x
         /\ x % n = y % n /\ x < y => x + n <= y
<1>0. ASSUME NEW z \in Nat
      PROVE  /\ z \div n \in Nat /\ z % n \in 0..(n - 1)
             /\ z = n * (z \div n) + (z % n)
  <2>1. z \div n \in Nat /\ z % n \in 0..(n - 1) OBVIOUS
  <2>2. z = n * (z \div n) + (z % n) OBVIOUS
  <2> QED BY <2>1, <2>2
<1>1. ASSUME NEW a \in Nat, NEW c \in Nat, a < c PROVE n * a \in Nat /\ n * a + n <= n * c
  <2>1. PICK d \in Nat : c = a + 1 + d
    <3>1. c - (a + 1) \in Nat /\ c = a + 1 + (c - (a + 1)) BY <1>1
    <3> QED BY <3>1
  <2>2. n * c = n * a + n + n * d /\ n * d \in Nat /\ n * a \in Nat BY <2>1
  <2> QED BY <2>2
<1>2. ASSUME NEW a \in Nat, NEW c \in Nat, NEW r \in 0..(n - 1), NEW s \in 0..(n - 1),
             n * a + r = n * c + s
      PROVE  r = s
  <2> DEFINE na == n * a
             nc == n * c
  <2>1. na \in Nat /\ nc \in Nat OBVIOUS
  <2>2. (a < c => na + n <= nc) /\ (c < a => nc + n <= na) BY <1>1
  <2>3. a = c => na = nc OBVIOUS
  <2>4. na + r = nc + s BY <1>2
  <2>5. a < c \/ a = c \/ c < a OBVIOUS
  <2> HIDE DEF na, nc
  <2> QED BY <2>1, <2>2, <2>3, <2>4, <2>5
<1>3. PICK q \in Nat, r \in 0..(n - 1) : q = x \div n /\ r = x % n /\ x = n * q + r
  BY <1>0
<1>4. PICK p \in Nat, s \in 0..(n - 1) : p = y \div n /\ s = y % n /\ y = n * p + s
  BY <1>0
<1> DEFINE nq == n * q
           np == n * p
<1>5. nq \in Nat /\ np \in Nat /\ x = nq + r /\ y = np + s BY <1>3, <1>4
<1>6. (x + n) % n = r
  <2>1. PICK z \in Nat : z = x + n OBVIOUS
  <2>2. PICK u \in Nat, v \in 0..(n - 1) : v = z % n /\ z = n * u + v BY <1>0
  <2>3. PICK w \in Nat : w = q + 1 OBVIOUS
  <2>4. n * w = nq + n BY <2>3
  <2>5. n * w + r = n * u + v BY <2>1, <2>2, <2>4, <1>5
  <2>6. r = v BY <2>5, <1>2
  <2> QED BY <2>1, <2>2, <2>6
<1>7. x < n => r = x
  <2>1. n * 0 = 0 OBVIOUS
  <2>2. x < n => n * 0 + x = n * q + r BY <2>1, <1>3
  <2> QED BY <2>2, <1>2
<1>8. ASSUME r = s, x < y PROVE x + n <= y
  <2>1. q < p => nq + n <= np BY <1>1
  <2>2. p < q => np + n <= nq BY <1>1
  <2>3. p = q => np = nq OBVIOUS
  <2>4. q < p \/ p < q \/ p = q OBVIOUS
  <2> HIDE DEF nq, np
  <2> QED BY <2>1, <2>2, <2>3, <2>4, <1>5, <1>8
<1>9. r <= x
  <2> HIDE DEF nq
  <2> QED BY <1>5
<1> QED BY <1>3, <1>4, <1>6, <1>7, <1>8, <1>9

-----------------------------------------------------------------------------
(***************************************************************************)
(* Sums.                                                                   *)
(***************************************************************************)
\* Numbers have at most one prefix sum.
LEMMA SumUnique ==
  ASSUME NEW N \in Nat, NEW f, NEW g, NEW h, IsPrefixSum(g, f, N), IsPrefixSum(h, f, N)
  PROVE  g = h
<1> DEFINE Good == {n \in 0..N : g[n] = h[n]}
<1>1. 0 \in Good BY DEF IsPrefixSum
<1>2. ASSUME NEW n \in 0..N, n + 1 \in 0..N, n \in Good PROVE n + 1 \in Good
  <2>1. n + 1 \in 1..N /\ (n + 1) - 1 = n BY <1>2
  <2>2. g[n + 1] = g[n] + f[n] /\ h[n + 1] = h[n] + f[n] BY <2>1 DEF IsPrefixSum
  <2> QED BY <2>2, <1>2
<1> HIDE DEF Good
<1>3. 0..N \subseteq Good BY <1>1, <1>2, UpTo
<1>4. \A n \in 0..N : g[n] = h[n] BY <1>3 DEF Good
<1> QED BY <1>4 DEF IsPrefixSum

\* Numbers have a prefix sum.
LEMMA SumExists ==
  ASSUME NEW N \in Nat, NEW f \in [0..(N - 1) -> Int]
  PROVE  IsPrefixSum(PrefixSum(f, N), f, N)
<1> DEFINE Good == {n \in 0..N : \E g : IsPrefixSum(g, f, n)}
<1>1. 0 \in Good
  <2>1. IsPrefixSum([n \in 0..0 |-> 0], f, 0) BY DEF IsPrefixSum
  <2> QED BY <2>1
<1>2. ASSUME NEW n \in 0..N, n + 1 \in 0..N, n \in Good PROVE n + 1 \in Good
  <2>1. PICK g : IsPrefixSum(g, f, n) BY <1>2
  <2> DEFINE h == [m \in 0..(n + 1) |-> IF m = n + 1 THEN g[n] + f[n] ELSE g[m]]
  <2>2. n \in 0..(N - 1) /\ f[n] \in Int BY <1>2
  <2>3. g \in [0..n -> Int] /\ g[0] = 0 BY <2>1 DEF IsPrefixSum
  <2>4. g[n] \in Int /\ n \in Nat BY <2>3
  <2>5. h \in [0..(n + 1) -> Int] /\ h[0] = 0 BY <2>2, <2>3, <2>4
  <2>6. ASSUME NEW m \in 1..(n + 1) PROVE h[m] = h[m - 1] + f[m - 1]
    <3>1. CASE m = n + 1
      <4>1. m - 1 = n /\ n \in 0..(n + 1) /\ n # n + 1 /\ m \in 0..(n + 1) BY <3>1, <2>4
      <4> QED BY <4>1, <3>1
    <3>2. CASE m # n + 1
      <4>1. m \in 1..n /\ m \in 0..(n + 1) /\ m - 1 \in 0..(n + 1) /\ m - 1 # n + 1
        BY <3>2, <2>4
      <4>2. g[m] = g[m - 1] + f[m - 1] BY <4>1, <2>1 DEF IsPrefixSum
      <4> QED BY <4>1, <4>2, <3>2
    <3> QED BY <3>1, <3>2
  <2> HIDE DEF h
  <2>7. IsPrefixSum(h, f, n + 1) BY <2>5, <2>6 DEF IsPrefixSum
  <2> QED BY <2>7, <1>2
<1> HIDE DEF Good
<1>3. 0..N \subseteq Good BY <1>1, <1>2, UpTo
<1>4. \E g : IsPrefixSum(g, f, N) BY <1>3 DEF Good
<1> QED BY <1>4 DEF PrefixSum

\* What has the recurrence of the prefix sums ends in the sum.
LEMMA SumIs ==
  ASSUME NEW N \in Nat, NEW f \in [0..(N - 1) -> Int], NEW g, IsPrefixSum(g, f, N)
  PROVE  SumOf(f, N) = g[N] /\ SumOf(f, N) \in Int
<1>1. PrefixSum(f, N) = g BY SumExists, SumUnique
<1> QED BY <1>1 DEF SumOf, IsPrefixSum

\* Nobody has contributed.
LEMMA SumOfZeros ==
  ASSUME NEW N \in Nat, NEW f \in [0..(N - 1) -> Int], \A k \in 0..(N - 1) : f[k] = 0
  PROVE  SumOf(f, N) = 0
<1> DEFINE z == [n \in 0..N |-> 0]
<1>1. IsPrefixSum(z, f, N)
  <2>1. \A n \in 1..N : n \in 0..N /\ n - 1 \in 0..N /\ n - 1 \in 0..(N - 1) OBVIOUS
  <2> QED BY <2>1 DEF IsPrefixSum
<1> QED BY <1>1, SumIs

\* One thread contributes, whichever it is.
LEMMA SumChange ==
  ASSUME NEW N \in Nat, NEW f \in [0..(N - 1) -> Int], NEW h \in [0..(N - 1) -> Int],
         NEW k \in 0..(N - 1), \A n \in (0..(N - 1)) \ {k} : h[n] = f[n]
  PROVE  SumOf(h, N) = SumOf(f, N) + (h[k] - f[k])
<1>1. PICK g : g = PrefixSum(f, N) OBVIOUS
<1>2. IsPrefixSum(g, f, N) BY <1>1, SumExists
<1> DEFINE j == [n \in 0..N |-> IF n > k THEN g[n] + (h[k] - f[k]) ELSE g[n]]
<1>3. g \in [0..N -> Int] /\ g[0] = 0 /\ k \in Nat /\ h[k] \in Int /\ f[k] \in Int
  BY <1>2 DEF IsPrefixSum
<1>4. j \in [0..N -> Int] /\ j[0] = 0 BY <1>3
<1>5. ASSUME NEW n \in 1..N PROVE j[n] = j[n - 1] + h[n - 1]
  <2>1. /\ n \in 0..N /\ n - 1 \in 0..N /\ n - 1 \in 0..(N - 1) /\ n \in Int /\ n - 1 \in Int
        /\ g[n] \in Int /\ g[n - 1] \in Int /\ h[n - 1] \in Int /\ f[n - 1] \in Int
    BY <1>3
  <2>2. g[n] = g[n - 1] + f[n - 1] BY <1>2 DEF IsPrefixSum
  <2>3. CASE n - 1 = k
    <3>1. n > k /\ ~(n - 1 > k) BY <2>1, <2>3
    <3>2. j[n] = g[n] + (h[k] - f[k]) /\ j[n - 1] = g[n - 1] BY <3>1, <2>1
    <3>3. f[n - 1] = f[k] /\ h[n - 1] = h[k] BY <2>3
    <3> HIDE DEF j
    <3> QED BY <3>2, <3>3, <2>1, <2>2, <1>3
  <2>4. CASE n - 1 # k
    <3>1. n > k <=> n - 1 > k BY <2>1, <2>4, <1>3
    <3>2. h[n - 1] = f[n - 1] BY <2>1, <2>4
    <3>3. j[n] = IF n > k THEN g[n] + (h[k] - f[k]) ELSE g[n] BY <2>1
    <3>4. j[n - 1] = IF n - 1 > k THEN g[n - 1] + (h[k] - f[k]) ELSE g[n - 1] BY <2>1
    <3> HIDE DEF j
    <3>5. CASE n > k
      <4>1. j[n] = g[n] + (h[k] - f[k]) /\ j[n - 1] = g[n - 1] + (h[k] - f[k])
        BY <3>1, <3>3, <3>4, <3>5
      <4>2. PICK a \in Int, b \in Int, c \in Int :
              a = g[n - 1] /\ b = f[n - 1] /\ c = h[k] - f[k]
        BY <2>1, <1>3
      <4>3. (a + b) + c = (a + c) + b OBVIOUS
      <4> QED BY <4>1, <4>2, <4>3, <3>2, <2>2
    <3>6. CASE ~(n > k)
      <4>1. j[n] = g[n] /\ j[n - 1] = g[n - 1] BY <3>1, <3>3, <3>4, <3>6
      <4> QED BY <4>1, <3>2, <2>2
    <3> QED BY <3>5, <3>6
  <2> QED BY <2>3, <2>4
<1>6. j[N] = g[N] + (h[k] - f[k]) BY <1>3
<1> HIDE DEF j
<1>7. IsPrefixSum(j, h, N) BY <1>4, <1>5 DEF IsPrefixSum
<1>8. SumOf(h, N) = j[N] BY <1>7, SumIs
<1>9. SumOf(f, N) = g[N] BY <1>2, SumIs
<1> QED BY <1>6, <1>8, <1>9

\* Contributions of at most M each.
LEMMA SumBounds ==
  ASSUME NEW N \in Nat, NEW M \in Nat, NEW f \in [0..(N - 1) -> 0..M]
  PROVE  SumOf(f, N) \in 0..(N * M)
<1>1. PICK g : g = PrefixSum(f, N) OBVIOUS
<1>2. f \in [0..(N - 1) -> Int] OBVIOUS
<1>3. IsPrefixSum(g, f, N) BY <1>1, <1>2, SumExists
<1> DEFINE Good == {n \in 0..N : g[n] \in 0..(n * M)}
<1>4. 0 \in Good BY <1>3 DEF IsPrefixSum
<1>5. ASSUME NEW n \in 0..N, n + 1 \in 0..N, n \in Good PROVE n + 1 \in Good
  <2>1. n + 1 \in 1..N /\ (n + 1) - 1 = n /\ n \in 0..(N - 1) BY <1>5
  <2>2. g[n + 1] = g[n] + f[n] /\ f[n] \in 0..M BY <2>1, <1>3 DEF IsPrefixSum
  <2>3. PICK x \in Nat : x = n * M OBVIOUS
  <2>4. (n + 1) * M = x + M BY <2>3
  <2>5. g[n] \in 0..x BY <2>3, <1>5
  <2>6. g[n + 1] \in 0..(x + M) BY <2>2, <2>5
  <2> QED BY <2>4, <2>6, <1>5
<1> HIDE DEF Good
<1>6. 0..N \subseteq Good BY <1>4, <1>5, UpTo
<1>7. g[N] \in 0..(N * M) BY <1>6 DEF Good
<1> QED BY <1>2, <1>3, <1>7, SumIs
-----------------------------------------------------------------------------
(***************************************************************************)
(* Variables that a function of blocks and threads holds.                  *)
(***************************************************************************)
\* An assignment to the variable of one thread.
LEMMA UpdateCell ==
  ASSUME NEW C, NEW D, NEW S, NEW f \in [C -> [D -> S]], NEW b \in C, NEW t \in D,
         NEW v \in S
  PROVE  /\ [f EXCEPT ![b][t] = v] \in [C -> [D -> S]]
         /\ \A c \in C, u \in D :
              [f EXCEPT ![b][t] = v][c][u] = IF c = b /\ u = t THEN v ELSE f[c][u]
         /\ \A c \in C \ {b} : [f EXCEPT ![b][t] = v][c] = f[c]
<1>1. f[b] \in [D -> S] OBVIOUS
<1>2. [f EXCEPT ![b][t] = v] = [c \in C |-> IF c = b THEN [f[b] EXCEPT ![t] = v] ELSE f[c]]
  OBVIOUS
<1>3. /\ [f[b] EXCEPT ![t] = v] \in [D -> S]
      /\ \A u \in D : [f[b] EXCEPT ![t] = v][u] = IF u = t THEN v ELSE f[b][u]
  BY <1>1
<1> QED BY <1>2, <1>3

=============================================================================
