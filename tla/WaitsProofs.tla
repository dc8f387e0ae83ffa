----------------------------- MODULE WaitsProofs -----------------------------
(***************************************************************************)
(* Proofs about Waits: for every Duration and Second, every header and     *)
(* every attempt, the waits that come out of machine arithmetic are those  *)
(* that are meant.  What a recursive function computes takes induction,    *)
(* which is stated about sets of numbers.                                  *)
(***************************************************************************)
EXTENDS Waits, FiniteSetTheorems, TLAPS

(***************************************************************************)
(* Induction and recursion                                                 *)
(***************************************************************************)

\* Of some numbers one is the least.
LEMMA LeastNumber ==
  ASSUME NEW T, T \subseteq Nat, T # {}
  PROVE  \E x \in T : \A y \in T : x <= y
<1> DEFINE U == {0..k : k \in T}
<1>1. U \subseteq FiniteSubsetsOf(Nat) /\ U # {}
  <2>1. \A k \in T : 0..k \subseteq Nat /\ IsFiniteSet(0..k)
    BY FS_Interval
  <2>2. QED
    BY <2>1 DEF FiniteSubsetsOf
<1>2. PICK u \in U : \A v \in U : ~ (<<v, u>> \in StrictSubsetOrdering(Nat))
  BY <1>1, FS_StrictSubsetOrderingWellFounded, WFMin
<1>3. PICK k \in T : u = 0..k
  OBVIOUS
<1>4. ASSUME NEW y \in T, y < k
      PROVE  FALSE
  <2>1. 0..y \subseteq 0..k /\ 0..y # 0..k
    BY <1>4
  <2>2. 0..y \in U /\ <<0..y, u>> \in StrictSubsetOrdering(Nat)
    BY <2>1, <1>3 DEF StrictSubsetOrdering
  <2>3. QED
    BY <2>2, <1>2
<1>5. QED
  BY <1>4

\* Induction: a set that holds 0 and with each number the next holds them all.
LEMMA NumberInduction ==
  ASSUME NEW P, 0 \in P, \A n \in Nat : n \in P => n + 1 \in P
  PROVE  \A n \in Nat : n \in P
<1> SUFFICES ASSUME Nat \ P # {} PROVE FALSE
  OBVIOUS
<1>1. PICK n \in Nat \ P : \A y \in Nat \ P : n <= y
  BY LeastNumber
<1>2. n # 0 /\ n - 1 \in Nat /\ n = (n - 1) + 1
  BY <1>1
<1>3. n - 1 \in P
  BY <1>1, <1>2
<1>4. QED
  BY <1>2, <1>3

\* Recursion: a function on integers may be applied as often as one likes.
LEMMA Iteration ==
  ASSUME NEW f \in [Int -> Int], NEW x \in Int
  PROVE  \E g \in [Nat -> Int] : g[0] = x /\ \A n \in Nat : g[n+1] = f[g[n]]
<1> DEFINE Upto(n, g) == g[0] = x /\ \A i \in 0..n-1 : g[i+1] = f[g[i]]
           P == {n \in Nat : \E g \in [0..n -> Int] : Upto(n, g)}
<1>1. 0 \in P
  <2>1. [i \in 0..0 |-> x] \in [0..0 -> Int] /\ Upto(0, [i \in 0..0 |-> x])
    OBVIOUS
  <2>2. QED
    BY <2>1
<1>2. ASSUME NEW n \in Nat, n \in P
      PROVE  n + 1 \in P
  <2>1. PICK g \in [0..n -> Int] : Upto(n, g)
    BY <1>2
  <2> DEFINE h == [i \in 0..n+1 |-> IF i = n + 1 THEN f[g[n]] ELSE g[i]]
  <2>2. h \in [0..n+1 -> Int]
    <3>1. \A i \in 0..n+1 : i # n + 1 => i \in 0..n
      OBVIOUS
    <3>2. n \in 0..n /\ f[g[n]] \in Int
      OBVIOUS
    <3>3. QED
      BY <3>1, <3>2
  <2>3. h[n+1] = f[g[n]] /\ \A i \in 0..n : h[i] = g[i]
    <3>1. n + 1 \in 0..n+1 /\ \A i \in 0..n : i \in 0..n+1 /\ i # n + 1
      OBVIOUS
    <3>2. \A i \in 0..n+1 : h[i] = IF i = n + 1 THEN f[g[n]] ELSE g[i]
      OBVIOUS
    <3> HIDE DEF h
    <3>3. QED
      BY <3>1, <3>2
  <2> HIDE DEF h
  <2>4. h[0] = x
    <3>1. 0 \in 0..n
      OBVIOUS
    <3>2. QED
      BY <2>1, <2>3, <3>1
  <2>5. ASSUME NEW i \in 0..n
        PROVE  h[i+1] = f[h[i]]
    <3>1. CASE i = n
      BY <2>3, <3>1
    <3>2. CASE i # n
      <4>1. i \in 0..n-1 /\ i + 1 \in 0..n
        BY <3>2
      <4>2. QED
        BY <2>1, <2>3, <4>1
    <3>3. QED
      BY <3>1, <3>2
  <2>6. n + 1 \in Nat /\ (n + 1) - 1 = n
    OBVIOUS
  <2>7. Upto(n + 1, h)
    BY <2>4, <2>5, <2>6
  <2>8. QED
    BY <2>2, <2>6, <2>7
<1>3. \A n \in Nat : n \in P
  <2> HIDE DEF P
  <2>1. QED
    BY <1>1, <1>2, NumberInduction
<1> DEFINE G(n) == CHOOSE g \in [0..n -> Int] : Upto(n, g)
<1>4. \A n \in Nat : G(n) \in [0..n -> Int] /\ Upto(n, G(n))
  BY <1>3
<1>5. ASSUME NEW n \in Nat, NEW g, NEW h, Upto(n, g), Upto(n, h)
      PROVE  g[n] = h[n]
  <2> DEFINE Q == {i \in Nat : i <= n => g[i] = h[i]}
  <2>1. 0 \in Q
    BY <1>5
  <2>2. \A i \in Nat : i \in Q => i + 1 \in Q
    BY <1>5
  <2>3. \A i \in Nat : i \in Q
    <3> HIDE DEF Q
    <3>1. QED
      BY <2>1, <2>2, NumberInduction
  <2>4. QED
    BY <2>3
<1> DEFINE F == [n \in Nat |-> G(n)[n]]
<1> HIDE DEF P, G
<1>6. F \in [Nat -> Int] /\ F[0] = x
  BY <1>4
<1>7. ASSUME NEW n \in Nat
      PROVE  F[n+1] = f[F[n]]
  <2>1. Upto(n + 1, G(n+1)) /\ Upto(n, G(n))
    BY <1>4
  <2>2. Upto(n, G(n+1)) /\ G(n+1)[n+1] = f[G(n+1)[n]]
    BY <2>1
  <2>3. G(n+1)[n] = G(n)[n]
    <3> HIDE DEF Upto
    <3>1. QED
      BY <1>5, <2>1, <2>2
  <2>4. QED
    BY <2>2, <2>3
<1>8. QED
  BY <1>6, <1>7

(***************************************************************************)
(* Machine integers                                                        *)
(***************************************************************************)

\* What fits in a Duration is not wrapped.
LEMMA WrapFits ==
  ASSUME NEW x \in 0..MaxDuration
  PROVE  Wrap(x) = x
<1> DEFINE n == 2 * MaxDuration + 2
           y == x + MaxDuration + 1
<1>1. n \in Nat \ {0} /\ y \in 0..n-1 /\ MaxDuration \in Nat
  BY WaitsAssumption DEF WaitsAssumption
<1>2. \A k \in Nat \ {0} : \A z \in 0..k-1 : z % k = z
  OBVIOUS
<1>3. y % n = y
  BY <1>1, <1>2
<1>4. QED
  BY <1>1, <1>3 DEF Wrap

\* The defining equations of PowerOfTwo.
LEMMA PowersOfTwo ==
  /\ PowerOfTwo[0] = 1
  /\ \A n \in Nat : PowerOfTwo[n+1] = 2 * PowerOfTwo[n]
  /\ \A n \in Nat : PowerOfTwo[n] \in Nat \ {0}
<1> DEFINE Rule(p) == [n \in Nat |-> IF n = 0 THEN 1 ELSE 2 * p[n-1]]
           twice == [z \in Int |-> 2 * z]
<1>1. PICK g \in [Nat -> Int] : g[0] = 1 /\ \A n \in Nat : g[n+1] = twice[g[n]]
  <2>1. twice \in [Int -> Int]
    OBVIOUS
  <2>2. PICK one \in Int : one = 1
    OBVIOUS
  <2> HIDE DEF twice
  <2>3. QED
    BY <2>1, <2>2, Iteration
<1>2. ASSUME NEW n \in Nat, n # 0
      PROVE  n - 1 \in Nat /\ g[n] = 2 * g[n-1]
  <2>1. n - 1 \in Nat /\ (n - 1) + 1 = n
    BY <1>2
  <2>2. QED
    BY <1>1, <2>1
<1>3. g = Rule(g)
  BY <1>1, <1>2
<1>4. PowerOfTwo = Rule(PowerOfTwo)
  BY <1>3 DEF PowerOfTwo
<1> HIDE DEF twice
<1>5. PowerOfTwo[0] = 1
  BY <1>4
<1>6. \A n \in Nat : PowerOfTwo[n+1] = 2 * PowerOfTwo[n]
  BY <1>4
<1> DEFINE P == {n \in Nat : PowerOfTwo[n] \in Nat \ {0}}
<1>7. 0 \in P /\ \A n \in Nat : n \in P => n + 1 \in P
  BY <1>5, <1>6
<1> HIDE DEF P
<1>8. \A n \in Nat : n \in P
  BY <1>7, NumberInduction
<1>9. QED
  BY <1>5, <1>6, <1>8 DEF P

\* The defining equations of Doubling: the loop of backoffFor.
LEMMA DoublingSteps ==
  ASSUME NEW base \in Int, NEW ceiling \in Int
  PROVE  LET d == Doubling(base, ceiling) IN
         /\ d[0] = base
         /\ \A n \in Nat : d[n+1] = IF d[n] < ceiling THEN Wrap(2 * d[n]) ELSE d[n]
<1> DEFINE d == Doubling(base, ceiling)
           Rule(p) ==
             [i \in Nat |->
                IF i = 0 THEN base ELSE IF p[i-1] < ceiling THEN Wrap(2 * p[i-1]) ELSE p[i-1]]
           step == [z \in Int |-> IF z < ceiling THEN Wrap(2 * z) ELSE z]
<1>1. step \in [Int -> Int]
  <2>1. \A z \in Int : Wrap(z) \in Int
    BY WaitsAssumption DEF WaitsAssumption, Wrap
  <2>2. \A z \in Int : Wrap(2 * z) \in Int
    BY <2>1
  <2>3. QED
    BY <2>2
<1>2. PICK g \in [Nat -> Int] : g[0] = base /\ \A n \in Nat : g[n+1] = step[g[n]]
  <2> HIDE DEF step
  <2>1. QED
    BY <1>1, Iteration
<1>3. ASSUME NEW n \in Nat, n # 0
      PROVE  /\ n - 1 \in Nat
             /\ g[n] = IF g[n-1] < ceiling THEN Wrap(2 * g[n-1]) ELSE g[n-1]
  <2>1. n - 1 \in Nat /\ (n - 1) + 1 = n
    BY <1>3
  <2>2. g[n] = step[g[n-1]] /\ g[n-1] \in Int
    BY <1>2, <2>1
  <2>3. QED
    BY <2>1, <2>2
<1>4. g = Rule(g)
  BY <1>2, <1>3
<1>5. d = Rule(d)
  BY <1>4 DEF Doubling
<1> HIDE DEF d
<1>6. QED
  BY <1>5 DEF d

(***************************************************************************)
(* The backoff                                                             *)
(***************************************************************************)

\* Until it reaches the ceiling the duration is base * 2^n; after that it stays
\* where it is, and it never leaves the range (options.go:156-163).
LEMMA DoublingExact ==
  ASSUME NEW ceiling \in 1 .. MaxDuration \div 2 + 1, NEW base \in 1..ceiling,
         NEW n \in Nat
  PROVE  LET d == Doubling(base, ceiling)[n]  nominal == base * PowerOfTwo[n] IN
         /\ d \in 1..MaxDuration
         /\ nominal \in Nat /\ d <= nominal
         /\ d < ceiling => d = nominal
<1> DEFINE d == Doubling(base, ceiling)
           N(i) == base * PowerOfTwo[i]
           P == {i \in Nat : /\ d[i] \in 1..MaxDuration
                             /\ N(i) \in Nat /\ d[i] <= N(i)
                             /\ d[i] < ceiling => d[i] = N(i)}
<1> USE WaitsAssumption DEF WaitsAssumption
<1>0. ceiling \in Nat /\ base \in Nat /\ MaxDuration \in Nat /\ base <= ceiling /\ base >= 1
      /\ 2 * (ceiling - 1) <= MaxDuration /\ ceiling <= MaxDuration
  OBVIOUS
<1>1. d[0] = base /\ \A i \in Nat : d[i+1] = IF d[i] < ceiling THEN Wrap(2 * d[i]) ELSE d[i]
  BY <1>0, DoublingSteps
<1> HIDE DEF d
<1>2. \A i \in Nat : N(i) \in Nat /\ N(i+1) = 2 * N(i)
  <2>1. \A i \in Nat : PowerOfTwo[i] \in Nat /\ PowerOfTwo[i+1] = 2 * PowerOfTwo[i]
    BY PowersOfTwo
  <2>2. \A x, y \in Nat : x * y \in Nat /\ x * (2 * y) = 2 * (x * y)
    OBVIOUS
  <2>3. QED
    BY <1>0, <2>1, <2>2
<1>3. N(0) = base
  BY <1>0, PowersOfTwo
<1> HIDE DEF N
<1>4. 0 \in P
  BY <1>0, <1>1, <1>2, <1>3
<1>5. ASSUME NEW i \in Nat, i \in P
      PROVE  i + 1 \in P
  <2>1. CASE d[i] < ceiling
    <3>1. 2 * d[i] \in 0..MaxDuration /\ 2 * d[i] >= 1
      BY <1>0, <1>5, <2>1
    <3>2. d[i+1] = 2 * d[i]
      BY <1>1, <2>1, <3>1, WrapFits
    <3>3. QED
      BY <1>2, <1>5, <2>1, <3>1, <3>2
  <2>2. CASE ~(d[i] < ceiling)
    BY <1>0, <1>1, <1>2, <1>5, <2>2
  <2>3. QED
    BY <2>1, <2>2
<1> HIDE DEF P
<1>6. \A i \in Nat : i \in P
  BY <1>4, <1>5, NumberInduction
<1>7. QED
  BY <1>6 DEF P, N, d

\* With jitter the wait is drawn from the half of d below it.
LEMMA HalvesFit ==
  ASSUME NEW d \in Nat, d > 1
  PROVE  /\ d \div 2 .. 2 * (d \div 2) - 1 # {}
         /\ d \div 2 .. 2 * (d \div 2) - 1 \subseteq d \div 2 .. d
<1>1. PICK h \in Nat : h = d \div 2 /\ h >= 1 /\ 2 * h <= d
  OBVIOUS
<1>2. h \in h .. 2 * h - 1 /\ \A x \in h .. 2 * h - 1 : x \in h .. d
  BY <1>1
<1>3. QED
  BY <1>1, <1>2

(***************************************************************************)
(* The header                                                              *)
(***************************************************************************)

\* A number of seconds that passes the check of parseRetryAfter fits in a Duration.
LEMMA SecondsFit ==
  ASSUME NEW secs \in Nat, secs <= MaxDuration \div Second
  PROVE  secs * Second \in 0..MaxDuration
<1> DEFINE q == MaxDuration \div Second
<1>1. MaxDuration \in Nat /\ Second \in Nat \ {0}
  BY WaitsAssumption DEF WaitsAssumption
<1>2. \A a \in Nat, b \in Nat \ {0} : (a \div b) \in Nat /\ (a \div b) * b <= a
  OBVIOUS
<1>3. \A x, y, z \in Nat : x * z \in Nat /\ (x <= y => x * z <= y * z)
  OBVIOUS
<1>4. q \in Nat /\ q * Second <= MaxDuration
  BY <1>1, <1>2
<1> HIDE DEF q
<1>5. secs * Second \in Nat /\ q * Second \in Nat /\ secs * Second <= q * Second
  BY <1>1, <1>3, <1>4 DEF q
<1>6. QED
  BY <1>1, <1>4, <1>5

\* One of more seconds asks for more than a Duration holds.
LEMMA SecondsOverflow ==
  ASSUME NEW secs \in Nat, secs > MaxDuration \div Second
  PROVE  secs * Second \in Nat /\ secs * Second > MaxDuration
<1> DEFINE q == MaxDuration \div Second
<1>1. MaxDuration \in Nat /\ Second \in Nat \ {0}
  BY WaitsAssumption DEF WaitsAssumption
<1>2. \A a \in Nat, b \in Nat \ {0} : (a \div b) \in Nat /\ ((a \div b) + 1) * b > a
  OBVIOUS
<1>3. \A x, y, z \in Nat : x * z \in Nat /\ (x <= y => x * z <= y * z)
  OBVIOUS
<1>4. q \in Nat /\ (q + 1) * Second > MaxDuration
  BY <1>1, <1>2
<1> HIDE DEF q
<1>5. q + 1 <= secs /\ q + 1 \in Nat
  BY <1>4 DEF q
<1>6. /\ secs * Second \in Nat /\ (q + 1) * Second \in Nat
      /\ (q + 1) * Second <= secs * Second
  BY <1>1, <1>3, <1>5
<1>7. QED
  BY <1>1, <1>4, <1>6

(***************************************************************************)
(* Theorems                                                                *)
(***************************************************************************)

\* Whatever the attempt, the backoff is min(max, base * 2^n), of which jitter takes
\* at most half: the doubling stops before it leaves the range of a Duration
\* (options.go:150-168, promised at 61-63).
THEOREM BackoffsExact ==
  \A ceiling \in 1 .. MaxDuration \div 2 + 1, attempt \in Nat :
    \A base \in 1..ceiling : BackoffExact(base, ceiling, attempt)
<1> SUFFICES ASSUME NEW ceiling \in 1 .. MaxDuration \div 2 + 1, NEW jitter \in BOOLEAN,
                    NEW attempt \in Nat, NEW base \in 1..ceiling
             PROVE  LET waits == BackoffFor(base, ceiling, jitter, attempt)
                        d     == Nominal(base, ceiling, attempt)
                    IN  /\ waits # {}
                        /\ waits \subseteq LeastBackoff(base, ceiling, jitter, attempt) .. d
                        /\ jitter \/ waits = {d}
  BY DEF BackoffExact
<1> DEFINE doubled == Doubling(base, ceiling)[attempt]
           d == Nominal(base, ceiling, attempt)
<1>1. /\ doubled \in Nat /\ doubled >= 1
      /\ base * PowerOfTwo[attempt] \in Nat /\ doubled <= base * PowerOfTwo[attempt]
      /\ doubled < ceiling => doubled = base * PowerOfTwo[attempt]
  BY DoublingExact, WaitsAssumption DEF WaitsAssumption
<1>2. ceiling \in Nat /\ ceiling >= 1
  BY WaitsAssumption DEF WaitsAssumption
<1>3. d \in Nat /\ d >= 1 /\ d = IF doubled \in 1..ceiling THEN doubled ELSE ceiling
  BY <1>1, <1>2 DEF Nominal, Smaller
<1>4. /\ BackoffFor(base, ceiling, jitter, attempt) =
           IF jitter /\ d > 1 THEN d \div 2 .. 2 * (d \div 2) - 1 ELSE {d}
      /\ LeastBackoff(base, ceiling, jitter, attempt) = IF jitter /\ d > 1 THEN d \div 2 ELSE d
  BY <1>3 DEF BackoffFor, LeastBackoff
<1> HIDE DEF d
<1>5. CASE jitter /\ d > 1
  BY <1>3, <1>4, <1>5, HalvesFit DEF d
<1>6. CASE ~(jitter /\ d > 1)
  BY <1>3, <1>4, <1>6 DEF d
<1>7. QED
  BY <1>5, <1>6

\* Whatever the header holds, the delay that is read from it is, up to any cap, the
\* one it asks for: more seconds than a Duration holds become the longest Duration
\* before they are multiplied (circuitbreaker.go:410-421).
THEOREM HeadersExact ==
  \A h \in Headers :
    h.read \in 0..MaxDuration /\ h.asks \in Nat /\ HeaderExact(h)
<1> SUFFICES ASSUME NEW h \in Headers, NEW most \in 0..MaxDuration
             PROVE  /\ h.read \in 0..MaxDuration /\ h.asks \in Nat
                    /\ Smaller(h.read, most) = Smaller(h.asks, most)
  <2>1. 0 \in 0..MaxDuration
    BY WaitsAssumption DEF WaitsAssumption
  <2>2. QED
    BY <2>1 DEF HeaderExact
<1>1. MaxDuration \in Nat /\ Second \in Nat \ {0} /\ MaxDuration \div Second \in Int
  BY WaitsAssumption DEF WaitsAssumption
<1>2. CASE \E d \in 0..MaxDuration : h = [asks |-> d, read |-> d]
  BY <1>1, <1>2
<1>3. CASE \E secs \in 0..MaxDuration : h = [asks |-> secs * Second, read |-> Seconds(secs)]
  <2>1. PICK secs \in 0..MaxDuration : h = [asks |-> secs * Second, read |-> Seconds(secs)]
    BY <1>3
  <2>2. secs \in Nat
    BY <1>1
  <2>3. CASE secs > MaxDuration \div Second
    <3>1. h.read = MaxDuration /\ h.asks \in Nat /\ h.asks > MaxDuration
      BY <2>1, <2>2, <2>3, SecondsOverflow DEF Seconds
    <3>2. QED
      BY <1>1, <3>1 DEF Smaller
  <2>4. CASE secs <= MaxDuration \div Second
    <3>1. ~(secs > MaxDuration \div Second) /\ secs * Second \in 0..MaxDuration
      BY <1>1, <2>2, <2>4, SecondsFit
    <3>2. Seconds(secs) = secs * Second
      BY <3>1, WrapFits DEF Seconds
    <3>3. QED
      BY <1>1, <2>1, <3>1, <3>2
  <2>5. QED
    BY <1>1, <2>2, <2>3, <2>4
<1>4. QED
  BY <1>2, <1>3 DEF Headers
=============================================================================
