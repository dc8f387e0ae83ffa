---------------------------- MODULE MetricsProofs ----------------------------
(***************************************************************************)
(* Proofs about Metrics: for every number of endpoints, samples and        *)
(* seconds, and for clocks that run and are set back as they like, what is *)
(* answered is what the log of all events says.                            *)
(***************************************************************************)
EXTENDS Metrics, FiniteSetTheorems, TLAPS

(***************************************************************************)
(* Sums.  A sum of natural numbers counts a union of disjoint sets.        *)
(***************************************************************************)

\* What a function makes of a finite set is finite.
LEMMA ImageFinite ==
  ASSUME NEW S, IsFiniteSet(S), NEW f
  PROVE  IsFiniteSet({f[x] : x \in S})
<1> DEFINE T == {f[x] : x \in S}
<1>1. [x \in S |-> f[x]] \in Surjection(S, T)
  BY DEF Surjection
<1>2. QED
  BY <1>1, FS_Surjection

LEMMA DisjointUnion ==
  ASSUME NEW S, NEW T, IsFiniteSet(S), IsFiniteSet(T), S \cap T = {}
  PROVE  /\ IsFiniteSet(S \cup T)
         /\ Cardinality(S \cup T) = Cardinality(S) + Cardinality(T)
         /\ Cardinality(S) \in Nat /\ Cardinality(T) \in Nat
<1>1. Cardinality(S) \in Nat /\ Cardinality(T) \in Nat /\ Cardinality({}) = 0
  BY FS_CardinalityType, FS_EmptySet
<1>2. /\ IsFiniteSet(S \cup T)
      /\ Cardinality(S \cup T) = Cardinality(S) + Cardinality(T) - Cardinality(S \cap T)
  BY FS_Union, Zenon
<1>3. Cardinality(S \cup T) = Cardinality(S) + Cardinality(T) - Cardinality({})
  BY <1>2, Zenon
<1>4. QED
  BY <1>1, <1>2, <1>3

\* A recursive function on finite sets is what any solution of its equation is.
LEMMA FoldUnique ==
  ASSUME NEW S, IsFiniteSet(S), NEW f, NEW g, NEW h,
         g = [s \in SUBSET S |-> IF s = {} THEN 0
                                 ELSE f[CHOOSE x \in s : TRUE] + g[s \ {CHOOSE x \in s : TRUE}]],
         h = [s \in SUBSET S |-> IF s = {} THEN 0
                                 ELSE f[CHOOSE x \in s : TRUE] + h[s \ {CHOOSE x \in s : TRUE}]]
  PROVE  g = h
<1> DEFINE Differ == {s \in SUBSET S : g[s] # h[s]}
           one == [s \in SUBSET S |-> CHOOSE x \in s : TRUE]
<1>1. /\ \A s \in SUBSET S : g[s] = IF s = {} THEN 0 ELSE f[one[s]] + g[s \ {one[s]}]
      /\ \A s \in SUBSET S : h[s] = IF s = {} THEN 0 ELSE f[one[s]] + h[s \ {one[s]}]
      /\ \A s \in SUBSET S : s # {} => one[s] \in s
  <2>1. \A s \in SUBSET S : one[s] = CHOOSE x \in s : TRUE
    OBVIOUS
  <2>2. \A s \in SUBSET S : s # {} => one[s] \in s
    OBVIOUS
  <2>3. ASSUME NEW s \in SUBSET S
        PROVE  /\ g[s] = IF s = {} THEN 0 ELSE f[one[s]] + g[s \ {one[s]}]
               /\ h[s] = IF s = {} THEN 0 ELSE f[one[s]] + h[s \ {one[s]}]
    <3>1. one[s] = CHOOSE x \in s : TRUE
      BY <2>1
    <3> HIDE DEF one, Differ
    <3>2. g[s] = IF s = {} THEN 0
                 ELSE f[CHOOSE x \in s : TRUE] + g[s \ {CHOOSE x \in s : TRUE}]
      OBVIOUS
    <3>3. h[s] = IF s = {} THEN 0
                 ELSE f[CHOOSE x \in s : TRUE] + h[s \ {CHOOSE x \in s : TRUE}]
      OBVIOUS
    <3>4. QED
      BY <3>1, <3>2, <3>3
  <2>4. QED
    BY <2>2, <2>3
<1> HIDE DEF one
<1>2. Differ = {}
  <2> SUFFICES ASSUME Differ # {} PROVE FALSE
    OBVIOUS
  <2>1. Differ \subseteq FiniteSubsetsOf(S)
    <3>1. \A t \in SUBSET S : IsFiniteSet(t)
      BY FS_Subset
    <3>2. Differ \subseteq SUBSET S
      OBVIOUS
    <3> HIDE DEF Differ
    <3>3. QED
      BY <3>1, <3>2 DEF FiniteSubsetsOf
  <2>2. PICK s \in Differ : \A t \in Differ : ~ (<<t, s>> \in StrictSubsetOrdering(S))
    <3>1. IsWellFoundedOn(StrictSubsetOrdering(S), FiniteSubsetsOf(S))
      BY FS_StrictSubsetOrderingWellFounded
    <3> HIDE DEF Differ
    <3>2. QED
      BY <2>1, <3>1, WFMin
  <2>3. s # {} /\ one[s] \in s
    BY <1>1
  <2>4. s \ {one[s]} \in SUBSET S /\ s \ {one[s]} \notin Differ
    <3>1. <<s \ {one[s]}, s>> \in StrictSubsetOrdering(S)
      BY <2>3 DEF StrictSubsetOrdering
    <3>2. QED
      BY <2>2, <3>1
  <2>5. QED
    BY <1>1, <2>3, <2>4
<1>3. QED
  BY <1>2

\* The sum of the sizes of disjoint sets is the size of their union.
LEMMA SumOfDisjoint ==
  ASSUME NEW S, IsFiniteSet(S), NEW A,
         \A x \in S : IsFiniteSet(A[x]),
         \A x, y \in S : x # y => A[x] \cap A[y] = {}
  PROVE  /\ SumFunction([x \in S |-> Cardinality(A[x])]) = Cardinality(UNION {A[x] : x \in S})
         /\ IsFiniteSet(UNION {A[x] : x \in S})
<1> DEFINE f == [x \in S |-> Cardinality(A[x])]
           All(s) == UNION {A[x] : x \in s}
           Rule(g) == [s \in SUBSET S |->
                         IF s = {} THEN 0
                         ELSE f[CHOOSE x \in s : TRUE] + g[s \ {CHOOSE x \in s : TRUE}]]
           count == [s \in SUBSET S |-> Cardinality(All(s))]
           iter == CHOOSE g : g = Rule(g)
<1>1. SumFunction(f) = iter[S]
  BY DEF SumFunction, SumFunctionOnSet, FoldFunctionOnSet, MapThenFoldSet
<1>2. ASSUME NEW s \in SUBSET S
      PROVE  IsFiniteSet(s) /\ IsFiniteSet(All(s)) /\ Cardinality(All(s)) \in Nat
  <2>1. IsFiniteSet(s)
    BY FS_Subset
  <2>2. IsFiniteSet({A[x] : x \in s})
    BY <2>1, ImageFinite
  <2>3. IsFiniteSet(All(s))
    BY <2>2, FS_UNION
  <2>4. QED
    BY <2>1, <2>3, FS_CardinalityType
<1>3. count = Rule(count)
  <2>1. ASSUME NEW s \in SUBSET S, NEW x \in s
        PROVE  Cardinality(All(s)) = f[x] + count[s \ {x}]
    <3>1. All(s) = A[x] \cup All(s \ {x}) /\ A[x] \cap All(s \ {x}) = {}
      OBVIOUS
    <3>2. IsFiniteSet(A[x]) /\ Cardinality(A[x]) \in Nat
      BY FS_CardinalityType
    <3>3. IsFiniteSet(All(s \ {x})) /\ Cardinality(All(s \ {x})) \in Nat
      BY <1>2
    <3>4. Cardinality(All(s)) = Cardinality(A[x]) + Cardinality(All(s \ {x}))
      BY <3>1, <3>2, <3>3, DisjointUnion
    <3>5. f[x] = Cardinality(A[x]) /\ count[s \ {x}] = Cardinality(All(s \ {x}))
      OBVIOUS
    <3>6. QED
      BY <3>4, <3>5
  <2>2. ASSUME NEW s \in SUBSET S
        PROVE  count[s] = IF s = {} THEN 0
                          ELSE f[CHOOSE x \in s : TRUE] + count[s \ {CHOOSE x \in s : TRUE}]
    <3>1. CASE s = {}
      BY <3>1, FS_EmptySet
    <3>2. CASE s # {}
      <4>1. (CHOOSE x \in s : TRUE) \in s
        BY <3>2
      <4>2. QED
        BY <2>1, <3>2, <4>1
    <3>3. QED
      BY <3>1, <3>2
  <2> HIDE DEF f
  <2>3. QED
    BY <2>2
<1>4. iter = Rule(iter)
  <2>1. \E g : g = Rule(g)
    <3> HIDE DEF count, Rule
    <3>1. QED
      BY <1>3
  <2> HIDE DEF Rule
  <2>2. QED
    BY <2>1
<1>5. iter = count
  <2> HIDE DEF iter, count, f
  <2>1. QED
    BY <1>3, <1>4, FoldUnique
<1>6. SumFunction(f) = Cardinality(All(S))
  <2>1. iter[S] = count[S]
    <3> HIDE DEF iter, count
    <3>1. QED
      BY <1>5
  <2>2. QED
    BY <1>1, <2>1
<1>7. QED
  BY <1>2, <1>6

\* As many units as x has, for each x of S.
Units(S, f) == UNION {{x} \X (1..f[x]) : x \in S}

\* A sum of natural numbers is a number of units.
LEMMA SumCountsUnits ==
  ASSUME NEW S, IsFiniteSet(S), NEW f \in [S -> Nat]
  PROVE  /\ SumFunction(f) = Cardinality(Units(S, f))
         /\ IsFiniteSet(Units(S, f))
         /\ SumFunction(f) \in Nat
<1> DEFINE A == [x \in S |-> {x} \X (1..f[x])]
<1>1. ASSUME NEW x \in S
      PROVE  IsFiniteSet(A[x]) /\ Cardinality(A[x]) = f[x]
  <2>1. IsFiniteSet({x}) /\ Cardinality({x}) = 1
    BY FS_Singleton
  <2>2. IsFiniteSet(1..f[x]) /\ Cardinality(1..f[x]) = f[x]
    <3>1. f[x] \in Nat
      OBVIOUS
    <3>2. QED
      BY <3>1, FS_Interval
  <2>3. /\ IsFiniteSet({x} \X (1..f[x]))
        /\ Cardinality({x} \X (1..f[x])) = Cardinality({x}) * Cardinality(1..f[x])
    BY <2>1, <2>2, FS_Product
  <2>4. QED
    BY <2>1, <2>2, <2>3
<1>2. \A x, y \in S : x # y => A[x] \cap A[y] = {}
  OBVIOUS
<1>3. UNION {A[x] : x \in S} = Units(S, f)
  BY DEF Units
<1>4. f = [x \in S |-> Cardinality(A[x])]
  BY <1>1
<1> HIDE DEF A
<1>5. /\ SumFunction([x \in S |-> Cardinality(A[x])]) = Cardinality(UNION {A[x] : x \in S})
      /\ IsFiniteSet(UNION {A[x] : x \in S})
  BY <1>1, <1>2, SumOfDisjoint
<1>6. QED
  BY <1>3, <1>4, <1>5, FS_CardinalityType

\* One term after the other, in any order.
LEMMA SumAdds ==
  ASSUME NEW S, IsFiniteSet(S), NEW f \in [S -> Nat], NEW x \in S
  PROVE  /\ SumFunction(f) = f[x] + SumFunction([y \in S \ {x} |-> f[y]])
         /\ SumFunction([y \in S \ {x} |-> f[y]]) \in Nat
<1> DEFINE T == S \ {x}
           g == [y \in T |-> f[y]]
<1>1. IsFiniteSet(T) /\ g \in [T -> Nat]
  BY FS_Subset
<1>2. /\ Units(S, f) = Units({x}, f) \cup Units(T, g)
      /\ Units({x}, f) \cap Units(T, g) = {}
  BY DEF Units
<1>3. IsFiniteSet(Units({x}, f)) /\ Cardinality(Units({x}, f)) = f[x]
  <2> DEFINE h == [y \in {x} |-> f[y]]
             b == [i \in 1..f[x] |-> <<x, i>>]
  <2>1. IsFiniteSet(1..f[x]) /\ Cardinality(1..f[x]) = f[x]
    <3>1. f[x] \in Nat
      OBVIOUS
    <3>2. QED
      BY <3>1, FS_Interval
  <2>2. b \in Bijection(1..f[x], Units({x}, f))
    BY DEF Bijection, Injection, Surjection, IsInjective, Units
  <2>3. QED
    <3>1. ExistsBijection(1..f[x], Units({x}, f))
      BY <2>2 DEF ExistsBijection
    <3> HIDE DEF b
    <3>2. QED
      BY <2>1, <3>1, FS_Bijection
<1>4. /\ SumFunction(g) = Cardinality(Units(T, g)) /\ IsFiniteSet(Units(T, g))
      /\ SumFunction(g) \in Nat
  BY <1>1, SumCountsUnits
<1>5. SumFunction(f) = Cardinality(Units(S, f))
  BY SumCountsUnits
<1>6. Cardinality(Units(S, f)) = Cardinality(Units({x}, f)) + Cardinality(Units(T, g))
  BY <1>2, <1>3, <1>4, DisjointUnion
<1>7. QED
  BY <1>3, <1>4, <1>5, <1>6

\* A sum changes by as much as one of its terms.
LEMMA SumReplaced ==
  ASSUME NEW S, IsFiniteSet(S), NEW f \in [S -> Nat], NEW x \in S, NEW v \in Nat
  PROVE  SumFunction([f EXCEPT ![x] = v]) = SumFunction(f) + v - f[x]
<1> DEFINE g == [f EXCEPT ![x] = v]
<1>1. g \in [S -> Nat] /\ g[x] = v
  OBVIOUS
<1>2. [y \in S \ {x} |-> g[y]] = [y \in S \ {x} |-> f[y]]
  OBVIOUS
<1>3. SumFunction(g) = v + SumFunction([y \in S \ {x} |-> g[y]])
  <2> HIDE DEF g
  <2>1. QED
    BY <1>1, SumAdds
<1>4. SumFunction([y \in S \ {x} |-> g[y]]) = SumFunction([y \in S \ {x} |-> f[y]])
  <2> HIDE DEF g
  <2>1. QED
    BY <1>2
<1>5. /\ SumFunction(f) = f[x] + SumFunction([y \in S \ {x} |-> f[y]])
      /\ SumFunction([y \in S \ {x} |-> f[y]]) \in Nat
  BY SumAdds
<1>6. SumFunction(g) = SumFunction(f) + v - f[x]
  <2> HIDE DEF g
  <2>1. f[x] \in Nat
    OBVIOUS
  <2>2. QED
    BY <1>3, <1>4, <1>5, <2>1
<1>7. QED
  BY <1>6

\* A sum grows with its terms.
LEMMA SumMonotone ==
  ASSUME NEW S, IsFiniteSet(S), NEW f \in [S -> Nat], NEW g \in [S -> Nat],
         \A x \in S : f[x] <= g[x]
  PROVE  SumFunction(f) <= SumFunction(g)
<1>1. Units(S, f) \subseteq Units(S, g)
  BY DEF Units
<1>2. QED
  BY <1>1, SumCountsUnits, FS_Subset

\* The terms of f are found in g, each in its place, among zeros.
Embeds(b, S, f, T, g) ==
  /\ b \in [S -> T]
  /\ \A x, y \in S : b[x] = b[y] => x = y
  /\ \A x \in S : g[b[x]] = f[x]
  /\ \A y \in T : (\A x \in S : b[x] # y) => g[y] = 0

\* Only the terms matter, and zeros do not.
LEMMA SumReindexed ==
  ASSUME NEW S, IsFiniteSet(S), NEW f \in [S -> Nat],
         NEW T, IsFiniteSet(T), NEW g \in [T -> Nat],
         NEW b, Embeds(b, S, f, T, g)
  PROVE  SumFunction(f) = SumFunction(g)
<1> USE DEF Embeds
<1> DEFINE e == [p \in Units(S, f) |-> <<b[p[1]], p[2]>>]
<1>1. \A p : p \in Units(S, f) <=> \E x \in S : \E i \in 1..f[x] : p = <<x, i>>
  BY DEF Units
<1>2. \A p : p \in Units(T, g) <=> \E x \in T : \E i \in 1..g[x] : p = <<x, i>>
  BY DEF Units
<1>3. e \in [Units(S, f) -> Units(T, g)]
  BY <1>1, <1>2
<1>4. ASSUME NEW p \in Units(S, f), NEW q \in Units(S, f), e[p] = e[q]
      PROVE  p = q
  <2>1. PICK x \in S : \E i \in 1..f[x] : p = <<x, i>>
    BY <1>1
  <2>2. PICK y \in S : \E j \in 1..f[y] : q = <<y, j>>
    BY <1>1
  <2>3. <<b[x], p[2]>> = <<b[y], q[2]>>
    BY <1>4, <2>1, <2>2
  <2>4. QED
    BY <2>1, <2>2, <2>3
<1>5. ASSUME NEW q \in Units(T, g)
      PROVE  \E p \in Units(S, f) : e[p] = q
  <2>1. PICK y \in T : \E i \in 1..g[y] : q = <<y, i>>
    BY <1>2
  <2>2. PICK x \in S : b[x] = y
    BY <2>1
  <2>3. <<x, q[2]>> \in Units(S, f)
    BY <1>1, <2>1, <2>2
  <2>4. e[<<x, q[2]>>] = q
    BY <2>1, <2>2, <2>3
  <2>5. QED
    BY <2>3, <2>4
<1> HIDE DEF e
<1>6. e \in Bijection(Units(S, f), Units(T, g))
  BY <1>3, <1>4, <1>5 DEF Bijection, Injection, Surjection, IsInjective
<1>7. QED
  BY <1>6, SumCountsUnits, FS_Bijection DEF ExistsBijection

(***************************************************************************)
(* Remainders                                                              *)
(***************************************************************************)

LEMMA RemainderFits ==
  \A k \in Nat \ {0} : \A x \in Int : x % k \in 0..k-1
OBVIOUS

LEMMA SmallRemainder ==
  \A k \in Nat \ {0} : \A x \in 0..k-1 : x % k = x
OBVIOUS

\* Numbers that are less than k apart have different remainders.
LEMMA RemaindersDiffer ==
  ASSUME NEW k \in Nat \ {0}, NEW x \in Int, NEW y \in Int,
         x % k = y % k, x - y < k, y - x < k
  PROVE  x = y
<1> DEFINE q == x \div k
           r == y \div k
<1>1. q \in Int /\ r \in Int /\ x % k \in Int
  OBVIOUS
<1>2. x = k * q + (x % k) /\ y = k * r + (y % k) /\ k * q \in Int /\ k * r \in Int
  OBVIOUS
<1> HIDE DEF q, r
<1>3. x - y = k * q - k * r
  BY <1>1, <1>2
<1>4. \A d \in Nat \ {0} : \A i \in Nat : d <= d * (i + 1)
  OBVIOUS
<1>5. CASE q > r
  <2>1. q - r - 1 \in Nat /\ k * q - k * r = k * ((q - r - 1) + 1)
    BY <1>1, <1>5
  <2>2. QED
    BY <1>3, <1>4, <2>1
<1>6. CASE r > q
  <2>1. r - q - 1 \in Nat /\ k * r - k * q = k * ((r - q - 1) + 1)
    BY <1>1, <1>6
  <2>2. k * r - k * q = y - x
    BY <1>1, <1>2
  <2>3. QED
    BY <1>4, <2>1, <2>2
<1>7. CASE q = r
  BY <1>1, <1>2, <1>7
<1>8. QED
  BY <1>1, <1>5, <1>6, <1>7

(***************************************************************************)
(* The ring                                                                *)
(***************************************************************************)

Sample == [start : Nat, took : Nat]

\* What a family records: the events that are not cancelled waits.
Timed ==
  [host : Hosts, path : Paths, kind : Kinds, start : Nat \ {0}, took : Nat, now : Nat \ {0}]

SampleOf(e) == [start |-> e.start, took |-> e.took]

Took(r) == [i \in 0..RingSize-1 |-> r.vals[i].took]

\* A ring after the events of a.
RingOK(r, a) ==
  /\ r.n = Len(a)
  /\ r.vals \in [0..RingSize-1 -> Sample]
  /\ \A j \in 1..Len(a) : j > Len(a) - RingSize => r.vals[(j-1) % RingSize] = SampleOf(a[j])
  /\ \A i \in 0..RingSize-1 : i >= Len(a) => r.vals[i].took = 0
  /\ r.total = SumFunction(Took(r))

\* The slot of the sample that leaves is that of the sample that comes.
LEMMA AddKeepsRing ==
  ASSUME NEW r, NEW a \in Seq(Timed), NEW e \in Timed, RingOK(r, a)
  PROVE  RingOK(Add(r, SampleOf(e)), Append(a, e))
<1> DEFINE n == Len(a)
           i == n % RingSize
           v == SampleOf(e)
           b == Append(a, e)
           s == Add(r, v)
           terms == Took(r)
<1>1. /\ RingSize \in Nat \ {0} /\ n \in Nat /\ i \in 0..RingSize-1
      /\ v \in Sample /\ v.took = e.took /\ e.took \in Nat
  BY FamilyAssumption, RemainderFits DEF FamilyAssumption, SampleOf, Sample, Timed
<1>2. b \in Seq(Timed) /\ Len(b) = n + 1 /\ b[n+1] = e /\ \A j \in 1..n : b[j] = a[j]
  OBVIOUS
<1>3. /\ s.n = n + 1
      /\ s.vals = [r.vals EXCEPT ![i] = v]
      /\ s.total = r.total + v.took - IF n >= RingSize THEN r.vals[i].took ELSE 0
  BY DEF Add, RingOK
<1>4. /\ r.vals \in [0..RingSize-1 -> Sample] /\ terms \in [0..RingSize-1 -> Nat]
      /\ r.total = SumFunction(terms)
  BY DEF RingOK, Sample, Took
<1>5. n < RingSize => terms[i] = 0 /\ i = n
  BY <1>1, SmallRemainder DEF RingOK, Took
<1> HIDE DEF i, v, b, s
<1>6. \A j \in 1..n+1 : j > n + 1 - RingSize => s.vals[(j-1) % RingSize] = SampleOf(b[j])
  <2> SUFFICES ASSUME NEW j \in 1..n+1, j > n + 1 - RingSize
               PROVE  s.vals[(j-1) % RingSize] = SampleOf(b[j])
    OBVIOUS
  <2>1. CASE j = n + 1
    <3>1. (j-1) % RingSize = i
      BY <1>1, <2>1 DEF i
    <3>2. QED
      BY <1>1, <1>2, <1>3, <1>4, <2>1, <3>1 DEF v
  <2>2. CASE j # n + 1
    <3>1. j \in 1..n /\ j > n - RingSize /\ b[j] = a[j]
      BY <1>1, <1>2, <2>2
    <3>2. (j-1) % RingSize # i
      <4>1. j - 1 # n /\ (j - 1) - n < RingSize /\ n - (j - 1) < RingSize /\ j - 1 \in Int
        BY <1>1, <3>1
      <4>2. (j - 1) % RingSize # n % RingSize
        <5> HIDE DEF n
        <5>1. n \in Int
          BY <1>1
        <5>2. QED
          BY <1>1, <4>1, <5>1, RemaindersDiffer
      <4>3. QED
        BY <4>2 DEF i
    <3>3. s.vals[(j-1) % RingSize] = r.vals[(j-1) % RingSize]
      BY <1>3, <1>4, <3>2
    <3>4. r.vals[(j-1) % RingSize] = SampleOf(a[j])
      BY <3>1 DEF RingOK
    <3>5. QED
      BY <3>1, <3>3, <3>4
  <2>3. QED
    BY <2>1, <2>2
<1>7. \A x \in 0..RingSize-1 : x >= n + 1 => s.vals[x].took = 0
  BY <1>1, <1>3, <1>4, <1>5 DEF RingOK
<1>8. s.total = SumFunction(Took(s))
  <2>1. Took(s) = [terms EXCEPT ![i] = v.took]
    BY <1>1, <1>3, <1>4 DEF Took
  <2>2. IsFiniteSet(0..RingSize-1)
    BY <1>1, FS_Interval
  <2> HIDE DEF terms
  <2>3. SumFunction([terms EXCEPT ![i] = v.took]) = SumFunction(terms) + v.took - terms[i]
    <3>1. v.took \in Nat /\ i \in 0..RingSize-1 /\ terms \in [0..RingSize-1 -> Nat]
      BY <1>1, <1>4
    <3>2. QED
      BY <2>2, <3>1, SumReplaced
  <2>4. SumFunction(terms) \in Nat /\ terms[i] \in Nat
    BY <1>1, <1>4, <2>2, SumCountsUnits
  <2>5. terms[i] = r.vals[i].took
    BY <1>1 DEF terms, Took
  <2>6. QED
    BY <1>1, <1>3, <1>4, <1>5, <2>1, <2>3, <2>4, <2>5
<1>9. s.vals \in [0..RingSize-1 -> Sample]
  BY <1>1, <1>3, <1>4
<1>10. RingOK(s, b)
  BY <1>1, <1>2, <1>3, <1>6, <1>7, <1>8, <1>9 DEF RingOK
<1>11. QED
  BY <1>10 DEF s, b, v

LEMMA EmptyRingOK == RingOK(EmptyRing, << >>)
<1>1. RingSize \in Nat \ {0} /\ IsFiniteSet(0..RingSize-1)
  BY FamilyAssumption, FS_Interval DEF FamilyAssumption
<1>2. Took(EmptyRing) \in [0..RingSize-1 -> Nat] /\ \A i \in 0..RingSize-1 : Took(EmptyRing)[i] = 0
  BY DEF EmptyRing, Took
<1>3. Units(0..RingSize-1, Took(EmptyRing)) = {}
  <2> HIDE DEF Took
  <2>1. QED
    BY <1>2 DEF Units
<1>4. SumFunction(Took(EmptyRing)) = 0
  BY <1>1, <1>2, <1>3, SumCountsUnits, FS_EmptySet
<1>5. QED
  BY <1>1, <1>4 DEF RingOK, EmptyRing, Sample

\* What is answered: the latest samples, and their sum.
LEMMA RingAnswers ==
  ASSUME NEW r, NEW a \in Seq(Timed), RingOK(r, a)
  PROVE  LET held == IF Len(a) < RingSize THEN Len(a) ELSE RingSize IN
         /\ Held(r) = held
         /\ Slice(r) = [j \in 1..held |-> SampleOf(a[Len(a) - held + j])]
         /\ r.total = SumFunction([j \in 1..held |-> SampleOf(a[Len(a) - held + j]).took])
<1> DEFINE n == Len(a)
           held == IF Len(a) < RingSize THEN Len(a) ELSE RingSize
           b == [j \in 1..held |-> (n - held + j - 1) % RingSize]
           f == [j \in 1..held |-> SampleOf(a[n - held + j]).took]
           g == Took(r)
<1>1. /\ RingSize \in Nat \ {0} /\ n \in Nat /\ held \in 0..n /\ held <= RingSize
      /\ n < RingSize => held = n
      /\ n >= RingSize => held = RingSize
  BY FamilyAssumption DEF FamilyAssumption
<1>2. Held(r) = held /\ r.n = n
  BY DEF Held, RingOK
<1>13. /\ \A j \in 1..n : /\ j > n - RingSize => r.vals[(j-1) % RingSize] = SampleOf(a[j])
                          /\ a[j] \in Timed
       /\ \A i \in 0..RingSize-1 : i >= n => r.vals[i].took = 0
  BY DEF RingOK
<1> HIDE DEF n, held
<1>3. ASSUME NEW j \in 1..held
      PROVE  /\ n - held + j \in 1..n
             /\ b[j] \in 0..RingSize-1
             /\ r.vals[b[j]] = SampleOf(a[n - held + j])
             /\ a[n - held + j] \in Timed
  <2>1. n - held + j \in 1..n /\ n - held + j > n - RingSize /\ n - held + j - 1 \in Int
    BY <1>1
  <2>2. (n - held + j - 1) % RingSize \in 0..RingSize-1
    BY <1>1, <2>1, RemainderFits
  <2>3. b[j] = (n - held + j - 1) % RingSize
    OBVIOUS
  <2> HIDE DEF b
  <2>4. PICK k \in 1..n : k = n - held + j
    BY <2>1
  <2>5. r.vals[(k-1) % RingSize] = SampleOf(a[k]) /\ a[k] \in Timed
    BY <1>13, <2>1, <2>4
  <2>6. b[j] = (k-1) % RingSize /\ a[k] = a[n - held + j]
    BY <1>1, <2>3, <2>4
  <2> HIDE DEF f, g
  <2>7. QED
    BY <2>1, <2>2, <2>3, <2>5, <2>6
<1>4. b \in [1..held -> 0..RingSize-1] /\ f \in [1..held -> Nat] /\ g \in [0..RingSize-1 -> Nat]
  <2>1. b \in [1..held -> 0..RingSize-1]
    BY <1>3
  <2>2. f \in [1..held -> Nat]
    BY <1>3 DEF SampleOf, Timed
  <2>3. g \in [0..RingSize-1 -> Nat]
    BY DEF RingOK, Took, Sample
  <2>4. QED
    BY <2>1, <2>2, <2>3
<1>5. ASSUME NEW i \in 1..held, NEW j \in 1..held, b[i] = b[j]
      PROVE  i = j
  <2> DEFINE x == n - held + i - 1
             y == n - held + j - 1
  <2>1. x \in Int /\ y \in Int /\ x - y < RingSize /\ y - x < RingSize /\ x % RingSize = y % RingSize
    BY <1>1, <1>5
  <2>2. x = y
    <3> HIDE DEF x, y
    <3>1. QED
      BY <1>1, <2>1, RemaindersDiffer
  <2>3. QED
    BY <1>1, <2>2
<1>6. IsFiniteSet(1..held) /\ IsFiniteSet(0..RingSize-1)
  BY <1>1, FS_Interval
<1>7. ASSUME NEW i \in 0..RingSize-1, \A j \in 1..held : b[j] # i
      PROVE  g[i] = 0
  <2>1. CASE n < RingSize
    <3>1. held = n
      BY <1>1, <2>1
    <3>2. i < n => b[i+1] = i
      <4>1. i < n => i + 1 \in 1..held /\ n - held + (i + 1) - 1 = i
        BY <1>1, <3>1
      <4>2. i % RingSize = i
        BY <1>1, SmallRemainder
      <4>3. QED
        BY <4>1, <4>2
    <3>3. i >= n
      <4>1. i < n => i + 1 \in 1..held
        BY <1>1, <3>1
      <4>2. ~ (i < n)
        <5> HIDE DEF b
        <5>1. QED
          BY <1>7, <3>2, <4>1
      <4>3. QED
        BY <1>1, <4>2
    <3>4. QED
      BY <1>13, <3>3 DEF Took
  <2>2. CASE n >= RingSize
    <3>1. held = RingSize
      BY <1>1, <2>2
    <3>2. Cardinality(1..held) = RingSize /\ Cardinality(0..RingSize-1) = RingSize
      BY <1>1, <3>1, FS_Interval
    <3>3. b \in Surjection(1..held, 0..RingSize-1)
      <4> HIDE DEF b
      <4>1. b \in Injection(1..held, 0..RingSize-1)
        BY <1>4, <1>5 DEF Injection, IsInjective
      <4>2. QED
        BY <1>6, <3>2, <4>1, FS_Injection
    <3>4. QED
      BY <1>7, <3>3 DEF Surjection
  <2>3. QED
    BY <1>1, <2>1, <2>2
<1>8. \A j \in 1..held : g[b[j]] = f[j]
  BY <1>3 DEF Took
<1>9. SumFunction(f) = SumFunction(g)
  <2> DEFINE S == 1..held
             T == 0..RingSize-1
  <2>1. /\ IsFiniteSet(S) /\ IsFiniteSet(T)
        /\ f \in [S -> Nat] /\ g \in [T -> Nat] /\ b \in [S -> T]
    BY <1>4, <1>6
  <2>2. \A i, j \in S : b[i] = b[j] => i = j
    BY <1>5
  <2>3. \A i \in T : (\A j \in S : b[j] # i) => g[i] = 0
    BY <1>7
  <2>4. \A j \in S : g[b[j]] = f[j]
    BY <1>8
  <2> HIDE DEF b, f, g, S, T
  <2>5. QED
    <3>1. Embeds(b, S, f, T, g)
      BY <2>1, <2>2, <2>3, <2>4 DEF Embeds
    <3>2. QED
      BY <2>1, <3>1, SumReindexed
<1>10. Slice(r) = [j \in 1..held |-> SampleOf(a[n - held + j])]
  <2>1. Slice(r) = [j \in 1..held |-> r.vals[b[j]]]
    BY <1>2 DEF Slice
  <2>2. QED
    BY <1>3, <2>1
<1>11. r.total = SumFunction(f)
  BY <1>9 DEF RingOK
<1>12. QED
  BY <1>2, <1>10, <1>11 DEF n, held

(***************************************************************************)
(* The wheel                                                               *)
(***************************************************************************)

\* The events of a that began in the second s, and those of the slot i.
Began(a, s) == {j \in 1..Len(a) : a[j].start = s}
InSlot(a, i) == {j \in 1..Len(a) : a[j].start % WheelSeconds = i}

Wheels == [buckets : [0..WheelSeconds-1 -> Nat], lastSec : Nat]

\* Of the events, the wheel has the latest seconds exactly, and none twice.
WheelOK(w, a) ==
  /\ w \in Wheels
  /\ w.lastSec = 0 => Len(a) = 0 /\ \A i \in 0..WheelSeconds-1 : w.buckets[i] = 0
  /\ \A j \in 1..Len(a) : a[j].start <= w.lastSec
  /\ \A s \in 1..w.lastSec :
       s > w.lastSec - WheelSeconds => w.buckets[s % WheelSeconds] = Cardinality(Began(a, s))
  /\ \A i \in 0..WheelSeconds-1 : w.buckets[i] <= Cardinality(InSlot(a, i))

LEMMA BeganFinite ==
  ASSUME NEW a \in Seq(Timed), NEW x
  PROVE  /\ IsFiniteSet(Began(a, x)) /\ Cardinality(Began(a, x)) \in Nat
         /\ IsFiniteSet(InSlot(a, x)) /\ Cardinality(InSlot(a, x)) \in Nat
<1>1. IsFiniteSet(1..Len(a))
  <2>1. Len(a) \in Nat
    OBVIOUS
  <2>2. QED
    BY <2>1, FS_Interval
<1>2. Began(a, x) \subseteq 1..Len(a) /\ InSlot(a, x) \subseteq 1..Len(a)
  BY DEF Began, InSlot
<1>3. QED
  BY <1>1, <1>2, FS_Subset, FS_CardinalityType

LEMMA GrowsByOne ==
  ASSUME NEW S, IsFiniteSet(S), NEW x, x \notin S
  PROVE  IsFiniteSet(S \cup {x}) /\ Cardinality(S \cup {x}) = Cardinality(S) + 1
BY FS_AddElement

\* An event adds itself to its second and to its slot.
LEMMA BeganGrows ==
  ASSUME NEW a \in Seq(Timed), NEW e \in Timed, NEW x
  PROVE  /\ Cardinality(Began(Append(a, e), x))
              = Cardinality(Began(a, x)) + IF e.start = x THEN 1 ELSE 0
         /\ Cardinality(InSlot(Append(a, e), x))
              = Cardinality(InSlot(a, x)) + IF e.start % WheelSeconds = x THEN 1 ELSE 0
<1> DEFINE n == Len(a)
           b == Append(a, e)
<1>1. /\ n \in Nat /\ Len(b) = n + 1 /\ b[n+1] = e
      /\ \A j \in 1..n : b[j] = a[j]
      /\ n + 1 \notin 1..n /\ 1..n+1 = (1..n) \cup {n+1}
  OBVIOUS
<1> HIDE DEF n, b
<1>2. /\ Began(b, x) = IF e.start = x THEN Began(a, x) \cup {n+1} ELSE Began(a, x)
      /\ n + 1 \notin Began(a, x)
  BY <1>1 DEF Began, n
<1>3. /\ InSlot(b, x) = IF e.start % WheelSeconds = x THEN InSlot(a, x) \cup {n+1} ELSE InSlot(a, x)
      /\ n + 1 \notin InSlot(a, x)
  BY <1>1 DEF InSlot, n
<1>4. Cardinality(Began(b, x)) = Cardinality(Began(a, x)) + IF e.start = x THEN 1 ELSE 0
  <2>1. IsFiniteSet(Began(a, x)) /\ Cardinality(Began(a, x)) \in Nat
    BY BeganFinite
  <2>2. Cardinality(Began(a, x) \cup {n+1}) = Cardinality(Began(a, x)) + 1
    BY <1>2, <2>1, GrowsByOne
  <2>3. QED
    BY <1>2, <2>1, <2>2
<1>5. Cardinality(InSlot(b, x))
        = Cardinality(InSlot(a, x)) + IF e.start % WheelSeconds = x THEN 1 ELSE 0
  <2>1. IsFiniteSet(InSlot(a, x)) /\ Cardinality(InSlot(a, x)) \in Nat
    BY BeganFinite
  <2>2. Cardinality(InSlot(a, x) \cup {n+1}) = Cardinality(InSlot(a, x)) + 1
    BY <1>3, <2>1, GrowsByOne
  <2>3. QED
    BY <1>3, <2>1, <2>2
<1>6. QED
  BY <1>4, <1>5 DEF b

\* Where the wheel has been turned to.
LEMMA AdvanceIsLater ==
  ASSUME NEW w, NEW sec \in Nat \ {0}, w.lastSec \in Nat
  PROVE  Advance(w, sec).lastSec = IF sec <= w.lastSec THEN w.lastSec ELSE sec
<1>1. CASE w.lastSec = 0 \/ sec > w.lastSec
  BY <1>1 DEF Advance
<1>2. CASE w.lastSec # 0 /\ sec <= w.lastSec
  BY <1>2 DEF Advance
<1>3. QED
  BY <1>1, <1>2

LEMMA NothingBegan ==
  ASSUME NEW a \in Seq(Timed), NEW s, \A j \in 1..Len(a) : a[j].start # s
  PROVE  Cardinality(Began(a, s)) = 0
BY FS_EmptySet DEF Began

\* Only slots of seconds that have just begun are cleared.
LEMMA AdvanceKeepsWheel ==
  ASSUME NEW w, NEW a \in Seq(Timed), WheelOK(w, a), NEW sec \in Nat \ {0}
  PROVE  WheelOK(Advance(w, sec), a)
<1> DEFINE v == Advance(w, sec)
           last == w.lastSec
           Fresh(i) == \E t \in last+1..sec : t % WheelSeconds = i
<1>1. WheelSeconds \in Nat \ {0} /\ last \in Nat /\ w.buckets \in [0..WheelSeconds-1 -> Nat]
  BY FamilyAssumption DEF FamilyAssumption, WheelOK, Wheels
<1> HIDE DEF v, last, Fresh
<1>2. CASE last = 0
  <2>1. v.buckets = w.buckets /\ v.lastSec = sec
    BY <1>2 DEF Advance, v, last, WheelOK, Wheels
  <2>2. Len(a) = 0 /\ \A i \in 0..WheelSeconds-1 : w.buckets[i] = 0
    BY <1>2 DEF WheelOK, last
  <2>3. ASSUME NEW s \in 1..sec
        PROVE  v.buckets[s % WheelSeconds] = Cardinality(Began(a, s))
    <3>1. s % WheelSeconds \in 0..WheelSeconds-1
      <4>1. s \in Int
        OBVIOUS
      <4>2. QED
        BY <1>1, <4>1, RemainderFits
    <3>2. Cardinality(Began(a, s)) = 0
      <4>1. \A j \in 1..Len(a) : a[j].start # s
        BY <2>2
      <4>2. QED
        BY <4>1, NothingBegan
    <3>3. QED
      BY <2>1, <2>2, <3>1, <3>2
  <2>4. \A j \in 1..Len(a) : a[j].start <= sec
    BY <2>2
  <2>5. v \in Wheels /\ \A i \in 0..WheelSeconds-1 : v.buckets[i] <= Cardinality(InSlot(a, i))
    <3>1. v \in Wheels
      BY <1>1, <1>2 DEF WheelOK, Wheels, Advance, v, last
    <3>2. QED
      BY <2>1, <3>1 DEF WheelOK
  <2>6. WheelOK(v, a)
    BY <2>1, <2>2, <2>3, <2>4, <2>5 DEF WheelOK
  <2>7. QED
    BY <2>6 DEF v
<1>3. CASE last # 0 /\ sec <= last
  BY <1>3 DEF Advance, last
<1>4. CASE last # 0 /\ sec > last
  <2>1. /\ v.buckets = [i \in 0..WheelSeconds-1 |-> IF Fresh(i) THEN 0 ELSE w.buckets[i]]
        /\ v.lastSec = sec
        /\ v = [buckets |-> v.buckets, lastSec |-> v.lastSec]
    <3>1. ~ (w.lastSec = 0) /\ ~ (sec <= w.lastSec)
      BY <1>1, <1>4 DEF last
    <3>2. v = [buckets |-> [i \in 0..WheelSeconds-1 |-> IF Fresh(i) THEN 0 ELSE w.buckets[i]],
               lastSec |-> sec]
      BY <3>1, Zenon DEF Advance, v, last, Fresh
    <3>3. QED
      BY <3>2
  <2>2. \A j \in 1..Len(a) : a[j].start \in Nat /\ a[j].start <= last
    <3>1. \A j \in 1..Len(a) : a[j] \in Timed /\ a[j].start <= last
      BY DEF WheelOK, last
    <3>2. QED
      BY <3>1 DEF Timed
  <2>3. ASSUME NEW s \in 1..sec, s > sec - WheelSeconds
        PROVE  v.buckets[s % WheelSeconds] = Cardinality(Began(a, s))
    <3>1. s % WheelSeconds \in 0..WheelSeconds-1 /\ s \in Int
      <4>1. s \in Int
        OBVIOUS
      <4>2. QED
        BY <1>1, <4>1, RemainderFits
    <3>2. CASE s > last
      <4>1. Fresh(s % WheelSeconds)
        <5>1. s \in last+1..sec
          BY <1>1, <3>1, <3>2
        <5>2. QED
          BY <5>1 DEF Fresh
      <4>2. \A j \in 1..Len(a) : a[j].start # s
        BY <1>1, <2>2, <3>2
      <4>3. QED
        BY <2>1, <3>1, <4>1, <4>2, NothingBegan
    <3>3. CASE s <= last
      <4>1. ASSUME Fresh(s % WheelSeconds) PROVE FALSE
        <5>1. PICK t \in last+1..sec : t % WheelSeconds = s % WheelSeconds
          BY <4>1 DEF Fresh
        <5>2. t \in Int /\ s \in Int /\ t # s
          BY <1>1, <3>3
        <5>3. t - s < WheelSeconds /\ s - t < WheelSeconds
          BY <1>1, <2>3, <3>3, <5>2
        <5>4. QED
          BY <1>1, <5>1, <5>2, <5>3, RemaindersDiffer
      <4>2. s \in 1..last /\ s > last - WheelSeconds
        BY <1>1, <1>4, <2>3, <3>3
      <4>3. w.buckets[s % WheelSeconds] = Cardinality(Began(a, s))
        BY <4>2 DEF WheelOK, last
      <4>4. QED
        BY <2>1, <3>1, <4>1, <4>3
    <3>4. QED
      BY <1>1, <3>2, <3>3
  <2>4. \A i \in 0..WheelSeconds-1 : v.buckets[i] <= Cardinality(InSlot(a, i))
    <3>1. \A i \in 0..WheelSeconds-1 : /\ w.buckets[i] <= Cardinality(InSlot(a, i))
                                       /\ Cardinality(InSlot(a, i)) \in Nat
      BY BeganFinite DEF WheelOK
    <3>2. QED
      BY <2>1, <3>1
  <2>5. v \in Wheels
    <3>1. v.buckets \in [0..WheelSeconds-1 -> Nat]
      BY <1>1, <2>1
    <3>2. QED
      BY <2>1, <3>1 DEF Wheels
  <2>6. \A j \in 1..Len(a) : a[j].start <= sec
    BY <1>1, <1>4, <2>2
  <2>7. WheelOK(v, a)
    BY <2>1, <2>3, <2>4, <2>5, <2>6 DEF WheelOK
  <2>8. QED
    BY <2>7 DEF v
<1>5. QED
  BY <1>1, <1>2, <1>3, <1>4

\* A late event still counts, if its second has not left the wheel.
LEMMA TurnKeepsWheel ==
  ASSUME NEW w, NEW a \in Seq(Timed), WheelOK(w, a), NEW e \in Timed
  PROVE  /\ WheelOK(Turn(w, e.start), Append(a, e))
         /\ Turn(w, e.start).lastSec = Advance(w, e.start).lastSec
<1> DEFINE sec == e.start
           v == Advance(w, sec)
           slot == sec % WheelSeconds
           u == Turn(w, sec)
           b == Append(a, e)
           held == v.lastSec - sec < WheelSeconds
<1>1. WheelSeconds \in Nat \ {0} /\ sec \in Nat \ {0}
  BY FamilyAssumption DEF FamilyAssumption, Timed
<1>2. WheelOK(v, a) /\ v \in Wheels /\ v.lastSec \in Nat /\ sec <= v.lastSec
  <2>1. WheelOK(v, a)
    BY <1>1, AdvanceKeepsWheel
  <2>2. w.lastSec \in Nat /\ v \in Wheels
    BY <2>1 DEF WheelOK, Wheels
  <2> HIDE DEF v
  <2>3. v.lastSec = IF sec <= w.lastSec THEN w.lastSec ELSE sec
    BY <1>1, <2>2, AdvanceIsLater DEF v
  <2>4. QED
    BY <1>1, <2>1, <2>2, <2>3
<1>3. slot \in 0..WheelSeconds-1
  <2>1. sec \in Int
    BY <1>1
  <2> HIDE DEF sec
  <2>2. QED
    BY <1>1, <2>1, RemainderFits
<1>4. u = IF held THEN [v EXCEPT !.buckets[slot] = @ + 1] ELSE v
  BY DEF Turn
<1>5. /\ v.buckets \in [0..WheelSeconds-1 -> Nat]
      /\ \A j \in 1..Len(a) : a[j].start <= v.lastSec
      /\ \A s \in 1..v.lastSec :
           s > v.lastSec - WheelSeconds => v.buckets[s % WheelSeconds] = Cardinality(Began(a, s))
      /\ \A i \in 0..WheelSeconds-1 : v.buckets[i] <= Cardinality(InSlot(a, i))
  BY <1>2 DEF WheelOK, Wheels
<1>6. \A j \in 1..Len(b) : b[j].start <= v.lastSec
  <2>1. b \in Seq(Timed) /\ Len(b) = Len(a) + 1 /\ b[Len(a)+1] = e /\ \A j \in 1..Len(a) : b[j] = a[j]
    OBVIOUS
  <2> HIDE DEF b, v
  <2>2. QED
    BY <1>2, <1>5, <2>1
<1>7. \A x : /\ Cardinality(Began(b, x)) = Cardinality(Began(a, x)) + IF sec = x THEN 1 ELSE 0
             /\ Cardinality(InSlot(b, x)) = Cardinality(InSlot(a, x)) + IF slot = x THEN 1 ELSE 0
             /\ Cardinality(Began(a, x)) \in Nat /\ Cardinality(InSlot(a, x)) \in Nat
  BY BeganGrows, BeganFinite
<1> HIDE DEF u, v, b, slot
<1>8. /\ u.lastSec = v.lastSec /\ u \in Wheels
      /\ held => /\ u.buckets[slot] = v.buckets[slot] + 1
                 /\ \A i \in 0..WheelSeconds-1 : i # slot => u.buckets[i] = v.buckets[i]
      /\ ~ held => u.buckets = v.buckets
  <2>1. CASE held
    <3>1. u = [v EXCEPT !.buckets[slot] = v.buckets[slot] + 1]
      BY <1>4, <2>1
    <3>2. /\ u.lastSec = v.lastSec
          /\ u.buckets = [v.buckets EXCEPT ![slot] = v.buckets[slot] + 1]
          /\ u = [buckets |-> u.buckets, lastSec |-> u.lastSec]
      BY <1>2, <3>1 DEF Wheels
    <3>3. v.buckets[slot] \in Nat /\ v.buckets[slot] + 1 \in Nat
      <4>1. v.buckets[slot] \in Nat
        BY <1>3, <1>5
      <4> DEFINE x == v.buckets[slot]
      <4>2. \A y \in Nat : y + 1 \in Nat
        OBVIOUS
      <4>3. QED
        BY <4>1, <4>2
    <3>4. u.buckets \in [0..WheelSeconds-1 -> Nat]
      BY <1>5, <3>2, <3>3
    <3>5. u \in Wheels
      BY <1>2, <3>2, <3>4 DEF Wheels
    <3>6. QED
      BY <1>3, <1>5, <2>1, <3>2, <3>5
  <2>2. CASE ~ held
    BY <1>2, <1>4, <2>2
  <2>3. QED
    BY <2>1, <2>2
<1>9. ASSUME NEW s \in 1..v.lastSec, s > v.lastSec - WheelSeconds
      PROVE  u.buckets[s % WheelSeconds] = Cardinality(Began(b, s))
  <2>1. s % WheelSeconds \in 0..WheelSeconds-1 /\ s \in Int
    <3>1. s \in Int
      BY <1>2
    <3>2. QED
      BY <1>1, <3>1, RemainderFits
  <2>2. v.buckets[s % WheelSeconds] = Cardinality(Began(a, s))
    BY <1>5, <1>9
  <2>3. CASE s = sec
    <3>1. held
      BY <1>1, <1>2, <1>9, <2>1, <2>3
    <3>2. s % WheelSeconds = slot
      BY <2>3 DEF slot
    <3>3. Cardinality(Began(b, s)) = Cardinality(Began(a, s)) + 1
      BY <1>7, <2>3
    <3>4. QED
      BY <1>8, <2>2, <3>1, <3>2, <3>3
  <2>4. CASE s # sec
    <3>1. held => s % WheelSeconds # slot
      <4>1. held => s - sec < WheelSeconds /\ sec - s < WheelSeconds
        BY <1>1, <1>2, <1>9
      <4>2. s \in Int /\ sec \in Int
        BY <1>1, <2>1
      <4>3. QED
        BY <1>1, <2>4, <4>1, <4>2, RemaindersDiffer DEF slot
    <3>2. u.buckets[s % WheelSeconds] = v.buckets[s % WheelSeconds]
      BY <1>8, <2>1, <3>1
    <3>3. Cardinality(Began(b, s)) = Cardinality(Began(a, s))
      BY <1>7, <2>4
    <3>4. QED
      BY <2>2, <3>2, <3>3
  <2>5. QED
    BY <2>3, <2>4
<1>10. ASSUME NEW i \in 0..WheelSeconds-1
       PROVE  u.buckets[i] <= Cardinality(InSlot(b, i))
  <2>1. /\ v.buckets[i] \in Nat /\ v.buckets[i] <= Cardinality(InSlot(a, i))
        /\ Cardinality(InSlot(a, i)) \in Nat
        /\ Cardinality(InSlot(b, i)) = Cardinality(InSlot(a, i)) + IF slot = i THEN 1 ELSE 0
    BY <1>5, <1>7
  <2>2. CASE held /\ i = slot
    BY <1>8, <2>1, <2>2
  <2>3. CASE ~ (held /\ i = slot)
    <3>1. u.buckets[i] = v.buckets[i]
      BY <1>8, <2>3
    <3>2. Cardinality(InSlot(b, i)) >= Cardinality(InSlot(a, i))
      BY <2>1
    <3>3. QED
      BY <2>1, <3>1, <3>2
  <2>4. QED
    BY <2>2, <2>3
<1>11. WheelOK(u, b)
  <2>1. u.lastSec # 0
    BY <1>1, <1>2, <1>8
  <2> HIDE DEF held, sec
  <2>2. QED
    BY <1>6, <1>8, <1>9, <1>10, <2>1 DEF WheelOK
<1>12. QED
  BY <1>8, <1>11 DEF u, v, b

\* The wheel stands at the latest instant it was told of.
Reached(w, a) ==
  /\ \A j \in 1..Len(a) : a[j].now <= w.lastSec
  /\ w.lastSec # 0 => \E j \in 1..Len(a) : w.lastSec \in {a[j].start, a[j].now}

\* An event turns the wheel to its own second and then to the present one.
LEMMA RecordKeepsWheel ==
  ASSUME NEW w, NEW a \in Seq(Timed), WheelOK(w, a), Reached(w, a), NEW e \in Timed
  PROVE  LET v == Advance(Turn(w, e.start), e.now)
         IN  WheelOK(v, Append(a, e)) /\ Reached(v, Append(a, e))
<1> DEFINE u == Turn(w, e.start)
           v == Advance(u, e.now)
           b == Append(a, e)
           n == Len(a)
<1>1. e.start \in Nat \ {0} /\ e.now \in Nat \ {0} /\ w.lastSec \in Nat
  BY DEF Timed, WheelOK, Wheels
<1>2. /\ b \in Seq(Timed) /\ n \in Nat /\ Len(b) = n + 1 /\ b[n+1] = e
      /\ \A j \in 1..n : b[j] = a[j]
  OBVIOUS
<1>3. WheelOK(u, b) /\ u.lastSec = IF e.start <= w.lastSec THEN w.lastSec ELSE e.start
  BY <1>1, TurnKeepsWheel, AdvanceIsLater
<1>4. u.lastSec \in Nat
  BY <1>3 DEF WheelOK, Wheels
<1>5. WheelOK(v, b)
  BY <1>1, <1>2, <1>3, AdvanceKeepsWheel
<1>6. v.lastSec = IF e.now <= u.lastSec THEN u.lastSec ELSE e.now
  BY <1>1, <1>4, AdvanceIsLater
<1>7. \A j \in 1..n : a[j] \in Timed /\ a[j].now \in Nat /\ a[j].start \in Nat
  <2>1. \A j \in 1..n : a[j] \in Timed
    OBVIOUS
  <2>2. QED
    BY <2>1 DEF Timed
<1> HIDE DEF u, v, b, n
<1>8. ASSUME NEW j \in 1..Len(b) PROVE b[j].now <= v.lastSec
  <2>1. CASE j = n + 1
    BY <1>1, <1>2, <1>4, <1>6, <2>1
  <2>2. CASE j \in 1..n
    <3>1. a[j].now <= w.lastSec
      BY <2>2 DEF Reached, n
    <3>2. w.lastSec <= v.lastSec
      BY <1>1, <1>3, <1>4, <1>6
    <3>3. v.lastSec \in Nat
      BY <1>1, <1>4, <1>6
    <3>4. QED
      BY <1>1, <1>2, <1>7, <2>2, <3>1, <3>2, <3>3
  <2>3. QED
    BY <1>2, <2>1, <2>2
<1>9. \E j \in 1..Len(b) : v.lastSec \in {b[j].start, b[j].now}
  <2>1. n + 1 \in 1..Len(b)
    BY <1>2
  <2>2. CASE v.lastSec \in {e.start, e.now}
    BY <1>2, <2>1, <2>2
  <2>3. CASE v.lastSec \notin {e.start, e.now}
    <3>1. v.lastSec = w.lastSec /\ w.lastSec # 0
      BY <1>1, <1>3, <1>4, <1>6, <2>3
    <3>2. PICK j \in 1..n : w.lastSec \in {a[j].start, a[j].now}
      BY <3>1 DEF Reached, n
    <3>3. j \in 1..Len(b)
      BY <1>2
    <3>4. QED
      BY <1>2, <3>1, <3>2, <3>3
  <2>4. QED
    BY <2>2, <2>3
<1>10. QED
  BY <1>5, <1>8, <1>9 DEF Reached, u, v, b

\* The seconds of a window.
Span(now, k) == {x \in now-k+1..now : x > 0}

LEMMA SpanFinite ==
  ASSUME NEW now \in Nat \ {0}, NEW k \in Windows
  PROVE  /\ IsFiniteSet(Span(now, k))
         /\ k \in 1..WheelSeconds /\ WheelSeconds \in Nat \ {0}
         /\ \A s : s \in Span(now, k) <=> s \in 1..now /\ s > now - k
         /\ \A s, t \in Span(now, k) :
              s % WheelSeconds \in 0..WheelSeconds-1
                /\ (s # t => s % WheelSeconds # t % WheelSeconds)
<1>1. k \in 1..WheelSeconds /\ WheelSeconds \in Nat \ {0}
  BY FamilyAssumption DEF FamilyAssumption
<1>2. \A s : s \in Span(now, k) <=> s \in 1..now /\ s > now - k
  BY <1>1 DEF Span
<1>3. IsFiniteSet(Span(now, k))
  <2>1. IsFiniteSet(1..now) /\ Span(now, k) \subseteq 1..now
    BY <1>2, FS_Interval
  <2>2. QED
    BY <2>1, FS_Subset
<1>4. ASSUME NEW s \in Span(now, k), NEW t \in Span(now, k)
      PROVE  /\ s % WheelSeconds \in 0..WheelSeconds-1
             /\ s # t => s % WheelSeconds # t % WheelSeconds
  <2>1. s \in Int /\ t \in Int
    BY <1>2
  <2>2. s - t < WheelSeconds /\ t - s < WheelSeconds
    BY <1>1, <1>2, <2>1
  <2>3. QED
    BY <1>1, <2>1, <2>2, RemaindersDiffer, RemainderFits
<1>5. QED
  BY <1>1, <1>2, <1>3, <1>4

\* A window as of the second the wheel stands at counts its events exactly.
LEMMA CountExact ==
  ASSUME NEW w, NEW a \in Seq(Timed), WheelOK(w, a), NEW now \in Nat \ {0}, w.lastSec = now,
         NEW k \in Windows
  PROVE  CountLast(w, now, k) = Cardinality({j \in 1..Len(a) : a[j].start > now - k})
<1> DEFINE S == Span(now, k)
           A == [s \in S |-> Began(a, s)]
<1>1. \A s \in S : IsFiniteSet(A[s]) /\ w.buckets[s % WheelSeconds] = Cardinality(A[s])
  <2>1. ASSUME NEW s \in S
        PROVE  s \in 1..w.lastSec /\ s > w.lastSec - WheelSeconds
    BY SpanFinite
  <2>2. QED
    BY <2>1, BeganFinite DEF WheelOK
<1>2. \A s, t \in S : s # t => A[s] \cap A[t] = {}
  BY DEF Began
<1>3. UNION {A[s] : s \in S} = {j \in 1..Len(a) : a[j].start > now - k}
  <2>1. ASSUME NEW j \in 1..Len(a)
        PROVE  a[j].start > now - k => a[j].start \in S
    <3>1. a[j] \in Timed
      OBVIOUS
    <3>2. a[j].start \in Nat \ {0} /\ a[j].start <= now
      BY <3>1 DEF Timed, WheelOK
    <3>3. QED
      BY <3>2, SpanFinite
  <2>2. ASSUME NEW s \in S PROVE s > now - k
    BY SpanFinite
  <2>3. QED
    BY <2>1, <2>2 DEF Began
<1>4. CountLast(w, now, k) = SumFunction([s \in S |-> Cardinality(A[s])])
  <2>1. [s \in S |-> w.buckets[s % WheelSeconds]] = [s \in S |-> Cardinality(A[s])]
    <3> HIDE DEF A, S
    <3>1. QED
      BY <1>1
  <2>2. CountLast(w, now, k) = SumFunction([s \in S |-> w.buckets[s % WheelSeconds]])
    BY DEF CountLast, Span
  <2>3. QED
    BY <2>1, <2>2
<1>5. SumFunction([s \in S |-> Cardinality(A[s])]) = Cardinality(UNION {A[s] : s \in S})
  <2>1. IsFiniteSet(S)
    BY SpanFinite
  <2> HIDE DEF A, S
  <2>2. \A s \in S : IsFiniteSet(A[s])
    BY <1>1
  <2>3. QED
    BY <1>2, <2>1, <2>2, SumOfDisjoint
<1>6. QED
  BY <1>3, <1>4, <1>5

\* A window counts no event twice, whatever the clock has done.
LEMMA CountBounded ==
  ASSUME NEW w, NEW a \in Seq(Timed), WheelOK(w, a), NEW now \in Nat \ {0}, NEW k \in Windows
  PROVE  CountLast(w, now, k) \in 0..Len(a)
<1> DEFINE S == Span(now, k)
           A == [s \in S |-> InSlot(a, s % WheelSeconds)]
           f == [s \in S |-> w.buckets[s % WheelSeconds]]
           g == [s \in S |-> Cardinality(A[s])]
<1>1. IsFiniteSet(S)
  BY SpanFinite
<1>2. \A s \in S : /\ IsFiniteSet(A[s]) /\ Cardinality(A[s]) \in Nat
                   /\ w.buckets[s % WheelSeconds] \in Nat
                   /\ w.buckets[s % WheelSeconds] <= Cardinality(A[s])
  BY SpanFinite, BeganFinite DEF WheelOK, Wheels
<1>3. \A s, t \in S : s # t => A[s] \cap A[t] = {}
  <2>1. ASSUME NEW s \in S, NEW t \in S, s # t PROVE s % WheelSeconds # t % WheelSeconds
    BY <2>1, SpanFinite
  <2>2. QED
    BY <2>1 DEF InSlot
<1>4. UNION {A[s] : s \in S} \subseteq 1..Len(a)
  BY DEF InSlot
<1>5. CountLast(w, now, k) = SumFunction(f)
  BY DEF CountLast, Span
<1>6. f \in [S -> Nat] /\ g \in [S -> Nat] /\ \A s \in S : f[s] <= g[s]
  <2> HIDE DEF A, S
  <2>1. QED
    BY <1>2
<1>7. SumFunction(f) \in Nat /\ SumFunction(g) \in Nat /\ SumFunction(f) <= SumFunction(g)
  <2> HIDE DEF f, g, S
  <2>1. QED
    BY <1>1, <1>6, SumCountsUnits, SumMonotone
<1>8. SumFunction(g) = Cardinality(UNION {A[s] : s \in S})
  <2> HIDE DEF A, S
  <2>1. QED
    BY <1>1, <1>2, <1>3, SumOfDisjoint
<1>9. Len(a) \in Nat /\ IsFiniteSet(1..Len(a)) /\ Cardinality(1..Len(a)) = Len(a)
  <2>1. Len(a) \in Nat
    OBVIOUS
  <2>2. QED
    BY <2>1, FS_Interval
<1>10. Cardinality(UNION {A[s] : s \in S}) <= Len(a)
  <2> HIDE DEF A, S
  <2>1. QED
    BY <1>4, <1>9, FS_Subset
<1>11. QED
  <2> HIDE DEF f, g
  <2>1. QED
    BY <1>5, <1>7, <1>8, <1>9, <1>10

(***************************************************************************)
(* The family                                                              *)
(***************************************************************************)

\* The ratios after the events of a, as RatiosExact has them.
RatioOK(ratio, a) ==
  a # << >> =>
    \A seconds \in Windows :
      IF \A i \in 1..Len(a) : a[i].start <= a[Len(a)].now /\ a[i].now <= a[Len(a)].now
        THEN ratio[seconds] = Cardinality({i \in 1..Len(a) : a[i].start > a[Len(a)].now - seconds})
        ELSE ratio[seconds] \in 0..Len(a)

\* A family after the events of a.
FamilyOK(f, a) ==
  RingOK(f.ring, a) /\ WheelOK(f.wheel, a) /\ Reached(f.wheel, a) /\ RatioOK(f.ratio, a)

LEMMA FamilyRecords ==
  ASSUME NEW f, NEW a \in Seq(Timed), NEW e \in Timed, FamilyOK(f, a)
  PROVE  FamilyOK(RecordSample(f, SampleOf(e), e.now), Append(a, e))
<1> DEFINE w == Advance(Turn(f.wheel, e.start), e.now)
           b == Append(a, e)
           g == RecordSample(f, SampleOf(e), e.now)
<1>1. /\ b \in Seq(Timed) /\ Len(b) \in Nat \ {0} /\ b[Len(b)] = e
      /\ e.now \in Nat \ {0} /\ b # << >>
  BY DEF Timed
<1>2. /\ g.ring = Add(f.ring, SampleOf(e)) /\ g.wheel = w
      /\ g.ratio = [k \in Windows |-> CountLast(w, e.now, k)]
  BY DEF RecordSample, SampleOf
<1>3. RingOK(Add(f.ring, SampleOf(e)), b)
  BY AddKeepsRing DEF FamilyOK
<1>4. WheelOK(w, b) /\ Reached(w, b)
  BY RecordKeepsWheel DEF FamilyOK
<1> HIDE DEF w, b, g
<1>5. ASSUME NEW k \in Windows
      PROVE  IF \A i \in 1..Len(b) : b[i].start <= e.now /\ b[i].now <= e.now
               THEN CountLast(w, e.now, k) = Cardinality({i \in 1..Len(b) : b[i].start > e.now - k})
               ELSE CountLast(w, e.now, k) \in 0..Len(b)
  <2>1. CASE \A i \in 1..Len(b) : b[i].start <= e.now /\ b[i].now <= e.now
    <3>1. e.now <= w.lastSec /\ w.lastSec \in Nat
      <4>1. Len(b) \in 1..Len(b)
        BY <1>1
      <4>2. QED
        BY <1>1, <1>4, <4>1 DEF Reached, WheelOK, Wheels
    <3>2. w.lastSec <= e.now
      <4>1. w.lastSec # 0
        BY <1>1, <3>1
      <4>2. PICK j \in 1..Len(b) : w.lastSec \in {b[j].start, b[j].now}
        BY <1>4, <4>1 DEF Reached
      <4>3. QED
        BY <2>1, <4>2
    <3>3. w.lastSec = e.now
      BY <1>1, <3>1, <3>2
    <3>4. CountLast(w, e.now, k) = Cardinality({i \in 1..Len(b) : b[i].start > e.now - k})
      BY <1>1, <1>4, <3>3, CountExact
    <3>5. QED
      BY <2>1, <3>4
  <2>2. CASE ~ \A i \in 1..Len(b) : b[i].start <= e.now /\ b[i].now <= e.now
    <3>1. CountLast(w, e.now, k) \in 0..Len(b)
      BY <1>1, <1>4, CountBounded
    <3>2. QED
      BY <2>2, <3>1
  <2>3. QED
    BY <2>1, <2>2
<1>6. RatioOK(g.ratio, b)
  <2>1. \A k \in Windows : g.ratio[k] = CountLast(w, e.now, k)
    BY <1>2
  <2>2. QED
    BY <1>1, <1>5, <2>1 DEF RatioOK
<1>7. FamilyOK(g, b)
  BY <1>2, <1>3, <1>4, <1>6 DEF FamilyOK
<1>8. QED
  BY <1>7 DEF g, b

LEMMA EmptyFamilyOK == FamilyOK(EmptyFamily, << >>)
<1>1. RingOK(EmptyRing, << >>)
  BY EmptyRingOK
<1>2. EmptyWheel \in Wheels /\ Len(<< >>) = 0 /\ EmptyWheel.lastSec = 0
  BY FamilyAssumption DEF EmptyWheel, Wheels, FamilyAssumption
<1>3. \A i \in 0..WheelSeconds-1 :
        EmptyWheel.buckets[i] = 0 /\ EmptyWheel.buckets[i] <= Cardinality(InSlot(<< >>, i))
  <2>1. << >> \in Seq(Timed)
    OBVIOUS
  <2>2. \A i : Cardinality(InSlot(<< >>, i)) \in Nat
    BY <2>1, BeganFinite
  <2>3. \A i \in 0..WheelSeconds-1 : EmptyWheel.buckets[i] = 0
    BY DEF EmptyWheel
  <2>4. QED
    BY <2>2, <2>3
<1>4. WheelOK(EmptyWheel, << >>)
  BY <1>2, <1>3 DEF WheelOK
<1>5. Reached(EmptyWheel, << >>)
  BY <1>2 DEF Reached
<1>6. RatioOK(EmptyFamily.ratio, << >>)
  BY DEF RatioOK
<1>7. QED
  BY <1>1, <1>4, <1>5, <1>6 DEF FamilyOK, EmptyFamily

(***************************************************************************)
(* Which entry a path has                                                  *)
(***************************************************************************)

AllEvents == Timed \cup [host : Hosts, path : Paths, kind : {"cancel"}]

Keys == {"::root", "::other"} \cup {Escaped(path) : path \in Paths}

\* The paths a host has seen.
Seen(h) == SeenBefore(h, Len(log) + 1)

\* The first MaxEndpoints - 1 of them have their own entries.
SeenOK(h) ==
  /\ IsFiniteSet(Seen(h)) /\ OwnEntries(h) \subseteq Seen(h)
  /\ Cardinality(Seen(h)) < MaxEndpoints => OwnEntries(h) = Seen(h)
  /\ Cardinality(Seen(h)) >= MaxEndpoints - 1 => Cardinality(OwnEntries(h)) = MaxEndpoints - 1

\* What updateMetrics starts from.
Known(h) == IF h \in DOMAIN metrics THEN metrics[h] ELSE [key \in {"::root"} |-> EmptyEndpoint]

RegistryOK(h) ==
  DOMAIN Known(h) = {"::root"} \cup OwnEntries(h)
                      \cup (IF Seen(h) # OwnEntries(h) THEN {"::other"} ELSE {})

LEMMA EscapedIsOrdinary ==
  \A path : Escaped(path) # "::root" /\ Escaped(path) # "::other"
BY DEF Escaped

LEMMA SeenGrows ==
  ASSUME NEW e \in AllEvents, log \in Seq(AllEvents), log' = Append(log, e), NEW h
  PROVE  /\ Seen(h)' = Seen(h) \cup (IF e.host = h THEN {Escaped(e.path)} ELSE {})
         /\ OwnEntries(h)' = OwnEntries(h)
              \cup (IF e.host = h /\ Cardinality(Seen(h)) < MaxEndpoints - 1
                      THEN {Escaped(e.path)} ELSE {})
<1>0. PICK n \in Nat : n = Len(log)
  OBVIOUS
<1>1. /\ Len(log) = n /\ Len(log') = n + 1 /\ log'[n+1] = e /\ \A j \in 1..n : log'[j] = log[j]
      /\ DOMAIN log = 1..n /\ DOMAIN log' = 1..n+1
  BY <1>0
<1>2. \A i \in 1..n+1 : SeenBefore(h, i)' = SeenBefore(h, i)
  <2>1. ASSUME NEW i \in 1..n+1, NEW j \in 1..i-1
        PROVE  log'[j] = log[j]
    BY <1>1
  <2>2. QED
    BY <1>1, <2>1 DEF SeenBefore
<1>3. SeenBefore(h, n+2)' = SeenBefore(h, n+1) \cup (IF e.host = h THEN {Escaped(e.path)} ELSE {})
  <2>1. 1..(n+2)-1 = (1..(n+1)-1) \cup {n+1} /\ 1..(n+1)-1 = 1..n
    BY <1>1
  <2>2. {x \in 1..(n+2)-1 : log'[x].host = h}
          = {x \in 1..(n+1)-1 : log[x].host = h} \cup (IF e.host = h THEN {n+1} ELSE {})
    BY <1>1, <2>1
  <2>3. QED
    BY <1>1, <2>1, <2>2 DEF SeenBefore
<1>4. Seen(h) = SeenBefore(h, n+1) /\ Seen(h)' = SeenBefore(h, n+2)'
  <2>1. n + 1 + 1 = n + 2
    OBVIOUS
  <2>2. QED
    BY <1>1, <2>1 DEF Seen
<1>5. OwnEntries(h)' = OwnEntries(h)
        \cup (IF e.host = h /\ Cardinality(Seen(h)) < MaxEndpoints - 1
                THEN {Escaped(e.path)} ELSE {})
  <2> DEFINE G == {x \in DOMAIN log : log[x].host = h /\ Cardinality(SeenBefore(h, x)) < MaxEndpoints - 1}
             new == e.host = h /\ Cardinality(Seen(h)) < MaxEndpoints - 1
  <2>1. G' = G \cup (IF new THEN {n+1} ELSE {})
    <3>1. \A x \in 1..n : x \in G' <=> x \in G
      BY <1>1, <1>2
    <3>2. n + 1 \in G' <=> new
      BY <1>1, <1>2, <1>4
    <3>3. G \subseteq 1..n /\ G' \subseteq 1..n+1 /\ 1..n+1 = (1..n) \cup {n+1}
      BY <1>1
    <3> HIDE DEF G, new
    <3>4. QED
      BY <3>1, <3>2, <3>3
  <2>2. \A x \in G : x \in 1..n
    BY <1>1
  <2>3. OwnEntries(h) = {Escaped(log[i].path) : i \in G}
    BY DEF OwnEntries
  <2>4. OwnEntries(h)' = {Escaped(log'[i].path) : i \in G'}
    BY DEF OwnEntries
  <2> HIDE DEF G, new
  <2>5. OwnEntries(h)' = OwnEntries(h) \cup (IF new THEN {Escaped(e.path)} ELSE {})
    BY <1>1, <2>1, <2>2, <2>3, <2>4
  <2>6. QED
    BY <2>5 DEF new
<1>6. QED
  BY <1>3, <1>4, <1>5

LEMMA SeenStaysOK ==
  ASSUME NEW e \in AllEvents, log \in Seq(AllEvents), log' = Append(log, e), NEW h, SeenOK(h)
  PROVE  SeenOK(h)'
<1> DEFINE p == Escaped(e.path)
           seen == Seen(h)
           own == OwnEntries(h)
<1>1. /\ MaxEndpoints \in Nat \ {0} /\ IsFiniteSet(seen) /\ Cardinality(seen) \in Nat
      /\ own \subseteq seen
      /\ Cardinality(seen) < MaxEndpoints => own = seen
      /\ Cardinality(seen) >= MaxEndpoints - 1 => Cardinality(own) = MaxEndpoints - 1
  BY MetricsAssumption, FS_CardinalityType DEF MetricsAssumption, SeenOK
<1>2. /\ Seen(h)' = seen \cup (IF e.host = h THEN {p} ELSE {})
      /\ OwnEntries(h)' = own \cup (IF e.host = h /\ Cardinality(seen) < MaxEndpoints - 1
                                      THEN {p} ELSE {})
  BY SeenGrows
<1> HIDE DEF p, seen, own
<1>3. CASE e.host # h \/ p \in seen
  <2>1. Seen(h)' = seen /\ OwnEntries(h)' = own
    BY <1>1, <1>2, <1>3
  <2>2. QED
    BY <1>1, <2>1 DEF SeenOK
<1>4. CASE e.host = h /\ p \notin seen
  <2>1. /\ Seen(h)' = seen \cup {p} /\ IsFiniteSet(seen \cup {p})
        /\ Cardinality(seen \cup {p}) = Cardinality(seen) + 1
    BY <1>1, <1>2, <1>4, GrowsByOne
  <2>2. CASE Cardinality(seen) < MaxEndpoints - 1
    <3>1. own = seen /\ OwnEntries(h)' = seen \cup {p}
      BY <1>1, <1>2, <1>4, <2>2
    <3>2. Cardinality(seen) + 1 >= MaxEndpoints - 1 => Cardinality(seen) + 1 = MaxEndpoints - 1
      BY <1>1, <2>2
    <3>3. QED
      BY <2>1, <3>1, <3>2 DEF SeenOK
  <2>3. CASE ~ (Cardinality(seen) < MaxEndpoints - 1)
    <3>1. OwnEntries(h)' = own /\ Cardinality(own) = MaxEndpoints - 1
      BY <1>1, <1>2, <2>3
    <3>2. ~ (Cardinality(seen) + 1 < MaxEndpoints)
      BY <1>1, <2>3
    <3>3. QED
      BY <1>1, <2>1, <3>1, <3>2 DEF SeenOK
  <2>4. QED
    BY <2>2, <2>3
<1>5. QED
  BY <1>3, <1>4

LEMMA OwnIsOrdinary ==
  ASSUME NEW h, log \in Seq(AllEvents)
  PROVE  /\ "::root" \notin OwnEntries(h) /\ "::other" \notin OwnEntries(h)
         /\ OwnEntries(h) \subseteq Keys
<1>1. \A i \in DOMAIN log : log[i].path \in Paths
  <2>1. \A i \in DOMAIN log : log[i] \in AllEvents
    OBVIOUS
  <2>2. QED
    BY <2>1 DEF AllEvents, Timed
<1>2. QED
  BY <1>1, EscapedIsOrdinary DEF OwnEntries, Keys

\* The aggregates come beside the endpoints.
LEMMA RegistrySize ==
  ASSUME NEW h, log \in Seq(AllEvents), SeenOK(h), RegistryOK(h)
  PROVE  /\ IsFiniteSet(DOMAIN Known(h))
         /\ Cardinality(DOMAIN Known(h))
              = Cardinality(OwnEntries(h)) + (IF Seen(h) # OwnEntries(h) THEN 2 ELSE 1)
         /\ Cardinality(OwnEntries(h)) \in 0..MaxEndpoints-1
<1> DEFINE own == OwnEntries(h)
<1>1. "::root" \notin own /\ "::other" \notin own /\ IsFiniteSet(own)
  BY OwnIsOrdinary, FS_Subset DEF SeenOK
<1>2. /\ IsFiniteSet(own \cup {"::root"}) /\ Cardinality(own \cup {"::root"}) = Cardinality(own) + 1
      /\ Cardinality(own) \in Nat
  BY <1>1, GrowsByOne, FS_CardinalityType
<1>3. "::other" \notin own \cup {"::root"}
  BY <1>1
<1>4. /\ IsFiniteSet(own \cup {"::root"} \cup {"::other"})
      /\ Cardinality(own \cup {"::root"} \cup {"::other"}) = Cardinality(own) + 1 + 1
  BY <1>2, <1>3, GrowsByOne
<1>5. Cardinality(own) \in 0..MaxEndpoints-1
  <2>1. /\ Cardinality(Seen(h)) \in Nat /\ MaxEndpoints \in Nat \ {0}
        /\ Cardinality(own) <= Cardinality(Seen(h))
    BY MetricsAssumption, FS_CardinalityType, FS_Subset DEF MetricsAssumption, SeenOK
  <2>2. Cardinality(Seen(h)) >= MaxEndpoints - 1 => Cardinality(own) = MaxEndpoints - 1
    BY DEF SeenOK
  <2> HIDE DEF own
  <2>3. QED
    BY <1>2, <2>1, <2>2
<1> HIDE DEF own
<1>6. DOMAIN Known(h) = own \cup {"::root"} \cup (IF Seen(h) # own THEN {"::other"} ELSE {})
  BY DEF RegistryOK, own
<1>7. CASE Seen(h) # own
  <2>1. DOMAIN Known(h) = own \cup {"::root"} \cup {"::other"}
    BY <1>6, <1>7
  <2>2. QED
    BY <1>2, <1>4, <1>5, <1>7, <2>1 DEF own
<1>8. CASE Seen(h) = own
  <2>1. DOMAIN Known(h) = own \cup {"::root"}
    BY <1>6, <1>8
  <2>2. QED
    BY <1>2, <1>5, <1>8, <2>1 DEF own
<1>9. QED
  BY <1>7, <1>8

\* An event counts for its own entry exactly if its path has or gets one, and
\* the registry stays what the history makes it.
LEMMA KeyIsEntry ==
  ASSUME NEW e \in AllEvents, log \in Seq(AllEvents), log' = Append(log, e),
         SeenOK(e.host), RegistryOK(e.host)
  PROVE  LET h == e.host
             p == Escaped(e.path)
             key == Key(Known(h), p)
         IN  /\ key = IF p \in OwnEntries(h)' THEN p ELSE "::other"
             /\ DOMAIN Known(h) \cup {key}
                  = {"::root"} \cup OwnEntries(h)'
                      \cup (IF Seen(h)' # OwnEntries(h)' THEN {"::other"} ELSE {})
<1>0. PICK h : h = e.host
  OBVIOUS
<1> DEFINE p == Escaped(e.path)
           seen == Seen(h)
           own == OwnEntries(h)
           known == DOMAIN Known(h)
           key == Key(Known(h), p)
<1>1. /\ MaxEndpoints \in Nat \ {0} /\ Cardinality(seen) \in Nat /\ own \subseteq seen
      /\ Cardinality(seen) < MaxEndpoints => own = seen
      /\ Cardinality(seen) >= MaxEndpoints - 1 => Cardinality(own) = MaxEndpoints - 1
  BY <1>0, MetricsAssumption, FS_CardinalityType DEF MetricsAssumption, SeenOK
<1>2. /\ Seen(h)' = seen \cup {p}
      /\ OwnEntries(h)' = own \cup (IF Cardinality(seen) < MaxEndpoints - 1 THEN {p} ELSE {})
  BY <1>0, SeenGrows
<1>3. p # "::root" /\ p # "::other"
  BY EscapedIsOrdinary
<1>4. known = {"::root"} \cup own \cup (IF seen # own THEN {"::other"} ELSE {})
  BY <1>0 DEF RegistryOK
<1>5. /\ Cardinality(known) = Cardinality(own) + (IF seen # own THEN 2 ELSE 1)
      /\ Cardinality(own) \in Nat
  BY <1>0, RegistrySize
<1>6. key = IF p \notin known /\ Cardinality(known) >= MaxEndpoints THEN "::other" ELSE p
  BY DEF Key, Full
<1> HIDE DEF p, seen, own, known, key
<1>7. p \in known <=> p \in own
  BY <1>3, <1>4
<1>8. CASE Cardinality(seen) < MaxEndpoints - 1
  <2>1. own = seen /\ Cardinality(known) < MaxEndpoints
    BY <1>1, <1>5, <1>8
  <2>2. key = p
    BY <1>1, <1>5, <1>6, <2>1
  <2>3. OwnEntries(h)' = own \cup {p} /\ Seen(h)' = own \cup {p}
    BY <1>2, <1>8, <2>1
  <2>4. known = {"::root"} \cup own
    BY <1>4, <2>1
  <2>5. /\ key = IF p \in OwnEntries(h)' THEN p ELSE "::other"
        /\ known \cup {key} = {"::root"} \cup OwnEntries(h)'
                      \cup (IF Seen(h)' # OwnEntries(h)' THEN {"::other"} ELSE {})
    BY <2>2, <2>3, <2>4
  <2>6. QED
    BY <1>0, <2>5 DEF p, known, key
<1>9. CASE ~ (Cardinality(seen) < MaxEndpoints - 1)
  <2>1. OwnEntries(h)' = own /\ Cardinality(known) >= MaxEndpoints
    BY <1>1, <1>2, <1>5, <1>9
  <2>2. key = IF p \in own THEN p ELSE "::other"
    BY <1>6, <1>7, <2>1
  <2>3. (Seen(h)' # own) <=> (seen # own \/ p \notin own)
    BY <1>1, <1>2
  <2>4. known \cup {key} = {"::root"} \cup own
                      \cup (IF Seen(h)' # own THEN {"::other"} ELSE {})
    <3>1. CASE p \in own
      BY <1>4, <2>2, <2>3, <3>1
    <3>2. CASE p \notin own
      BY <1>4, <2>2, <2>3, <3>2
    <3>3. QED
      BY <3>1, <3>2
  <2>5. QED
    BY <1>0, <2>1, <2>2, <2>4 DEF p, known, key
<1>10. QED
  BY <1>8, <1>9

LEMMA EntriesKept ==
  ASSUME NEW e \in AllEvents, log \in Seq(AllEvents), log' = Append(log, e),
         NEW x, NEW i \in 1..Len(log), x = log[i], SeenOK(x.host)
  PROVE  Entries(x)' = Entries(x)
<1>0. PICK h, p : h = x.host /\ p = Escaped(x.path)
  OBVIOUS
<1>1. p \in Seen(h)
  <2>1. i \in 1..(Len(log)+1)-1 /\ log[i].host = h /\ p = Escaped(log[i].path)
    BY <1>0
  <2>2. QED
    BY <2>1 DEF Seen, SeenBefore
<1>2. /\ MaxEndpoints \in Nat \ {0} /\ Cardinality(Seen(h)) \in Nat
      /\ Cardinality(Seen(h)) < MaxEndpoints => OwnEntries(h) = Seen(h)
  BY <1>0, MetricsAssumption, FS_CardinalityType DEF MetricsAssumption, SeenOK
<1>3. OwnEntries(h)' = OwnEntries(h)
        \cup (IF e.host = h /\ Cardinality(Seen(h)) < MaxEndpoints - 1
                THEN {Escaped(e.path)} ELSE {})
  BY SeenGrows
<1>4. p \in OwnEntries(h)' <=> p \in OwnEntries(h)
  BY <1>1, <1>2, <1>3
<1>5. QED
  BY <1>0, <1>4 DEF Entries

Upto(I, i) == {x \in I : x <= i}

\* Of a finite set of indices, each number has its index.
LEMMA NthExists ==
  ASSUME NEW n \in Nat, NEW I \in SUBSET (1..n)
  PROVE  /\ IsFiniteSet(I) /\ Cardinality(I) \in Nat
         /\ \A i \in I : Cardinality(Upto(I, i)) \in 1..Cardinality(I)
         /\ \A i, j \in I : Cardinality(Upto(I, i)) = Cardinality(Upto(I, j)) => i = j
         /\ \A j \in 1..Cardinality(I) : Nth(I, j) \in I /\ Cardinality(Upto(I, Nth(I, j))) = j
<1>1. IsFiniteSet(I) /\ Cardinality(I) \in Nat
  <2>1. IsFiniteSet(1..n)
    BY FS_Interval
  <2>2. QED
    BY <2>1, FS_Subset, FS_CardinalityType
<1>2. ASSUME NEW i \in I
      PROVE  IsFiniteSet(Upto(I, i)) /\ Cardinality(Upto(I, i)) \in 1..Cardinality(I)
  <2>1. Upto(I, i) \subseteq I /\ i \in Upto(I, i)
    BY DEF Upto
  <2>2. /\ IsFiniteSet(Upto(I, i)) /\ Cardinality(Upto(I, i)) <= Cardinality(I)
        /\ Cardinality(Upto(I, i)) \in Nat
    BY <1>1, <2>1, FS_Subset, FS_CardinalityType
  <2>3. Cardinality(Upto(I, i)) # 0
    BY <2>1, <2>2, FS_EmptySet
  <2>4. QED
    BY <1>1, <2>2, <2>3
<1>3. ASSUME NEW i \in I, NEW j \in I, i < j
      PROVE  Cardinality(Upto(I, i)) # Cardinality(Upto(I, j))
  <2>1. i \in 1..n /\ j \in 1..n
    OBVIOUS
  <2>2. Upto(I, i) \subseteq Upto(I, j) /\ j \in Upto(I, j) /\ j \notin Upto(I, i)
    <3>1. \A x \in I : x <= i => x <= j
      <4>1. \A x \in 1..n : x <= i => x <= j
        BY <1>3, <2>1
      <4>2. QED
        BY <4>1
    <3>2. j <= j /\ ~ (j <= i)
      BY <1>3, <2>1
    <3>3. QED
      BY <3>1, <3>2, Zenon DEF Upto
  <2>3. Upto(I, i) # Upto(I, j)
    BY <2>2
  <2>4. QED
    BY <1>2, <2>2, <2>3, FS_Subset
<1>4. ASSUME NEW i \in I, NEW j \in I, Cardinality(Upto(I, i)) = Cardinality(Upto(I, j))
      PROVE  i = j
  <2>1. i \in 1..n /\ j \in 1..n
    OBVIOUS
  <2>2. i < j \/ j < i \/ i = j
    BY <2>1
  <2>3. QED
    BY <1>3, <1>4, <2>2
<1> DEFINE rank == [i \in I |-> Cardinality(Upto(I, i))]
<1>5. rank \in Injection(I, 1..Cardinality(I))
  BY <1>2, <1>4 DEF Injection, IsInjective
<1>6. rank \in Surjection(I, 1..Cardinality(I))
  <2>1. /\ IsFiniteSet(1..Cardinality(I))
        /\ Cardinality(1..Cardinality(I)) = Cardinality(I)
    BY <1>1, FS_Interval
  <2> HIDE DEF rank
  <2>2. QED
    BY <1>1, <1>5, <2>1, FS_Injection
<1>7. ASSUME NEW j \in 1..Cardinality(I)
      PROVE  Nth(I, j) \in I /\ Cardinality(Upto(I, Nth(I, j))) = j
  <2>1. \E i \in I : Cardinality(Upto(I, i)) = j
    BY <1>6 DEF Surjection
  <2>2. Nth(I, j) = CHOOSE i \in I : Cardinality(Upto(I, i)) = j
    BY DEF Nth, Upto
  <2>3. QED
    BY <2>1, <2>2
<1>8. QED
  BY <1>1, <1>2, <1>4, <1>7

\* A later index comes last and moves none.
LEMMA NthAppended ==
  ASSUME NEW n \in Nat, NEW I \in SUBSET (1..n)
  PROVE  /\ Cardinality(I \cup {n+1}) = Cardinality(I) + 1
         /\ \A j \in 1..Cardinality(I) : Nth(I \cup {n+1}, j) = Nth(I, j)
         /\ Nth(I \cup {n+1}, Cardinality(I) + 1) = n + 1
<1> DEFINE K == I \cup {n+1}
<1>1. IsFiniteSet(I) /\ Cardinality(I) \in Nat /\ n + 1 \notin I
  BY NthExists
<1>2. Cardinality(K) = Cardinality(I) + 1
  BY <1>1, GrowsByOne
<1>3. n + 1 \in Nat /\ K \in SUBSET (1..n+1) /\ n + 1 \in K /\ I \subseteq K
  OBVIOUS
<1>4. ASSUME NEW i \in I PROVE Upto(K, i) = Upto(I, i)
  <2>1. \A x \in I : x \in 1..n
    OBVIOUS
  <2>2. ~ (n + 1 <= i)
    BY <2>1
  <2>3. QED
    BY <2>2 DEF Upto
<1>5. Upto(K, n+1) = K
  <2>1. \A x \in K : x <= n + 1
    OBVIOUS
  <2>2. QED
    BY <2>1 DEF Upto
<1> HIDE DEF K
<1>6. /\ \A i, j \in K : Cardinality(Upto(K, i)) = Cardinality(Upto(K, j)) => i = j
      /\ \A j \in 1..Cardinality(K) : Nth(K, j) \in K /\ Cardinality(Upto(K, Nth(K, j))) = j
  BY <1>3, NthExists
<1>7. ASSUME NEW j \in 1..Cardinality(I) PROVE Nth(K, j) = Nth(I, j)
  <2>1. Nth(I, j) \in I /\ Cardinality(Upto(I, Nth(I, j))) = j
    BY NthExists
  <2>2. j \in 1..Cardinality(K)
    BY <1>1, <1>2
  <2>3. QED
    BY <1>3, <1>4, <1>6, <2>1, <2>2
<1>8. Nth(K, Cardinality(I) + 1) = n + 1
  <2>1. Cardinality(K) \in 1..Cardinality(K)
    BY <1>1, <1>2
  <2>2. Nth(K, Cardinality(K)) = n + 1
    BY <1>3, <1>5, <1>6, <2>1
  <2>3. QED
    BY <1>2, <2>2
<1>9. QED
  BY <1>2, <1>7, <1>8 DEF K

(***************************************************************************)
(* What an entry stands for                                                *)
(***************************************************************************)

\* The event x is one that the entry stands for.
Counts(x, h, key, kind) == x.host = h /\ key \in Entries(x) /\ x.kind = kind

LEMMA RecordedFits ==
  ASSUME log \in Seq(AllEvents), NEW h, NEW key, NEW kind
  PROVE  /\ RecordedAt(h, key, kind) \in SUBSET (1..Len(log))
         /\ IsFiniteSet(RecordedAt(h, key, kind))
         /\ Cardinality(RecordedAt(h, key, kind)) \in Nat
         /\ \A i \in RecordedAt(h, key, kind) : Counts(log[i], h, key, kind)
         /\ Recorded(h, key, kind) \in Seq(AllEvents)
         /\ Len(Recorded(h, key, kind)) = Cardinality(RecordedAt(h, key, kind))
         /\ kind \in Kinds => Recorded(h, key, kind) \in Seq(Timed)
<1> DEFINE I == RecordedAt(h, key, kind)
           c == Cardinality(I)
<1>1. Len(log) \in Nat /\ DOMAIN log = 1..Len(log) /\ \A i \in 1..Len(log) : log[i] \in AllEvents
  OBVIOUS
<1>2. I \in SUBSET (1..Len(log)) /\ \A i \in I : Counts(log[i], h, key, kind)
  BY <1>1 DEF RecordedAt, Counts
<1>3. Recorded(h, key, kind) = [j \in 1..c |-> log[Nth(I, j)]]
  BY DEF Recorded
<1> HIDE DEF I
<1>4. IsFiniteSet(I) /\ c \in Nat /\ \A j \in 1..c : Nth(I, j) \in I
  BY <1>1, <1>2, NthExists
<1> HIDE DEF c
<1>5. \A j \in 1..c : log[Nth(I, j)] \in AllEvents /\ log[Nth(I, j)].kind = kind
  BY <1>1, <1>2, <1>4 DEF Counts
<1>6. Recorded(h, key, kind) \in Seq(AllEvents) /\ Len(Recorded(h, key, kind)) = c
  BY <1>3, <1>4, <1>5
<1>7. ASSUME kind \in Kinds PROVE Recorded(h, key, kind) \in Seq(Timed)
  <2>1. \A x \in AllEvents : x.kind = kind => x \in Timed
    BY <1>7, MetricsAssumption DEF MetricsAssumption, AllEvents
  <2>2. \A j \in 1..c : log[Nth(I, j)] \in Timed
    BY <1>5, <2>1
  <2>3. QED
    BY <1>3, <1>4, <2>2
<1>8. QED
  BY <1>2, <1>4, <1>6, <1>7 DEF I, c

LEMMA AppendedAt ==
  ASSUME NEW S, NEW s \in Seq(S), NEW e \in S
  PROVE  Append(s, e) = [j \in 1..Len(s)+1 |-> IF j = Len(s) + 1 THEN e ELSE s[j]]
<1> DEFINE b == Append(s, e)
<1>1. /\ b \in Seq(S) /\ Len(s) \in Nat /\ Len(b) = Len(s) + 1
      /\ \A j \in 1..Len(s)+1 : b[j] = IF j = Len(s) + 1 THEN e ELSE s[j]
  OBVIOUS
<1> HIDE DEF b
<1>2. b = [j \in 1..Len(s)+1 |-> b[j]]
  BY <1>1
<1>3. b = [j \in 1..Len(s)+1 |-> IF j = Len(s) + 1 THEN e ELSE s[j]]
  BY <1>1, <1>2
<1>4. QED
  BY <1>3 DEF b

LEMMA RecordedGrows ==
  ASSUME NEW e \in AllEvents, log \in Seq(AllEvents), log' = Append(log, e),
         \A x \in AllEvents : SeenOK(x.host),
         NEW h, NEW key, NEW kind
  PROVE  /\ RecordedAt(h, key, kind)'
              = RecordedAt(h, key, kind) \cup (IF Counts(e, h, key, kind)' THEN {Len(log)+1} ELSE {})
         /\ Recorded(h, key, kind)'
              = IF Counts(e, h, key, kind)' THEN Append(Recorded(h, key, kind), e)
                ELSE Recorded(h, key, kind)
<1>0. PICK n \in Nat : n = Len(log)
  OBVIOUS
<1>1. /\ Len(log') = n + 1 /\ log'[n+1] = e /\ \A j \in 1..n : log'[j] = log[j]
      /\ DOMAIN log = 1..n /\ DOMAIN log' = 1..n+1 /\ \A j \in 1..n : log[j] \in AllEvents
  BY <1>0
<1>2. PICK hit \in BOOLEAN : hit <=> Counts(e, h, key, kind)'
  OBVIOUS
<1>3. PICK I : I = RecordedAt(h, key, kind)
  OBVIOUS
<1>4. PICK K : K = RecordedAt(h, key, kind)'
  OBVIOUS
<1>5. K = I \cup (IF hit THEN {n+1} ELSE {})
  <2>1. ASSUME NEW i \in 1..n PROVE i \in K <=> i \in I
    <3>1. PICK x : x = log[i]
      OBVIOUS
    <3>2. x \in AllEvents /\ log'[i] = x /\ i \in 1..n+1
      BY <1>1, <3>1
    <3>3. Entries(x)' = Entries(x)
      BY <1>0, <3>1, <3>2, EntriesKept
    <3>4. i \in I <=> x.host = h /\ key \in Entries(x) /\ x.kind = kind
      BY <1>1, <1>3, <3>1 DEF RecordedAt
    <3>5. i \in K <=> x.host = h /\ key \in Entries(x)' /\ x.kind = kind
      BY <1>1, <1>4, <3>2 DEF RecordedAt
    <3>6. QED
      BY <3>3, <3>4, <3>5
  <2>2. n + 1 \in K <=> hit
    <3>1. n + 1 \in K <=> e.host = h /\ key \in Entries(e)' /\ e.kind = kind
      BY <1>1, <1>4 DEF RecordedAt
    <3>2. hit <=> e.host = h /\ key \in Entries(e)' /\ e.kind = kind
      BY <1>2, Zenon DEF Counts
    <3>3. QED
      BY <3>1, <3>2, Zenon
  <2>3. I \subseteq 1..n /\ K \subseteq 1..n+1 /\ 1..n+1 = (1..n) \cup {n+1}
    BY <1>1, <1>3, <1>4 DEF RecordedAt
  <2>4. QED
    BY <2>1, <2>2, <2>3
<1>6. I \in SUBSET (1..n) /\ Cardinality(I) \in Nat
  BY <1>0, <1>3, RecordedFits
<1>7. /\ Recorded(h, key, kind) = [j \in 1..Cardinality(I) |-> log[Nth(I, j)]]
      /\ Recorded(h, key, kind)' = [j \in 1..Cardinality(K) |-> log'[Nth(K, j)]]
  BY <1>3, <1>4 DEF Recorded
<1>8. \A j \in 1..Cardinality(I) : Nth(I, j) \in 1..n /\ log'[Nth(I, j)] = log[Nth(I, j)]
  BY <1>1, <1>6, NthExists
<1>9. CASE hit
  <2>1. K = I \cup {n+1}
    BY <1>5, <1>9
  <2>2. /\ Cardinality(K) = Cardinality(I) + 1
        /\ \A j \in 1..Cardinality(I) : Nth(K, j) = Nth(I, j)
        /\ Nth(K, Cardinality(I) + 1) = n + 1
    BY <1>6, <2>1, NthAppended
  <2>3. Recorded(h, key, kind)' = Append(Recorded(h, key, kind), e)
    <3> DEFINE c == Cardinality(I)
               F == Recorded(h, key, kind)
    <3>1. F \in Seq(AllEvents) /\ Len(F) = c
      BY <1>3, RecordedFits
    <3>2. Append(F, e) = [j \in 1..c+1 |-> IF j = c + 1 THEN e ELSE F[j]]
      BY <3>1, AppendedAt
    <3>3. \A j \in 1..c+1 : log'[Nth(K, j)] = IF j = c + 1 THEN e ELSE F[j]
      <4>1. \A j \in 1..c+1 : j = c + 1 \/ j \in 1..c
        BY <1>6
      <4>2. QED
        BY <1>1, <1>7, <1>8, <2>2, <4>1
    <3> HIDE DEF F
    <3>4. Recorded(h, key, kind)' = [j \in 1..c+1 |-> IF j = c + 1 THEN e ELSE F[j]]
      BY <1>7, <2>2, <3>3
    <3>5. QED
      BY <3>2, <3>4 DEF F
  <2>4. QED
    BY <1>0, <1>2, <1>3, <1>4, <1>9, <2>1, <2>3
<1>10. CASE ~ hit
  <2>1. K = I
    BY <1>5, <1>10
  <2>2. Recorded(h, key, kind)' = Recorded(h, key, kind)
    BY <1>7, <1>8, <2>1
  <2>3. QED
    BY <1>0, <1>2, <1>3, <1>4, <1>10, <2>1, <2>2
<1>11. QED
  BY <1>9, <1>10

Shape(s) ==
  /\ s = [counts |-> s.counts, family |-> s.family, cancels |-> s.cancels]
  /\ s.counts = [k \in Kinds |-> s.counts[k]]
  /\ s.family = [k \in Kinds |-> s.family[k]]

\* What an entry of a host counts, which is nothing before its first event.
State(h, key) == IF key \in DOMAIN Known(h) THEN Known(h)[key] ELSE EmptyEndpoint

EndpointOK(h, key) ==
  /\ Shape(State(h, key))
  /\ State(h, key).cancels = Cardinality(RecordedAt(h, key, "cancel"))
  /\ \A k \in Kinds : /\ State(h, key).counts[k] = Len(Recorded(h, key, k))
                      /\ FamilyOK(State(h, key).family[k], Recorded(h, key, k))

LEMMA ApplyCounts ==
  ASSUME NEW s, Shape(s), NEW e \in AllEvents
  PROVE  /\ Shape(Apply(s, e))
         /\ Apply(s, e).cancels = IF e.kind = "cancel" THEN s.cancels + 1 ELSE s.cancels
         /\ \A k \in Kinds :
              /\ Apply(s, e).counts[k] = IF e.kind = k THEN s.counts[k] + 1 ELSE s.counts[k]
              /\ Apply(s, e).family[k] =
                   IF e.kind = k THEN RecordSample(s.family[k], SampleOf(e), e.now) ELSE s.family[k]
<1>1. CASE e.kind = "cancel"
  <2>1. Apply(s, e) = [s EXCEPT !.cancels = s.cancels + 1]
    BY <1>1 DEF Apply
  <2>2. Apply(s, e) = [counts |-> s.counts, family |-> s.family, cancels |-> s.cancels + 1]
    BY <2>1 DEF Shape
  <2>3. \A k \in Kinds : e.kind # k
    BY <1>1, MetricsAssumption DEF MetricsAssumption
  <2>4. QED
    BY <1>1, <2>2, <2>3 DEF Shape
<1>2. CASE e.kind # "cancel"
  <2>1. e.kind \in Kinds
    BY <1>2 DEF AllEvents, Timed
  <2> DEFINE f == RecordSample(s.family[e.kind], SampleOf(e), e.now)
             n == s.counts[e.kind] + 1
  <2>2. Apply(s, e) = [s EXCEPT !.counts[e.kind] = n, !.family[e.kind] = f]
    BY <1>2 DEF Apply, SampleOf
  <2> HIDE DEF f, n
  <2>3. Apply(s, e) = [counts |-> [s.counts EXCEPT ![e.kind] = n],
                       family |-> [s.family EXCEPT ![e.kind] = f], cancels |-> s.cancels]
    BY <2>2 DEF Shape
  <2>4. /\ [s.counts EXCEPT ![e.kind] = n] = [k \in Kinds |-> IF e.kind = k THEN n ELSE s.counts[k]]
        /\ [s.family EXCEPT ![e.kind] = f] = [k \in Kinds |-> IF e.kind = k THEN f ELSE s.family[k]]
    BY <2>1 DEF Shape
  <2>5. \A k \in Kinds : /\ Apply(s, e).counts[k] = IF e.kind = k THEN n ELSE s.counts[k]
                         /\ Apply(s, e).family[k] = IF e.kind = k THEN f ELSE s.family[k]
    BY <2>3, <2>4
  <2>6. Shape(Apply(s, e)) /\ Apply(s, e).cancels = s.cancels
    BY <2>3, <2>4 DEF Shape
  <2>7. QED
    BY <1>2, <2>5, <2>6 DEF f, n
<1>3. QED
  BY <1>1, <1>2

\* Every event is applied to its two entries, and to nothing else.
LEMMA UpdateApplies ==
  ASSUME NEW e \in AllEvents, log \in Seq(AllEvents), log' = Append(log, e), Update(e),
         \A h \in Hosts : SeenOK(h) /\ RegistryOK(h)
  PROVE  /\ DOMAIN metrics' = DOMAIN metrics \cup {e.host}
         /\ \A h \in Hosts : RegistryOK(h)'
         /\ \A h \in Hosts, key \in Keys :
              State(h, key)' = IF e.host = h /\ key \in Entries(e)' THEN Apply(State(h, key), e)
                               ELSE State(h, key)
<1>0. PICK g, p, own : g = e.host /\ p = Escaped(e.path) /\ own = Key(Known(g), p)
  OBVIOUS
<1>1. g \in Hosts
  BY <1>0 DEF AllEvents, Timed
<1>2. PICK known : known = Known(g)
  OBVIOUS
<1>3. PICK after :
        after = [key \in DOMAIN known \cup {own} |->
                   IF key \in {own, "::root"}
                     THEN Apply(IF key \in DOMAIN known THEN known[key] ELSE EmptyEndpoint, e)
                     ELSE known[key]]
  OBVIOUS
<1>4. metrics' = [h \in DOMAIN metrics \cup {g} |-> IF h = g THEN after ELSE metrics[h]]
  BY <1>0, <1>2, <1>3, Zenon DEF Update, Known
<1>5. /\ own = IF p \in OwnEntries(g)' THEN p ELSE "::other"
      /\ DOMAIN known \cup {own}
           = {"::root"} \cup OwnEntries(g)'
               \cup (IF Seen(g)' # OwnEntries(g)' THEN {"::other"} ELSE {})
  BY <1>0, <1>1, <1>2, KeyIsEntry
<1>6. Entries(e)' = {"::root", own}
  BY <1>0, <1>5 DEF Entries
<1>7. Known(g)' = after /\ \A h \in Hosts : h # g => Known(h)' = Known(h)
  BY <1>4 DEF Known
<1>8. ASSUME NEW h \in Hosts PROVE RegistryOK(h)'
  <2>1. CASE h = g
    BY <1>3, <1>5, <1>7, <2>1 DEF RegistryOK
  <2>2. CASE h # g
    <3>1. Seen(h)' = Seen(h) /\ OwnEntries(h)' = OwnEntries(h)
      <4>1. /\ Seen(h)' = Seen(h) \cup (IF e.host = h THEN {p} ELSE {})
            /\ OwnEntries(h)' = OwnEntries(h)
                 \cup (IF e.host = h /\ Cardinality(Seen(h)) < MaxEndpoints - 1 THEN {p} ELSE {})
        BY <1>0, SeenGrows, Zenon
      <4>2. QED
        BY <1>0, <2>2, <4>1
    <3>2. QED
      BY <1>7, <2>2, <3>1 DEF RegistryOK
  <2>3. QED
    BY <2>1, <2>2
<1>9. ASSUME NEW h \in Hosts, NEW key \in Keys
      PROVE  State(h, key)' = IF e.host = h /\ key \in Entries(e)' THEN Apply(State(h, key), e)
                              ELSE State(h, key)
  <2>1. CASE h # g
    BY <1>0, <1>7, <2>1 DEF State
  <2>2. CASE h = g
    <3>1. "::root" \in DOMAIN known
      BY <1>1, <1>2 DEF RegistryOK
    <3>2. State(h, key) = IF key \in DOMAIN known THEN known[key] ELSE EmptyEndpoint
      BY <1>2, <2>2 DEF State
    <3>3. State(h, key)' = IF key \in DOMAIN after THEN after[key] ELSE EmptyEndpoint
      BY <1>7, <2>2 DEF State
    <3>4. CASE key \in {own, "::root"}
      <4>1. key \in DOMAIN known \cup {own}
        BY <3>1, <3>4
      <4>2. State(h, key)' = Apply(State(h, key), e)
        BY <1>3, <3>2, <3>3, <3>4, <4>1
      <4>3. QED
        BY <1>0, <1>6, <2>2, <3>4, <4>2
    <3>5. CASE key \notin {own, "::root"}
      <4>1. key \in DOMAIN after <=> key \in DOMAIN known
        BY <1>3, <3>5
      <4>2. State(h, key)' = State(h, key)
        BY <1>3, <3>2, <3>3, <3>5, <4>1
      <4>3. QED
        BY <1>0, <1>6, <2>2, <3>5, <4>2
    <3>6. QED
      BY <3>4, <3>5
  <2>3. QED
    BY <2>1, <2>2
<1>10. DOMAIN metrics' = DOMAIN metrics \cup {e.host}
  BY <1>0, <1>4
<1>11. QED
  BY <1>8, <1>9, <1>10

(***************************************************************************)
(* The invariant                                                           *)
(***************************************************************************)

\* metrics is what the history makes it: every host and every entry is there,
\* and every family is one of the events that the entry stands for.
MetricsInv ==
  /\ log \in Seq(AllEvents)
  /\ clock \in Nat \ {0} /\ latest \in Nat \ {0}
  /\ DOMAIN metrics = {log[i].host : i \in DOMAIN log}
  /\ \A h \in Hosts : SeenOK(h) /\ RegistryOK(h)
  /\ \A h \in Hosts, key \in Keys : EndpointOK(h, key)

LEMMA InitEstablishes == MetricsInit => MetricsInv
<1> SUFFICES ASSUME MetricsInit PROVE MetricsInv
  OBVIOUS
<1> USE DEF MetricsInit
<1>1. log \in Seq(AllEvents) /\ Len(log) = 0 /\ DOMAIN log = {}
  OBVIOUS
<1>2. DOMAIN metrics = {log[i].host : i \in DOMAIN log}
  BY <1>1
<1>3. ASSUME NEW h \in Hosts PROVE SeenOK(h) /\ RegistryOK(h)
  <2>1. Seen(h) = {} /\ OwnEntries(h) = {}
    BY <1>1 DEF Seen, SeenBefore, OwnEntries
  <2>2. SeenOK(h)
    BY <2>1, FS_EmptySet, MetricsAssumption DEF SeenOK, MetricsAssumption
  <2>3. RegistryOK(h)
    BY <2>1 DEF RegistryOK, Known
  <2>4. QED
    BY <2>2, <2>3
<1>4. ASSUME NEW h \in Hosts, NEW key \in Keys PROVE EndpointOK(h, key)
  <2>1. State(h, key) = EmptyEndpoint
    BY DEF State, Known
  <2>2. \A kind : RecordedAt(h, key, kind) = {}
    BY <1>1 DEF RecordedAt
  <2>3. \A kind : Cardinality(RecordedAt(h, key, kind)) = 0 /\ Recorded(h, key, kind) = << >>
    <3>1. ASSUME NEW kind
          PROVE  Cardinality(RecordedAt(h, key, kind)) = 0
      BY <2>2, FS_EmptySet
    <3>2. ASSUME NEW kind
          PROVE  Recorded(h, key, kind) \in Seq(AllEvents) /\ Len(Recorded(h, key, kind)) = 0
      BY <1>1, <3>1, RecordedFits
    <3>3. \A s \in Seq(AllEvents) : Len(s) = 0 => s = << >>
      OBVIOUS
    <3>4. QED
      BY <3>1, <3>2, <3>3
  <2>4. Shape(EmptyEndpoint) /\ EmptyEndpoint.cancels = 0
    BY DEF EmptyEndpoint, Shape
  <2>5. \A k \in Kinds : EmptyEndpoint.counts[k] = 0 /\ EmptyEndpoint.family[k] = EmptyFamily
    BY DEF EmptyEndpoint
  <2>6. QED
    BY <2>1, <2>3, <2>4, <2>5, EmptyFamilyOK DEF EndpointOK
<1>5. QED
  BY <1>1, <1>2, <1>3, <1>4 DEF MetricsInv

LEMMA RecordKeeps ==
  ASSUME MetricsInv, NEW e \in AllEvents, log' = Append(log, e), Update(e),
         UNCHANGED <<clock, latest>>
  PROVE  MetricsInv'
<1>1. /\ log \in Seq(AllEvents) /\ log' \in Seq(AllEvents)
      /\ \A h \in Hosts : SeenOK(h) /\ RegistryOK(h)
      /\ e.host \in Hosts /\ \A x \in AllEvents : SeenOK(x.host)
  <2>1. log \in Seq(AllEvents) /\ \A h \in Hosts : SeenOK(h) /\ RegistryOK(h)
    BY DEF MetricsInv
  <2>2. \A x \in AllEvents : x.host \in Hosts
    BY DEF AllEvents, Timed
  <2>3. QED
    BY <2>1, <2>2
<1>2. DOMAIN metrics' = {log'[i].host : i \in DOMAIN log'}
  <2>1. DOMAIN metrics' = DOMAIN metrics \cup {e.host}
    BY <1>1, UpdateApplies
  <2>2. /\ DOMAIN log' = DOMAIN log \cup {Len(log)+1} /\ log'[Len(log)+1] = e
        /\ \A i \in DOMAIN log : log'[i] = log[i]
    BY <1>1
  <2>3. DOMAIN metrics = {log[i].host : i \in DOMAIN log}
    BY DEF MetricsInv
  <2>4. QED
    BY <2>1, <2>2, <2>3
<1>3. ASSUME NEW h \in Hosts PROVE SeenOK(h)' /\ RegistryOK(h)'
  BY <1>1, SeenStaysOK, UpdateApplies
<1>4. ASSUME NEW h \in Hosts, NEW key \in Keys PROVE EndpointOK(h, key)'
  <2>1. PICK s, t : s = State(h, key) /\ t = State(h, key)'
    OBVIOUS
  <2>2. PICK hit \in BOOLEAN : hit <=> e.host = h /\ key \in Entries(e)'
    OBVIOUS
  <2>3. t = IF hit THEN Apply(s, e) ELSE s
    <3>1. State(h, key)' = IF e.host = h /\ key \in Entries(e)' THEN Apply(State(h, key), e)
                           ELSE State(h, key)
      BY <1>1, UpdateApplies
    <3>2. QED
      BY <2>1, <2>2, <3>1
  <2>4. /\ Shape(s) /\ s.cancels = Cardinality(RecordedAt(h, key, "cancel"))
        /\ \A k \in Kinds : /\ s.counts[k] = Len(Recorded(h, key, k))
                            /\ FamilyOK(s.family[k], Recorded(h, key, k))
    BY <2>1 DEF MetricsInv, EndpointOK
  <2>5. /\ Shape(Apply(s, e))
        /\ Apply(s, e).cancels = IF e.kind = "cancel" THEN s.cancels + 1 ELSE s.cancels
        /\ \A k \in Kinds :
              /\ Apply(s, e).counts[k] = IF e.kind = k THEN s.counts[k] + 1 ELSE s.counts[k]
              /\ Apply(s, e).family[k] =
                   IF e.kind = k THEN RecordSample(s.family[k], SampleOf(e), e.now) ELSE s.family[k]
    BY <2>4, ApplyCounts
  <2>6. \A kind :
          /\ RecordedAt(h, key, kind)'
               = RecordedAt(h, key, kind) \cup (IF hit /\ e.kind = kind THEN {Len(log)+1} ELSE {})
          /\ Recorded(h, key, kind)'
               = IF hit /\ e.kind = kind THEN Append(Recorded(h, key, kind), e)
                 ELSE Recorded(h, key, kind)
    <3>1. ASSUME NEW kind
          PROVE  /\ RecordedAt(h, key, kind)'
                      = RecordedAt(h, key, kind)
                          \cup (IF Counts(e, h, key, kind)' THEN {Len(log)+1} ELSE {})
                 /\ Recorded(h, key, kind)'
                      = IF Counts(e, h, key, kind)' THEN Append(Recorded(h, key, kind), e)
                        ELSE Recorded(h, key, kind)
      BY <1>1, RecordedGrows
    <3>2. \A kind : Counts(e, h, key, kind)' <=> hit /\ e.kind = kind
      BY <2>2, Zenon DEF Counts
    <3>3. QED
      BY <3>1, <3>2, Zenon
  <2>7. Shape(t)
    BY <2>3, <2>4, <2>5
  <2>8. t.cancels = Cardinality(RecordedAt(h, key, "cancel")')
    <3>1. /\ IsFiniteSet(RecordedAt(h, key, "cancel"))
          /\ Len(log) + 1 \notin RecordedAt(h, key, "cancel")
      <4>1. Len(log) \in Nat /\ Len(log) + 1 \notin 1..Len(log)
        BY <1>1
      <4>2. QED
        BY <1>1, <4>1, RecordedFits
    <3>2. CASE hit /\ e.kind = "cancel"
      <4>1. RecordedAt(h, key, "cancel")' = RecordedAt(h, key, "cancel") \cup {Len(log)+1}
        BY <2>6, <3>2
      <4>2. Cardinality(RecordedAt(h, key, "cancel") \cup {Len(log)+1})
              = Cardinality(RecordedAt(h, key, "cancel")) + 1
        BY <3>1, GrowsByOne
      <4>3. QED
        BY <2>3, <2>4, <2>5, <3>2, <4>1, <4>2
    <3>3. CASE ~ (hit /\ e.kind = "cancel")
      <4>1. RecordedAt(h, key, "cancel")' = RecordedAt(h, key, "cancel")
        BY <2>6, <3>3
      <4>2. t.cancels = s.cancels
        BY <2>3, <2>5, <3>3
      <4>3. QED
        BY <2>4, <4>1, <4>2
    <3>4. QED
      BY <3>2, <3>3
  <2>9. ASSUME NEW k \in Kinds
        PROVE  /\ t.counts[k] = Len(Recorded(h, key, k)')
               /\ FamilyOK(t.family[k], Recorded(h, key, k)')
    <3>1. CASE hit /\ e.kind = k
      <4>1. Recorded(h, key, k) \in Seq(Timed)
        BY <1>1, RecordedFits
      <4>2. e \in Timed
        BY <3>1, MetricsAssumption DEF MetricsAssumption, AllEvents
      <4>3. FamilyOK(RecordSample(s.family[k], SampleOf(e), e.now), Append(Recorded(h, key, k), e))
        BY <2>4, <4>1, <4>2, FamilyRecords
      <4>4. /\ t.family[k] = RecordSample(s.family[k], SampleOf(e), e.now)
            /\ t.counts[k] = Len(Recorded(h, key, k)) + 1
            /\ Recorded(h, key, k)' = Append(Recorded(h, key, k), e)
        BY <2>3, <2>4, <2>5, <2>6, <3>1
      <4>5. Len(Append(Recorded(h, key, k), e)) = Len(Recorded(h, key, k)) + 1
        BY <4>1, <4>2
      <4>6. QED
        BY <4>3, <4>4, <4>5
    <3>2. CASE ~ (hit /\ e.kind = k)
      <4>1. /\ t.family[k] = s.family[k] /\ t.counts[k] = s.counts[k]
            /\ Recorded(h, key, k)' = Recorded(h, key, k)
        BY <2>3, <2>5, <2>6, <3>2
      <4>2. QED
        BY <2>4, <4>1
    <3>3. QED
      BY <3>1, <3>2
  <2>10. QED
    BY <2>1, <2>7, <2>8, <2>9 DEF EndpointOK
<1>5. clock' \in Nat \ {0} /\ latest' \in Nat \ {0}
  BY DEF MetricsInv
<1>6. QED
  BY <1>1, <1>2, <1>3, <1>4, <1>5 DEF MetricsInv

LEMMA ClockKeeps ==
  ASSUME MetricsInv, UNCHANGED <<metrics, log>>, clock' \in Nat \ {0}, latest' \in Nat \ {0}
  PROVE  MetricsInv'
<1>1. /\ log' \in Seq(AllEvents) /\ DOMAIN metrics' = {log'[i].host : i \in DOMAIN log'}
  BY DEF MetricsInv
<1>2. ASSUME NEW h \in Hosts PROVE SeenOK(h)' /\ RegistryOK(h)'
  <2>1. Seen(h)' = Seen(h) /\ OwnEntries(h)' = OwnEntries(h) /\ Known(h)' = Known(h)
    BY DEF Seen, SeenBefore, OwnEntries, Known
  <2>2. SeenOK(h) /\ RegistryOK(h)
    BY DEF MetricsInv
  <2>3. QED
    BY <2>1, <2>2 DEF SeenOK, RegistryOK
<1>3. ASSUME NEW h \in Hosts, NEW key \in Keys PROVE EndpointOK(h, key)'
  <2>1. State(h, key)' = State(h, key)
    BY DEF State, Known
  <2>2. \A kind : /\ RecordedAt(h, key, kind)' = RecordedAt(h, key, kind)
                  /\ Recorded(h, key, kind)' = Recorded(h, key, kind)
    BY DEF RecordedAt, Recorded, Entries, OwnEntries, SeenBefore
  <2>3. EndpointOK(h, key)
    BY DEF MetricsInv
  <2>4. QED
    BY <2>1, <2>2, <2>3 DEF EndpointOK
<1>4. QED
  BY <1>1, <1>2, <1>3 DEF MetricsInv

\* Every reachable state is what the history of events makes it: hosts, entries,
\* counts, rings and wheels (circuitbreaker.go:600-665, metrics_state.go).
THEOREM MetricsInvariant == MetricsSpec => []MetricsInv
<1>1. MetricsInit => MetricsInv
  BY InitEstablishes
<1>2. MetricsInv /\ [MetricsNext]_metricsVars => MetricsInv'
  <2> SUFFICES ASSUME MetricsInv, [MetricsNext]_metricsVars PROVE MetricsInv'
    OBVIOUS
  <2>1. clock \in Nat \ {0} /\ latest \in Nat \ {0}
    BY DEF MetricsInv
  <2>2. CASE Record
    <3>1. PICK e \in Events : Update(e) /\ log' = Append(log, e)
      BY <2>2 DEF Record
    <3>2. e \in AllEvents
      <4>1. Durations \subseteq Nat
        BY MetricsAssumption DEF MetricsAssumption
      <4>2. 1..latest \subseteq Nat \ {0}
        BY <2>1
      <4>3. QED
        BY <2>1, <3>1, <4>1, <4>2 DEF Events, AllEvents, Timed
    <3>3. UNCHANGED <<clock, latest>>
      BY <2>2 DEF Record
    <3>4. QED
      BY <3>1, <3>2, <3>3, RecordKeeps
  <2>3. CASE ClockRuns
    <3>1. UNCHANGED <<metrics, log>> /\ clock' \in Nat \ {0} /\ latest' \in Nat \ {0}
      BY <2>1, <2>3 DEF ClockRuns
    <3>2. QED
      BY <3>1, ClockKeeps
  <2>4. CASE ClockSetBack
    <3>1. UNCHANGED <<metrics, log>> /\ clock' \in Nat \ {0} /\ latest' \in Nat \ {0}
      BY <2>1, <2>4 DEF ClockSetBack
    <3>2. QED
      BY <3>1, ClockKeeps
  <2>5. CASE UNCHANGED metricsVars
    <3>1. UNCHANGED <<metrics, log>> /\ clock' \in Nat \ {0} /\ latest' \in Nat \ {0}
      BY <2>1, <2>5 DEF metricsVars
    <3>2. QED
      BY <3>1, ClockKeeps
  <2>6. QED
    BY <2>2, <2>3, <2>4, <2>5 DEF MetricsNext
<1>3. QED
  BY <1>1, <1>2, PTL DEF MetricsSpec

(***************************************************************************)
(* What is answered                                                        *)
(***************************************************************************)

LEMMA AnswerIsState ==
  ASSUME MetricsInv, NEW h \in DOMAIN metrics
  PROVE  /\ h \in Hosts /\ Known(h) = metrics[h] /\ DOMAIN metrics[h] \subseteq Keys
         /\ \A key \in DOMAIN metrics[h] :
              /\ metrics[h][key] = State(h, key) /\ EndpointOK(h, key)
              /\ \A k \in Kinds :
                   LET f == State(h, key).family[k] IN
                   /\ Answer[h][key][k].total = State(h, key).counts[k]
                   /\ Answer[h][key][k].samples = Slice(f.ring)
                   /\ Answer[h][key][k].mean = <<f.ring.total, Held(f.ring)>>
                   /\ Answer[h][key][k].ratio = f.ratio
<1>1. h \in Hosts
  <2>1. PICK i \in DOMAIN log : h = log[i].host
    BY DEF MetricsInv
  <2>2. log[i] \in AllEvents
    BY DEF MetricsInv
  <2>3. QED
    BY <2>1, <2>2 DEF AllEvents, Timed
<1>2. Known(h) = metrics[h]
  BY DEF Known
<1>3. DOMAIN metrics[h] \subseteq Keys
  BY <1>1, <1>2, OwnIsOrdinary DEF MetricsInv, RegistryOK, Keys
<1>4. ASSUME NEW key \in DOMAIN metrics[h]
      PROVE  metrics[h][key] = State(h, key) /\ EndpointOK(h, key)
  BY <1>1, <1>2, <1>3 DEF MetricsInv, State
<1>5. ASSUME NEW key \in DOMAIN metrics[h]
      PROVE  Answer[h][key] = Snapshot(State(h, key))
  BY <1>4 DEF Answer
<1>6. ASSUME NEW key \in DOMAIN metrics[h], NEW k \in Kinds
      PROVE  LET f == State(h, key).family[k] IN
             /\ Answer[h][key][k].total = State(h, key).counts[k]
             /\ Answer[h][key][k].samples = Slice(f.ring)
             /\ Answer[h][key][k].mean = <<f.ring.total, Held(f.ring)>>
             /\ Answer[h][key][k].ratio = f.ratio
  <2>1. PICK s, f : s = State(h, key) /\ f = s.family[k]
    OBVIOUS
  <2>2. Snapshot(s)[k] = [total |-> s.counts[k], samples |-> Slice(f.ring),
                          mean |-> <<f.ring.total, Held(f.ring)>>, ratio |-> f.ratio]
    BY <2>1, Zenon DEF Snapshot, Summary
  <2>3. Answer[h][key] = Snapshot(s)
    BY <1>5, <2>1
  <2>4. QED
    BY <2>1, <2>2, <2>3
<1>7. QED
  BY <1>1, <1>2, <1>3, <1>4, <1>6

\* The samples and the mean of every entry, of any number of them and in a ring
\* of any size (metrics_state.go:32-57, 66-78).
THEOREM SamplesAlwaysExact == MetricsSpec => []SamplesExact
<1>1. MetricsInv => SamplesExact
  <2> SUFFICES ASSUME MetricsInv, NEW h \in DOMAIN metrics, NEW key \in DOMAIN metrics[h],
                      NEW k \in Kinds
               PROVE  LET all    == Recorded(h, key, k)
                          first  == IF Len(all) > RingSize THEN Len(all) - RingSize ELSE 0
                          answer == Answer[h][key][k]
                      IN  /\ answer.samples = [j \in 1..Len(all)-first |->
                               [start |-> all[first+j].start, took |-> all[first+j].took]]
                          /\ answer.mean =
                               <<SumFunction([j \in DOMAIN answer.samples |-> answer.samples[j].took]),
                                 Len(answer.samples)>>
    BY DEF SamplesExact
  <2>1. PICK a, r, answer : a = Recorded(h, key, k) /\ r = State(h, key).family[k].ring
                              /\ answer = Answer[h][key][k]
    OBVIOUS
  <2>2. a \in Seq(Timed)
    BY <2>1, RecordedFits DEF MetricsInv
  <2>3. RingOK(r, a)
    BY <2>1, AnswerIsState DEF EndpointOK, FamilyOK
  <2>4. answer.samples = Slice(r) /\ answer.mean = <<r.total, Held(r)>>
    BY <2>1, AnswerIsState
  <2> DEFINE held  == IF Len(a) < RingSize THEN Len(a) ELSE RingSize
             first == IF Len(a) > RingSize THEN Len(a) - RingSize ELSE 0
  <2>5. Len(a) \in Nat /\ RingSize \in Nat \ {0}
    BY <2>2, FamilyAssumption DEF FamilyAssumption
  <2>6. held = Len(a) - first /\ first = Len(a) - held /\ held \in Nat
    <3>1. CASE Len(a) > RingSize
      BY <2>5, <3>1
    <3>2. CASE ~ (Len(a) > RingSize)
      <4>1. held = Len(a) /\ first = 0
        BY <2>5, <3>2
      <4> HIDE DEF held, first
      <4>2. \A n \in Nat : n = n - 0
        OBVIOUS
      <4>3. QED
        BY <2>5, <4>1, <4>2
    <3>3. QED
      BY <3>1, <3>2
  <2>7. /\ Held(r) = held
        /\ Slice(r) = [j \in 1..held |-> SampleOf(a[Len(a) - held + j])]
        /\ r.total = SumFunction([j \in 1..held |-> SampleOf(a[Len(a) - held + j]).took])
    BY <2>2, <2>3, RingAnswers
  <2> HIDE DEF held, first
  <2>8. /\ Slice(r) = [j \in 1..held |-> SampleOf(a[first + j])]
        /\ r.total = SumFunction([j \in 1..held |-> SampleOf(a[first + j]).took])
    BY <2>6, <2>7
  <2>9. /\ DOMAIN answer.samples = 1..held /\ Len(answer.samples) = held
        /\ [j \in DOMAIN answer.samples |-> answer.samples[j].took]
             = [j \in 1..held |-> SampleOf(a[first + j]).took]
    BY <2>4, <2>6, <2>8
  <2>10. answer.samples = [j \in 1..held |-> [start |-> a[first+j].start, took |-> a[first+j].took]]
    BY <2>4, <2>8 DEF SampleOf
  <2>11. answer.mean = <<SumFunction([j \in DOMAIN answer.samples |-> answer.samples[j].took]),
                         Len(answer.samples)>>
    BY <2>4, <2>7, <2>8, <2>9
  <2>12. QED
    BY <2>1, <2>6, <2>10, <2>11 DEF first
<1>2. QED
  BY <1>1, MetricsInvariant, PTL

\* The ratios of every entry, for wheels and windows of any size and whatever
\* order the events come in (metrics_state.go:87-130, 151-154).
THEOREM RatiosAlwaysExact == MetricsSpec => []RatiosExact
<1>1. MetricsInv => RatiosExact
  <2> SUFFICES ASSUME MetricsInv, NEW h \in DOMAIN metrics, NEW key \in DOMAIN metrics[h],
                      NEW k \in Kinds
               PROVE  LET all   == Recorded(h, key, k)
                          now   == all[Len(all)].now
                          ratio == Answer[h][key][k].ratio
                      IN  all # << >> =>
                            \A seconds \in Windows :
                              IF \A i \in DOMAIN all : all[i].start <= now /\ all[i].now <= now
                                THEN ratio[seconds] =
                                       Cardinality({i \in DOMAIN all : all[i].start > now - seconds})
                                ELSE ratio[seconds] \in 0..Len(all)
    BY DEF RatiosExact
  <2>1. PICK a, ratio : a = Recorded(h, key, k) /\ ratio = Answer[h][key][k].ratio
    OBVIOUS
  <2>2. DOMAIN a = 1..Len(a)
    <3>1. a \in Seq(Timed)
      BY <2>1, RecordedFits DEF MetricsInv
    <3>2. QED
      BY <3>1
  <2>3. ratio = State(h, key).family[k].ratio /\ EndpointOK(h, key)
    BY <2>1, AnswerIsState
  <2>4. RatioOK(ratio, a)
    BY <2>1, <2>3 DEF EndpointOK, FamilyOK
  <2>5. QED
    BY <2>1, <2>2, <2>4 DEF RatioOK
<1>2. QED
  BY <1>1, MetricsInvariant, PTL

\* No host has more than the endpoints it has room for and the two aggregates
\* (circuitbreaker.go:625-665).
THEOREM EntriesBounded ==
  MetricsSpec => [](\A h \in DOMAIN metrics : Cardinality(DOMAIN metrics[h]) <= MaxEndpoints + 1)
<1>1. MetricsInv => \A h \in DOMAIN metrics : Cardinality(DOMAIN metrics[h]) <= MaxEndpoints + 1
  <2> SUFFICES ASSUME MetricsInv, NEW h \in DOMAIN metrics
               PROVE  Cardinality(DOMAIN metrics[h]) <= MaxEndpoints + 1
    OBVIOUS
  <2>1. h \in Hosts /\ Known(h) = metrics[h]
    BY AnswerIsState
  <2>2. /\ Cardinality(DOMAIN Known(h))
             = Cardinality(OwnEntries(h)) + (IF Seen(h) # OwnEntries(h) THEN 2 ELSE 1)
        /\ Cardinality(OwnEntries(h)) \in 0..MaxEndpoints-1
    BY <2>1, RegistrySize DEF MetricsInv
  <2>3. MaxEndpoints \in Nat \ {0}
    BY MetricsAssumption DEF MetricsAssumption
  <2>4. QED
    BY <2>1, <2>2, <2>3
<1>2. QED
  BY <1>1, MetricsInvariant, PTL

\* The entries of a host are those of its events.
LEMMA EntriesOfEvents ==
  ASSUME MetricsInv, NEW h \in DOMAIN metrics
  PROVE  DOMAIN metrics[h] = UNION {Entries(log[i]) : i \in {x \in DOMAIN log : log[x].host = h}}
<1> DEFINE I == {x \in DOMAIN log : log[x].host = h}
           All == UNION {Entries(log[i]) : i \in I}
<1>1. \A i \in I : Entries(log[i]) =
        {"::root", IF Escaped(log[i].path) \in OwnEntries(h) THEN Escaped(log[i].path) ELSE "::other"}
  BY DEF Entries
<1>2. Seen(h) = {Escaped(log[i].path) : i \in I}
  <2>1. 1..(Len(log)+1)-1 = DOMAIN log
    BY DEF MetricsInv
  <2>2. QED
    BY <2>1 DEF Seen, SeenBefore
<1>3. I # {}
  BY DEF MetricsInv
<1>4. OwnEntries(h) \subseteq Seen(h)
  BY AnswerIsState DEF MetricsInv, SeenOK
<1>5. DOMAIN metrics[h] = {"::root"} \cup OwnEntries(h)
                            \cup (IF Seen(h) # OwnEntries(h) THEN {"::other"} ELSE {})
  BY AnswerIsState DEF MetricsInv, RegistryOK
<1>6. \A x : x \in All <=> \E i \in I : x \in Entries(log[i])
  OBVIOUS
<1> HIDE DEF I, All
<1>7. All = {"::root"} \cup OwnEntries(h)
              \cup (IF Seen(h) # OwnEntries(h) THEN {"::other"} ELSE {})
  <2>1. "::root" \in All
    BY <1>1, <1>3, <1>6
  <2>2. ASSUME NEW p \in OwnEntries(h) PROVE p \in All
    <3>1. PICK i \in I : p = Escaped(log[i].path)
      BY <1>2, <1>4
    <3>2. QED
      BY <1>1, <1>6, <3>1
  <2>3. Seen(h) # OwnEntries(h) => "::other" \in All
    <3>1. ASSUME Seen(h) # OwnEntries(h) PROVE "::other" \in All
      <4>1. PICK i \in I : Escaped(log[i].path) \notin OwnEntries(h)
        BY <1>2, <1>4, <3>1
      <4>2. QED
        BY <1>1, <1>6, <4>1
    <3>2. QED
      BY <3>1
  <2>4. ASSUME NEW x \in All
        PROVE  x \in {"::root"} \cup OwnEntries(h)
                       \cup (IF Seen(h) # OwnEntries(h) THEN {"::other"} ELSE {})
    <3>1. PICK i \in I : x \in Entries(log[i])
      BY <1>6
    <3>2. Escaped(log[i].path) \in Seen(h)
      BY <1>2
    <3>3. QED
      BY <1>1, <3>1, <3>2
  <2>5. QED
    BY <2>1, <2>2, <2>3, <2>4
<1>8. QED
  BY <1>5, <1>7 DEF All, I

\* The endpoints and the aggregate of the others share the events of the host.
LEMMA RootIsSum ==
  ASSUME MetricsInv, NEW h \in DOMAIN metrics, NEW k \in Kinds
  PROVE  Len(Recorded(h, "::root", k))
           = SumFunction([key \in DOMAIN metrics[h] \ {"::root"} |-> Len(Recorded(h, key, k))])
<1> DEFINE S == DOMAIN metrics[h] \ {"::root"}
           A == [key \in S |-> RecordedAt(h, key, k)]
<1>1. log \in Seq(AllEvents)
  BY DEF MetricsInv
<1>2. IsFiniteSet(S)
  <2>1. IsFiniteSet(DOMAIN metrics[h])
    BY <1>1, AnswerIsState, RegistrySize DEF MetricsInv
  <2>2. QED
    BY <2>1, FS_Subset
<1>3. \A key \in S : IsFiniteSet(A[key]) /\ Cardinality(A[key]) = Len(Recorded(h, key, k))
  BY <1>1, RecordedFits
<1>4. \A x : \A key \in Entries(x) : key # "::root" =>
        key = IF Escaped(x.path) \in OwnEntries(x.host) THEN Escaped(x.path) ELSE "::other"
  BY DEF Entries
<1>5. \A key, other \in S : key # other => A[key] \cap A[other] = {}
  <2> SUFFICES ASSUME NEW key \in S, NEW other \in S, NEW i \in RecordedAt(h, key, k),
                      i \in RecordedAt(h, other, k)
               PROVE  key = other
    OBVIOUS
  <2>1. key \in Entries(log[i]) /\ other \in Entries(log[i])
    BY DEF RecordedAt
  <2>2. key # "::root" /\ other # "::root"
    OBVIOUS
  <2>3. QED
    BY <1>4, <2>1, <2>2
<1>6. UNION {A[key] : key \in S} = RecordedAt(h, "::root", k)
  <2>1. \A x : "::root" \in Entries(x)
    BY DEF Entries
  <2>2. ASSUME NEW i \in RecordedAt(h, "::root", k)
        PROVE  \E key \in S : i \in RecordedAt(h, key, k)
    <3>1. PICK key : key = IF Escaped(log[i].path) \in OwnEntries(h)
                             THEN Escaped(log[i].path) ELSE "::other"
      OBVIOUS
    <3>2. i \in DOMAIN log /\ log[i].host = h /\ log[i].kind = k
      BY DEF RecordedAt
    <3>3. key \in Entries(log[i]) /\ key # "::root"
      BY <3>1, <3>2, EscapedIsOrdinary DEF Entries
    <3>4. key \in DOMAIN metrics[h]
      <4>1. DOMAIN metrics[h]
              = UNION {Entries(log[x]) : x \in {x \in DOMAIN log : log[x].host = h}}
        BY EntriesOfEvents
      <4>2. i \in {x \in DOMAIN log : log[x].host = h}
        BY <3>2
      <4>3. QED
        BY <3>3, <4>1, <4>2
    <3>5. QED
      BY <3>2, <3>3, <3>4 DEF RecordedAt
  <2>3. \A key \in S : RecordedAt(h, key, k) \subseteq RecordedAt(h, "::root", k)
    BY <2>1 DEF RecordedAt
  <2> HIDE DEF S
  <2>4. QED
    BY <2>2, <2>3
<1>7. SumFunction([key \in S |-> Cardinality(A[key])]) = Cardinality(UNION {A[key] : key \in S})
  <2>1. \A key \in S : IsFiniteSet(A[key])
    BY <1>3
  <2> HIDE DEF A, S
  <2>2. QED
    BY <1>2, <1>5, <2>1, SumOfDisjoint
<1>8. [key \in S |-> Cardinality(A[key])] = [key \in S |-> Len(Recorded(h, key, k))]
  <2> HIDE DEF A, S
  <2>1. QED
    BY <1>3
<1>9. Len(Recorded(h, "::root", k)) = Cardinality(RecordedAt(h, "::root", k))
  BY <1>1, RecordedFits
<1>10. QED
  BY <1>6, <1>7, <1>8, <1>9

\* Every event counts for its endpoint and for its host, for any number of
\* hosts, paths and endpoints (circuitbreaker.go:600-665).
THEOREM EventsAlwaysAccounted == MetricsSpec => []EventsAccounted
<1>1. MetricsInv => EventsAccounted
  <2> SUFFICES ASSUME MetricsInv, NEW h \in DOMAIN metrics
               PROVE  /\ DOMAIN metrics[h]
                           = UNION {Entries(log[i]) : i \in {x \in DOMAIN log : log[x].host = h}}
                      /\ \A key \in DOMAIN metrics[h] :
                           metrics[h][key].cancels = Len(Recorded(h, key, "cancel"))
                      /\ \A k \in Kinds :
                           /\ \A key \in DOMAIN metrics[h] :
                                Answer[h][key][k].total = Len(Recorded(h, key, k))
                           /\ Answer[h]["::root"][k].total =
                                SumFunction([key \in DOMAIN metrics[h] \ {"::root"} |->
                                               Answer[h][key][k].total])
    BY DEF EventsAccounted
  <2>1. log \in Seq(AllEvents)
    BY DEF MetricsInv
  <2>2. ASSUME NEW key \in DOMAIN metrics[h]
        PROVE  metrics[h][key].cancels = Len(Recorded(h, key, "cancel"))
    BY <2>1, AnswerIsState, RecordedFits DEF EndpointOK
  <2>3. ASSUME NEW key \in DOMAIN metrics[h], NEW k \in Kinds
        PROVE  Answer[h][key][k].total = Len(Recorded(h, key, k))
    <3>1. Answer[h][key][k].total = State(h, key).counts[k]
      BY AnswerIsState
    <3>2. QED
      BY <3>1, AnswerIsState DEF EndpointOK
  <2>4. ASSUME NEW k \in Kinds
        PROVE  Answer[h]["::root"][k].total =
                 SumFunction([key \in DOMAIN metrics[h] \ {"::root"} |-> Answer[h][key][k].total])
    <3>1. "::root" \in DOMAIN metrics[h]
      BY AnswerIsState DEF MetricsInv, RegistryOK
    <3>2. [key \in DOMAIN metrics[h] \ {"::root"} |-> Answer[h][key][k].total]
            = [key \in DOMAIN metrics[h] \ {"::root"} |-> Len(Recorded(h, key, k))]
      BY <2>3
    <3>3. QED
      BY <2>3, <3>1, <3>2, RootIsSum
  <2>5. QED
    BY <2>2, <2>3, <2>4, EntriesOfEvents
<1>2. QED
  BY <1>1, MetricsInvariant, PTL
=============================================================================
