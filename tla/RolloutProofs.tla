---------------------------- MODULE RolloutProofs ----------------------------
(***************************************************************************)
(* Proofs about Canary and Rollout, for every set of plans, outcomes of a  *)
(* request and thresholds and all limits: the status of a canary is earned *)
(* and its saved report judged rightly, and a verdict on two reports is    *)
(* the meaning of its thresholds.  And about ReportCompare, for any        *)
(* monitoring reports: the gate composes.                                  *)
(*                                                                         *)
(* The states are simple: a report is made in one step of what was         *)
(* recorded, and damaged in one.  What has to be shown is about numbers:   *)
(* that a summary of largest values and nearest ranks says of the requests *)
(* what the thresholds mean.  So the first sections are about sets of      *)
(* numbers and about distributions, and the invariant only carries the     *)
(* evidence a report was made of.                                          *)
(***************************************************************************)
EXTENDS Rollout, FiniteSetTheorems, SequenceTheorems, TLAPS

-----------------------------------------------------------------------------
(* Numbers.                                                                *)

\* A set that has 0, and with each number its successor, has every natural
\* number: else the map to the successor would put n numbers into n - 1 places.
LEMMA SetInduction ==
  ASSUME NEW S, 0 \in S, \A n \in Nat : n \in S => n + 1 \in S
  PROVE  Nat \subseteq S
<1> SUFFICES ASSUME NEW m \in Nat, m \notin S
             PROVE  FALSE
  OBVIOUS
<1> DEFINE T == {x \in 0..m : x \in S}
           f == [x \in T |-> x + 1]
<1>1. IsFiniteSet(T)
  BY FS_Interval, FS_Subset, 0 \in Int, m \in Int
<1>2. 0 \in T
  OBVIOUS
<1>3. IsFiniteSet(T \ {0}) /\ Cardinality(T \ {0}) = Cardinality(T) - 1
  BY <1>1, <1>2, FS_RemoveElement
<1>4. Cardinality(T) \in Nat
  BY <1>1, FS_CardinalityType
<1>5. f \in [T -> T \ {0}]
  <2> SUFFICES ASSUME NEW x \in T
               PROVE  x + 1 \in T \ {0}
    OBVIOUS
  <2> QED BY x # m
<1>6. \E x, y \in T : x # y /\ f[x] = f[y]
  <2> HIDE DEF T, f
  <2> QED BY <1>1, <1>3, <1>4, <1>5, FS_PigeonHole
<1> QED BY <1>6

\* A non-empty bounded set of numbers has a largest one, and Max is it.
LEMMA LargestOf ==
  ASSUME NEW n \in Nat, NEW T \in SUBSET (0..n), T # {}
  PROVE  Max(T) \in T /\ \A x \in T : x <= Max(T)
<1> DEFINE S == {k \in Nat : k <= n /\ (\E x \in T : x >= n - k)
                               => \E x \in T : \A y \in T : y <= x}
<1>1. 0 \in S
  OBVIOUS
<1>2. ASSUME NEW k \in Nat, k \in S
      PROVE  k + 1 \in S
  <2>0. k <= n /\ (\E x \in T : x >= n - k) => \E x \in T : \A y \in T : y <= x
    BY <1>2
  <2>1. ASSUME k + 1 <= n, NEW z \in T, z >= n - (k + 1)
        PROVE  \E x \in T : \A y \in T : y <= x
    <3>1. CASE \E x \in T : x >= n - k
      BY <3>1, <2>0, <2>1
    <3>2. CASE ~ \E x \in T : x >= n - k
      <4>1. \A y \in T : y <= z
        BY <3>2, <2>1
      <4> QED BY <4>1
    <3> QED BY <3>1, <3>2
  <2> QED BY <2>0, <2>1
<1>3. n \in S
  <2> HIDE DEF S
  <2> QED BY <1>1, <1>2, SetInduction
<1>4. \E x \in T : \A y \in T : y <= x
  <2>1. PICK x \in T : x \in 0..n
    OBVIOUS
  <2>2. n - n = 0 /\ n <= n
    OBVIOUS
  <2> QED BY <1>3, <2>1, <2>2
<1> QED BY <1>4 DEF Max

\* A non-empty set of natural numbers has a smallest one, and Min is it.
LEMMA SmallestOf ==
  ASSUME NEW T \in SUBSET Nat, T # {}
  PROVE  Min(T) \in T /\ \A x \in T : Min(T) <= x
<1> DEFINE S == {k \in Nat : (\E x \in T : x <= k) => \E x \in T : \A y \in T : x <= y}
<1>1. 0 \in S
  OBVIOUS
<1>2. ASSUME NEW k \in Nat, k \in S
      PROVE  k + 1 \in S
  <2>0. (\E x \in T : x <= k) => \E x \in T : \A y \in T : x <= y
    BY <1>2
  <2>1. ASSUME NEW z \in T, z <= k + 1
        PROVE  \E x \in T : \A y \in T : x <= y
    <3>1. CASE \E x \in T : x <= k
      BY <3>1, <2>0
    <3>2. CASE ~ \E x \in T : x <= k
      <4>1. \A y \in T : z <= y
        BY <3>2, <2>1
      <4> QED BY <4>1
    <3> QED BY <3>1, <3>2
  <2> QED BY <2>1
<1>3. Nat \subseteq S
  <2> HIDE DEF S
  <2> QED BY <1>1, <1>2, SetInduction
<1>4. \E x \in T : \A y \in T : x <= y
  <2>1. PICK x \in T : x \in Nat
    OBVIOUS
  <2>2. x <= x
    BY <2>1
  <2> QED BY <1>3, <2>1, <2>2
<1> QED BY <1>4 DEF Min

\* A rounded quotient is reached by the number whose multiple reaches the dividend.
LEMMA CeilDivFacts ==
  ASSUME NEW a \in Nat, NEW k \in Nat
  PROVE  CeilDiv(a, 100) \in Nat /\ (k >= CeilDiv(a, 100) <=> 100 * k >= a)
BY DEF CeilDiv

\* Products keep the order.
LEMMA TimesMonotone ==
  ASSUME NEW x \in Nat, NEW y \in Nat, NEW z \in Nat, x <= y
  PROVE  x * z <= y * z /\ x * z \in Nat
<1>1. PICK d \in Nat : y = x + d
  <2>1. y - x \in Nat /\ y = x + (y - x)
    OBVIOUS
  <2> QED BY <2>1
<1>2. y * z = x * z + d * z /\ x * z \in Nat /\ d * z \in Nat
  BY <1>1
<1> QED BY <1>2

\* Numbers by the indexes of a finite range are bounded.
LEMMA ValuesBounded ==
  ASSUME NEW n \in Nat, NEW D \in SUBSET (1..n), NEW v \in [D -> Nat]
  PROVE  \E b \in Nat : \A i \in D : v[i] <= b
<1> DEFINE S == {k \in Nat : \E b \in Nat : \A i \in D : i <= k => v[i] <= b}
<1>1. 0 \in S
  <2>1. \A i \in D : ~(i <= 0)
    OBVIOUS
  <2> QED BY <2>1
<1>2. ASSUME NEW k \in Nat, k \in S
      PROVE  k + 1 \in S
  <2>1. PICK b \in Nat : \A i \in D : i <= k => v[i] <= b
    BY <1>2
  <2>2. PICK c \in Nat : b <= c /\ (k + 1 \in D => v[k + 1] <= c)
    <3>1. CASE k + 1 \in D
      <4>1. PICK x \in Nat : x = v[k + 1]
        BY <3>1
      <4> QED BY <4>1, b <= b + x, x <= b + x, b + x \in Nat
    <3>2. CASE k + 1 \notin D
      BY <3>2, b <= b
    <3> QED BY <3>1, <3>2
  <2>3. ASSUME NEW i \in D, i <= k + 1
        PROVE  v[i] <= c
    <3>1. CASE i = k + 1
      BY <3>1, <2>2
    <3>2. CASE i <= k
      <4>1. v[i] \in Nat /\ v[i] <= b
        BY <3>2, <2>1
      <4> QED BY <4>1, <2>2
    <3> QED BY <2>3, <3>1, <3>2
  <2> QED BY <2>3
<1>3. n \in S
  <2> HIDE DEF S
  <2> QED BY <1>1, <1>2, SetInduction
<1>4. \A i \in D : i <= n
  OBVIOUS
<1> QED BY <1>3, <1>4

-----------------------------------------------------------------------------
(* Distributions.                                                          *)

\* The indexes of the values up to one.
UpTo(v, x) == {i \in DOMAIN v : v[i] <= x}

\* What is known of the values a distribution is of: there are some, they are
\* finitely many numbers, and so their range has a smallest and a largest.
LEMMA RangeFacts ==
  ASSUME NEW n \in Nat, NEW D \in SUBSET (1..n), D # {}, NEW v \in [D -> Nat]
  PROVE  /\ IsFiniteSet(D) /\ Cardinality(D) \in Nat \ {0}
         /\ \A T \in SUBSET D : IsFiniteSet(T) /\ Cardinality(T) \in 0..Cardinality(D)
         /\ Max(Range(v)) \in Nat /\ \A i \in D : v[i] <= Max(Range(v))
         /\ Min(Range(v)) \in Nat /\ \A i \in D : Min(Range(v)) <= v[i]
         /\ \E i \in D : v[i] = Max(Range(v))
         /\ \E i \in D : v[i] = Min(Range(v))
<1>1. IsFiniteSet(D)
  <2>1. IsFiniteSet(1..n)
    BY FS_Interval, 1 \in Int, n \in Int
  <2> QED BY <2>1, FS_Subset
<1>2. Cardinality(D) \in Nat \ {0}
  <2>1. Cardinality(D) \in Nat /\ (Cardinality(D) = 0 <=> D = {})
    BY <1>1, FS_CardinalityType, FS_EmptySet
  <2> QED BY <2>1
<1>3. ASSUME NEW T \in SUBSET D
      PROVE  IsFiniteSet(T) /\ Cardinality(T) \in 0..Cardinality(D)
  <2>1. IsFiniteSet(T) /\ Cardinality(T) <= Cardinality(D)
    BY <1>1, FS_Subset
  <2>2. Cardinality(T) \in Nat
    BY <2>1, FS_CardinalityType
  <2> QED BY <1>2, <2>1, <2>2
<1>4. PICK b \in Nat : \A i \in D : v[i] <= b
  BY ValuesBounded
<1>5. Range(v) = {v[i] : i \in D}
  BY DEF Range
<1>6. Range(v) \in SUBSET (0..b) /\ Range(v) # {} /\ Range(v) \in SUBSET Nat
  <2>1. \A i \in D : v[i] \in Nat /\ v[i] \in 0..b
    BY <1>4
  <2> QED BY <1>5, <2>1
<1>7. Max(Range(v)) \in Range(v) /\ \A x \in Range(v) : x <= Max(Range(v))
  BY <1>6, LargestOf
<1>8. Min(Range(v)) \in Range(v) /\ \A x \in Range(v) : Min(Range(v)) <= x
  BY <1>6, SmallestOf
<1> QED BY <1>1, <1>2, <1>3, <1>5, <1>6, <1>7, <1>8

\* A nearest rank is the smallest of the values up to which the percentage lies.
LEMMA RankFacts ==
  ASSUME NEW n \in Nat, NEW D \in SUBSET (1..n), D # {}, NEW v \in [D -> Nat],
         NEW percent \in 1..100
  PROVE  LET x == NearestRank(v, percent)
         IN  /\ x \in Nat /\ \E i \in D : v[i] = x
             /\ Most(UpTo(v, x), Cardinality(D), percent)
             /\ \A i \in D : Most(UpTo(v, v[i]), Cardinality(D), percent) => x <= v[i]
<1> DEFINE N == Cardinality(D)
           rank == CeilDiv(percent * N, 100)
           T == {x \in Range(v) : Cardinality(UpTo(v, x)) >= rank}
<1>1. N \in Nat \ {0} /\ \A U \in SUBSET D : Cardinality(U) \in 0..N
  BY RangeFacts
<1>2. percent * N \in Nat
  BY <1>1
<1>3. \A x : Cardinality(UpTo(v, x)) >= rank <=> Most(UpTo(v, x), N, percent)
  <2> TAKE x
  <2>1. UpTo(v, x) \in SUBSET D
    BY DEF UpTo
  <2>2. Cardinality(UpTo(v, x)) \in Nat
    BY <1>1, <2>1
  <2> HIDE DEF N
  <2> QED BY <1>2, <2>2, CeilDivFacts DEF Most
<1>4. NearestRank(v, percent) = Min(T)
  BY DEF NearestRank, UpTo
<1>5. Range(v) = {v[i] : i \in D} /\ Range(v) \subseteq Nat
  BY DEF Range
<1>6. T # {}
  <2>1. PICK i \in D : \A j \in D : v[j] <= v[i]
    <3>1. PICK k \in D : v[k] = Max(Range(v))
      BY RangeFacts
    <3>2. \A j \in D : v[j] <= Max(Range(v))
      BY RangeFacts
    <3> QED BY <3>1, <3>2
  <2>2. UpTo(v, v[i]) = D
    BY <2>1 DEF UpTo
  <2>3. Most(UpTo(v, v[i]), N, percent)
    <3>1. percent * N <= 100 * N
      BY <1>1, TimesMonotone
    <3> QED BY <2>2, <3>1 DEF Most
  <2> QED BY <1>3, <1>5, <2>3
<1>7. T \in SUBSET Nat
  BY <1>5
<1>8. Min(T) \in T /\ \A x \in T : Min(T) <= x
  <2> HIDE DEF T
  <2> QED BY <1>6, <1>7, SmallestOf
<1>9. ASSUME NEW i \in D, Most(UpTo(v, v[i]), N, percent)
      PROVE  Min(T) <= v[i]
  <2>1. v[i] \in T
    BY <1>3, <1>5, <1>9
  <2> QED BY <1>8, <2>1
<1>10. \E i \in D : v[i] = Min(T)
  BY <1>5, <1>8
<1>11. Most(UpTo(v, Min(T)), N, percent) /\ Min(T) \in Nat
  BY <1>3, <1>7, <1>8
<1> HIDE DEF T, N
<1> QED BY <1>4, <1>9, <1>10, <1>11 DEF N

-----------------------------------------------------------------------------
(* The evidence of a batch.                                                *)

\* The attempts of a batch of n requests.
Attempted(s, n) == n \in Nat \ {0} /\ s \in [1..n -> Outcomes] /\ Len(s) = n
Fields == {"ttft", "e2e", "rate"}
Shown(s, f) == \A i \in Successes(s) : s[i][f] # None
ByIndex(s, f) == [i \in Successes(s) |-> s[i][f]]

\* What an outcome is.
LEMMA OutcomeFacts ==
  ASSUME CanaryAssumption, NEW a \in Outcomes
  PROVE  /\ \A f \in Fields : a[f] \in Nat \cup {None}
         /\ Consistent(a)
         /\ IF Completed(a) THEN a.e2e # None /\ ~a.cut ELSE Discarded(a)
<1>1. PICK F, M : /\ M = Nat \cup {None}
                  /\ a \in [failure : F, ttft : M, e2e : M, tokens : M, rate : M, cut : BOOLEAN]
  BY DEF CanaryAssumption
<1>2. /\ Consistent(a)
      /\ IF Completed(a) THEN a.e2e # None /\ ~a.cut ELSE Discarded(a)
  BY DEF CanaryAssumption
<1>3. a.ttft \in M /\ a.e2e \in M /\ a.rate \in M
  BY <1>1
<1> QED BY <1>1, <1>2, <1>3 DEF Fields

\* A distribution is complete when there are successes and all of them have the
\* measurement, and then it is that of the measurements of the successes.
LEMMA CompleteFacts ==
  ASSUME CanaryAssumption, NEW s, NEW n, Attempted(s, n), NEW f \in Fields
  PROVE  LET d == Distribution(Values(s, f))
             ok == Successes(s)
             v == ByIndex(s, f)
         IN  /\ IsFiniteSet(ok) /\ Cardinality(ok) \in 0..n /\ ok \in SUBSET (1..n)
             /\ ok = {} <=> Cardinality(ok) = 0
             /\ Complete(d, Cardinality(ok)) <=> ok # {} /\ Shown(s, f)
             /\ Complete(d, Cardinality(ok)) =>
                  /\ v \in [ok -> Nat] /\ d.samples = Cardinality(ok)
                  /\ d.max = Max(Range(v)) /\ d.min = Min(Range(v))
                  /\ d.p50 = NearestRank(v, 50) /\ d.p95 = NearestRank(v, 95)
<1> DEFINE d == Distribution(Values(s, f))
           ok == Successes(s)
           v == ByIndex(s, f)
           V == Values(s, f)
           D == {j \in ok : s[j][f] # None}
<1>1. n \in Nat \ {0} /\ DOMAIN s = 1..n /\ \A i \in 1..n : s[i] \in Outcomes
  BY DEF Attempted
<1>2. ok \in SUBSET (1..n) /\ D \in SUBSET ok /\ DOMAIN V = D
  BY <1>1 DEF Successes, Values
<1>3. IsFiniteSet(ok) /\ Cardinality(ok) \in 0..n
  <2>1. IsFiniteSet(1..n) /\ Cardinality(1..n) = n
    BY SMTT(30), <1>1, FS_Interval, 1 \in Int, n \in Int
  <2>2. IsFiniteSet(ok) /\ Cardinality(ok) <= n
    <3>1. ok \in SUBSET (1..n)
      BY <1>2
    <3>2. IsFiniteSet(ok) /\ Cardinality(ok) <= Cardinality(1..n)
      BY <2>1, <3>1, FS_Subset
    <3> QED BY <2>1, <3>2
  <2>3. Cardinality(ok) \in Nat
    BY <2>2, FS_CardinalityType
  <2> QED BY <1>1, <2>2, <2>3
<1>4. ok = {} <=> Cardinality(ok) = 0
  BY <1>3, FS_EmptySet
<1>5. /\ IsFiniteSet(D) /\ Cardinality(D) \in Nat
      /\ Cardinality(D) = Cardinality(ok) => D = ok
      /\ Cardinality(D) = 0 <=> D = {}
  BY <1>2, <1>3, FS_Subset, FS_CardinalityType, FS_EmptySet
<1>6. d.samples = Cardinality(D)
  <2>1. CASE D = {}
    BY <1>2, <1>5, <2>1 DEF Distribution
  <2>2. CASE D # {}
    BY <1>2, <2>2 DEF Distribution
  <2> QED BY <2>1, <2>2
<1>7. Shown(s, f) <=> D = ok
  BY DEF Shown
<1>8. Complete(d, Cardinality(ok)) <=> ok # {} /\ Shown(s, f)
  <2> HIDE DEF d, D, ok
  <2>1. Complete(d, Cardinality(ok)) <=> Cardinality(D) > 0 /\ Cardinality(D) = Cardinality(ok)
    BY <1>6 DEF Complete
  <2> QED BY <2>1, <1>4, <1>5, <1>7
<1>9. ASSUME ok # {}, Shown(s, f)
      PROVE  /\ v \in [ok -> Nat] /\ d.samples = Cardinality(ok)
             /\ d.max = Max(Range(v)) /\ d.min = Min(Range(v))
             /\ d.p50 = NearestRank(v, 50) /\ d.p95 = NearestRank(v, 95)
  <2>1. D = ok
    BY <1>7, <1>9
  <2>2. V = v
    BY <2>1 DEF Values, ByIndex
  <2>3. v \in [ok -> Nat]
    <3>1. \A i \in ok : s[i][f] \in Nat
      <4> TAKE i \in ok
      <4>1. s[i] \in Outcomes
        BY <1>1, <1>2
      <4>2. s[i][f] \in Nat \cup {None}
        BY <4>1, OutcomeFacts
      <4> QED BY <4>2, <1>9 DEF Shown
    <3> QED BY <3>1 DEF ByIndex
  <2>4. d.max = Max(Range(V)) /\ d.min = Min(Range(V))
        /\ d.p50 = NearestRank(V, 50) /\ d.p95 = NearestRank(V, 95)
    BY <1>2, <1>9, <2>1 DEF Distribution
  <2> QED BY <1>6, <2>1, <2>2, <2>3, <2>4
<1> HIDE DEF d, ok, v
<1> QED BY <1>2, <1>3, <1>4, <1>8, <1>9 DEF d, ok, v

\* A summary by its fields.
LEMMA SummaryFacts ==
  ASSUME NEW s, NEW pace
  PROVE  LET sum == Summary(s, pace)
         IN  /\ sum.attempted = Len(s) /\ sum.pace = pace /\ sum.exact = TRUE
             /\ sum.succeeded = Cardinality(Successes(s))
             /\ \A f \in Fields : sum[f] = Distribution(Values(s, f))
<1> DEFINE sum == Summary(s, pace)
<1>1. /\ sum.attempted = Len(s) /\ sum.pace = pace /\ sum.exact = TRUE
      /\ sum.succeeded = Cardinality(Successes(s))
      /\ sum.ttft = Distribution(Values(s, "ttft"))
      /\ sum.e2e = Distribution(Values(s, "e2e"))
      /\ sum.rate = Distribution(Values(s, "rate"))
  BY DEF Summary
<1> HIDE DEF sum
<1>2. \A f \in Fields : sum[f] = Distribution(Values(s, f))
  BY <1>1 DEF Fields
<1> QED BY <1>1, <1>2 DEF sum

\* The largest value of a complete distribution is within a limit when all
\* measurements are, the smallest reaches one when all do.
LEMMA LimitFacts ==
  ASSUME CanaryAssumption, NEW s, NEW n, Attempted(s, n), NEW f \in Fields, NEW t \in Nat
  PROVE  LET d == Distribution(Values(s, f))
             ok == Successes(s)
             k == Cardinality(ok)
         IN  ok # {} =>
               /\ MaximumGate(d, k, t) <=> Shown(s, f) /\ \A i \in ok : s[i][f] <= t
               /\ Complete(d, k) /\ d.min >= t <=> Shown(s, f) /\ \A i \in ok : s[i][f] >= t
<1> DEFINE d == Distribution(Values(s, f))
           ok == Successes(s)
           k == Cardinality(ok)
           v == ByIndex(s, f)
<1> SUFFICES ASSUME ok # {}
             PROVE  /\ MaximumGate(d, k, t) <=> Shown(s, f) /\ \A i \in ok : s[i][f] <= t
                    /\ Complete(d, k) /\ d.min >= t
                         <=> Shown(s, f) /\ \A i \in ok : s[i][f] >= t
  OBVIOUS
<1>1. /\ ok \in SUBSET (1..n) /\ n \in Nat
      /\ Complete(d, k) <=> Shown(s, f)
      /\ Complete(d, k) => /\ v \in [ok -> Nat]
                           /\ d.max = Max(Range(v)) /\ d.min = Min(Range(v))
  BY CompleteFacts DEF Attempted
<1>2. \A i \in ok : v[i] = s[i][f]
  BY DEF ByIndex
<1> HIDE DEF d, ok, k, v
<1>3. CASE ~Complete(d, k)
  BY <1>1, <1>3 DEF MaximumGate
<1>4. CASE Complete(d, k)
  <2>1. /\ Max(Range(v)) \in Nat /\ \A i \in ok : v[i] <= Max(Range(v))
        /\ Min(Range(v)) \in Nat /\ \A i \in ok : Min(Range(v)) <= v[i]
        /\ \E i \in ok : v[i] = Max(Range(v))
        /\ \E i \in ok : v[i] = Min(Range(v))
    BY <1>1, <1>4, RangeFacts
  <2>2. \A i \in ok : v[i] \in Nat
    BY <1>1, <1>4
  <2>3. d.max <= t <=> \A i \in ok : v[i] <= t
    BY <1>1, <1>4, <2>1, <2>2
  <2>4. d.min >= t <=> \A i \in ok : v[i] >= t
    BY <1>1, <1>4, <2>1, <2>2
  <2> QED BY <1>1, <1>2, <1>4, <2>3, <2>4 DEF MaximumGate
<1> QED BY <1>3, <1>4

\* A policy's thresholds.
LEMMA PolicyFacts ==
  ASSUME CanaryAssumption, NEW p \in Policies, ValidPolicy(p)
  PROVE  /\ p.minSuccess \in Nat /\ p.minSuccess # None
         /\ {p.maxTtft, p.maxE2e, p.minRate} \subseteq Nat \cup {None}
         /\ p # None /\ 1 # None /\ 0 # None
<1>1. p.minSuccess # None
  BY DEF ValidPolicy
<1>2. None \notin Nat /\ None \notin Policies
  BY DEF CanaryAssumption
<1> QED BY <1>1, <1>2 DEF Policies

\* The meaning of passing, for attempts and a policy.
Earned(s, p) ==
  LET ok == Successes(s)
  IN  /\ ok # {} /\ 100 * Cardinality(ok) >= p.minSuccess * Len(s)
      /\ p.maxTtft # None => Shown(s, "ttft") /\ \A i \in ok : s[i].ttft <= p.maxTtft
      /\ p.maxE2e # None => Shown(s, "e2e") /\ \A i \in ok : s[i].e2e <= p.maxE2e
      /\ p.minRate # None => Shown(s, "rate") /\ \A i \in ok : s[i].rate >= p.minRate

\* The selected gates all pass when the status is earned.
LEMMA StatusFacts ==
  ASSUME CanaryAssumption, NEW s, NEW n, Attempted(s, n), NEW pace,
         NEW p \in Policies, ValidPolicy(p)
  PROVE  LET gates == Gates(Summary(s, pace), p)
         IN  /\ "percent" \in DOMAIN gates /\ gates["percent"].threshold = p.minSuccess
             /\ Status(gates) \in {"pass", "fail"}
             /\ Status(gates) = "pass" <=> Earned(s, p)
<1> DEFINE sum == Summary(s, pace)
           gates == Gates(sum, p)
           ok == Successes(s)
           k == Cardinality(ok)
           ttft == MaximumGate(sum.ttft, k, p.maxTtft)
           e2e == MaximumGate(sum.e2e, k, p.maxE2e)
           rate == Complete(sum.rate, k) /\ sum.rate.min >= p.minRate
<1>1. /\ sum.attempted = Len(s) /\ sum.succeeded = k
      /\ sum.ttft = Distribution(Values(s, "ttft"))
      /\ sum.e2e = Distribution(Values(s, "e2e"))
      /\ sum.rate = Distribution(Values(s, "rate"))
  BY SummaryFacts DEF Fields
<1>2. /\ p.minSuccess \in Nat /\ p.minSuccess # None /\ 1 # None
      /\ {p.maxTtft, p.maxE2e, p.minRate} \subseteq Nat \cup {None}
  BY PolicyFacts
<1>3. ok = {} <=> k = 0
  BY CompleteFacts DEF Fields
<1>4. k \in Nat
  <2>1. "ttft" \in Fields /\ n \in Nat
    BY DEF Fields, Attempted
  <2>2. k \in 0..n
    BY <2>1, CompleteFacts
  <2> QED BY <2>1, <2>2
<1>5. /\ "successful" \in DOMAIN gates /\ "percent" \in DOMAIN gates
      /\ "ttft" \in DOMAIN gates <=> p.maxTtft # None
      /\ "e2e" \in DOMAIN gates <=> p.maxE2e # None
      /\ "rate" \in DOMAIN gates <=> p.minRate # None
      /\ DOMAIN gates \subseteq {"successful", "percent", "ttft", "e2e", "rate"}
  BY <1>2 DEF Gates
<1>6. /\ gates["percent"].threshold = p.minSuccess
      /\ gates["successful"].passed <=> k > 0
      /\ gates["percent"].passed <=> 100 * k >= p.minSuccess * Len(s)
  BY <1>1, <1>5 DEF Gates
<1>7. /\ "ttft" \in DOMAIN gates => (gates["ttft"].passed <=> ttft)
      /\ "e2e" \in DOMAIN gates => (gates["e2e"].passed <=> e2e)
      /\ "rate" \in DOMAIN gates => (gates["rate"].passed <=> rate)
  BY <1>1 DEF Gates
<1>8. ASSUME ok # {}
      PROVE  /\ p.maxTtft # None =>
                  (ttft <=> Shown(s, "ttft") /\ \A i \in ok : s[i].ttft <= p.maxTtft)
             /\ p.maxE2e # None =>
                  (e2e <=> Shown(s, "e2e") /\ \A i \in ok : s[i].e2e <= p.maxE2e)
             /\ p.minRate # None =>
                  (rate <=> Shown(s, "rate") /\ \A i \in ok : s[i].rate >= p.minRate)
  <2>1. ASSUME p.maxTtft # None
        PROVE  ttft <=> Shown(s, "ttft") /\ \A i \in ok : s[i]["ttft"] <= p.maxTtft
    <3>1. p.maxTtft \in Nat /\ "ttft" \in Fields
      BY <1>2, <2>1 DEF Fields
    <3>2. MaximumGate(Distribution(Values(s, "ttft")), k, p.maxTtft)
            <=> Shown(s, "ttft") /\ \A i \in ok : s[i]["ttft"] <= p.maxTtft
      BY <1>8, <3>1, LimitFacts
    <3> QED BY <1>1, <3>2
  <2>2. ASSUME p.maxE2e # None
        PROVE  e2e <=> Shown(s, "e2e") /\ \A i \in ok : s[i]["e2e"] <= p.maxE2e
    <3>1. p.maxE2e \in Nat /\ "e2e" \in Fields
      BY <1>2, <2>2 DEF Fields
    <3>2. MaximumGate(Distribution(Values(s, "e2e")), k, p.maxE2e)
            <=> Shown(s, "e2e") /\ \A i \in ok : s[i]["e2e"] <= p.maxE2e
      BY <1>8, <3>1, LimitFacts
    <3> QED BY <1>1, <3>2
  <2>3. ASSUME p.minRate # None
        PROVE  rate <=> Shown(s, "rate") /\ \A i \in ok : s[i]["rate"] >= p.minRate
    <3>1. p.minRate \in Nat /\ "rate" \in Fields
      BY <1>2, <2>3 DEF Fields
    <3>2. (Complete(Distribution(Values(s, "rate")), k)
             /\ Distribution(Values(s, "rate")).min >= p.minRate)
            <=> Shown(s, "rate") /\ \A i \in ok : s[i]["rate"] >= p.minRate
      BY <1>8, <3>1, LimitFacts
    <3> QED BY <1>1, <3>2
  <2> QED BY <2>1, <2>2, <2>3
<1> HIDE DEF gates, ok, k, ttft, e2e, rate
<1>9. (\A g \in DOMAIN gates : gates[g].passed)
        <=> /\ gates["successful"].passed /\ gates["percent"].passed
            /\ p.maxTtft # None => gates["ttft"].passed
            /\ p.maxE2e # None => gates["e2e"].passed
            /\ p.minRate # None => gates["rate"].passed
  BY <1>5
<1>10. (\A g \in DOMAIN gates : gates[g].passed) <=> Earned(s, p)
  <2>1. k > 0 <=> ok # {}
    BY <1>3, <1>4
  <2> QED BY <1>5, <1>6, <1>7, <1>8, <1>9, <2>1 DEF Earned, ok, k
<1> QED BY <1>5, <1>6, <1>10 DEF Status, gates

-----------------------------------------------------------------------------
(* The saved report.                                                       *)

\* A batch was run for the options that were admitted.
Ran ==
  /\ options \in Options /\ Valid(options) /\ duration \in Nat /\ started \in {0, 1}
  /\ Attempted(attempts, options.count)
  /\ \A i \in 1..options.count : Possible(attempts[i])

\* The report that is made of it.
Written ==
  LET sum == Summary(attempts, duration)
      gates == Gates(sum, options.policy)
  IN  [version |-> 2, started |-> started, duration |-> FloorMs(duration),
       status |-> Status(gates), workload |-> options.workload,
       target |-> options.target, stream |-> options.stream,
       plan |-> Plan(options), policy |-> options.policy,
       summary |-> sum, gates |-> gates, attempts |-> attempts]
Read == ReadBack(Written)

\* What admission has made sure of.
LEMMA OptionFacts ==
  ASSUME CanaryAssumption, Ran
  PROVE  /\ {options.count, options.concurrency, options.maxTokens, options.timeout} \subseteq Nat
         /\ options.count > 0 /\ options.concurrency > 0
         /\ options.policy \in Policies /\ ValidPolicy(options.policy)
         /\ options.stream \in BOOLEAN /\ (~options.stream => ~StreamOnly(options.policy))
         /\ TicksPerMs \in Nat \ {0} /\ {MaxTimeout, MaxPlanned} \subseteq Nat
<1>1. /\ {options.count, options.concurrency, options.maxTokens, options.timeout} \subseteq Nat
      /\ options.policy \in Policies /\ options.stream \in BOOLEAN
  BY DEF Ran, CanaryAssumption, OptionsAssumption
<1>2. /\ 1 <= options.count /\ 1 <= options.concurrency /\ ValidPolicy(options.policy)
      /\ ~options.stream => ~StreamOnly(options.policy)
  BY DEF Ran, Valid, Within
<1>3. TicksPerMs \in Nat \ {0} /\ {MaxTimeout, MaxPlanned} \subseteq Nat
  BY DEF CanaryAssumption
<1> QED BY <1>1, <1>2, <1>3

\* A time in ticks lies between the whole milliseconds below and above it.
LEMMA FloorFacts ==
  ASSUME NEW T \in Nat \ {0}, NEW x \in Nat
  PROVE  /\ x \div T \in Nat
         /\ (x \div T) * T <= x /\ x < (x \div T) * T + T
         /\ (x \div T + 1) * T = (x \div T) * T + T /\ (x \div T) * T \in Nat
<1>1. /\ x \div T \in Nat
      /\ (x \div T) * T <= x /\ x < (x \div T) * T + T
  OBVIOUS
<1>2. PICK q \in Nat : q = x \div T
  BY <1>1
<1>3. q * T \in Nat /\ (q + 1) * T = q * T + T
  BY <1>2
<1> QED BY <1>1, <1>2, <1>3

\* A timeout within the limit in ticks is within it in milliseconds.
LEMMA CeilFacts ==
  ASSUME NEW T \in Nat \ {0}, NEW x \in Nat \ {0}, NEW m \in Nat, x <= m * T
  PROVE  CeilDiv(x, T) \in 1..m
<1>1. /\ (x + T - 1) \div T \in Nat
      /\ ((x + T - 1) \div T) * T <= x + T - 1
      /\ x + T - 1 < ((x + T - 1) \div T) * T + T
  <2>1. x + T - 1 \in Nat
    OBVIOUS
  <2> QED BY <2>1, FloorFacts
<1>2. PICK q \in Nat : q = (x + T - 1) \div T
  BY <1>1
<1>3. q * T <= x + T - 1 /\ x + T - 1 < q * T + T /\ q * T \in Nat
  BY <1>1, <1>2
<1>4. q # 0
  <2> SUFFICES ASSUME q = 0
               PROVE  FALSE
    OBVIOUS
  <2>1. q * T = 0
    BY <1>2
  <2> QED BY <1>3, <2>1
<1>5. q <= m
  <2> SUFFICES ASSUME m + 1 <= q
               PROVE  FALSE
    BY <1>2
  <2>1. (m + 1) * T <= q * T
    BY <1>2, TimesMonotone
  <2>2. (m + 1) * T = m * T + T /\ m * T \in Nat
    OBVIOUS
  <2> QED BY <1>3, <2>1, <2>2
<1> QED BY <1>2, <1>4, <1>5 DEF CeilDiv

\* The rounded plan keeps every limit, the wall time if rounding does not exceed it.
LEMMA PlanFacts ==
  ASSUME CanaryAssumption, Ran
  PROVE  PlanCanonical(Plan(options)) <=> ~RoundedOver(options)
<1> DEFINE plan == Plan(options)
<1>1. /\ plan.count = options.count /\ plan.concurrency = options.concurrency
      /\ plan.maxTokens = options.maxTokens /\ plan.timeout = CeilMs(options.timeout)
  BY DEF Plan
<1>2. /\ options.timeout \in Nat /\ TicksPerMs \in Nat \ {0} /\ MaxTimeout \in Nat
      /\ {options.count, options.concurrency, MaxPlanned} \subseteq Nat /\ options.concurrency > 0
  BY OptionFacts
<1>3. /\ Within(options.maxTokens, 1, MaxTokens) /\ Within(options.count, 1, MaxCount)
      /\ Within(options.concurrency, 1, Min({options.count, MaxConcurrency}))
      /\ options.count * options.maxTokens <= MaxRequested
      /\ 1 <= options.timeout /\ options.timeout <= MaxTimeout * TicksPerMs
  BY DEF Ran, Valid, Within
<1>4. CeilMs(options.timeout) \in 1..MaxTimeout
  <2>1. options.timeout \in Nat \ {0}
    BY <1>2, <1>3
  <2> QED BY <1>2, <1>3, <2>1, CeilFacts DEF CeilMs
<1>5. Within(plan.timeout, 1, MaxTimeout)
  BY <1>1, <1>4 DEF Within
<1>6. CeilDiv(plan.count, plan.concurrency) * plan.timeout <= MaxPlanned
        <=> ~RoundedOver(options)
  <2>1. Waves(options) \in Nat
    <3>1. PICK a \in Nat, b \in Nat \ {0} : a = options.count /\ b = options.concurrency
      BY <1>2
    <3>2. (a + b - 1) \div b \in Nat
      <4>1. a + b - 1 \in Nat
        BY <3>1
      <4> QED BY <3>1, <4>1, FloorFacts
    <3> QED BY <3>1, <3>2 DEF Waves, CeilDiv
  <2>2. Waves(options) * CeilMs(options.timeout) \in Nat
    <3>1. PICK w \in Nat, t \in Nat : w = Waves(options) /\ t = CeilMs(options.timeout)
      BY <1>4, <2>1
    <3>2. w * t \in Nat
      OBVIOUS
    <3> QED BY <3>1, <3>2
  <2>3. CeilDiv(plan.count, plan.concurrency) * plan.timeout
          = Waves(options) * CeilMs(options.timeout)
    BY <1>1 DEF Waves
  <2> DEFINE x == Waves(options) * CeilMs(options.timeout)
  <2>4. x <= MaxPlanned <=> ~(x > MaxPlanned)
    <3>1. x \in Nat /\ MaxPlanned \in Nat
      BY <1>2, <2>2
    <3> HIDE DEF x
    <3> QED BY <3>1
  <2> QED BY <2>3, <2>4 DEF RoundedOver
<1> HIDE DEF plan
<1>7. PlanCanonical(plan) <=> CeilDiv(plan.count, plan.concurrency) * plan.timeout <= MaxPlanned
  BY <1>1, <1>3, <1>5 DEF PlanCanonical
<1> QED BY <1>6, <1>7 DEF plan

\* The rules accept each recorded attempt whose response did not break off.
LEMMA AttemptFacts ==
  ASSUME CanaryAssumption, NEW a \in Outcomes, Possible(a), options.stream \in BOOLEAN
  PROVE  AttemptCanonical(a, options.stream, options.policy.expects) <=> ~a.cut
<1>1. /\ Consistent(a)
      /\ IF Completed(a) THEN a.e2e # None /\ ~a.cut ELSE Discarded(a)
  BY OutcomeFacts
<1>2. /\ options.stream /\ Completed(a) => a.ttft # None
      /\ ~options.stream => {a.ttft, a.rate} = {None}
      /\ a.failure = "expectation" => options.policy.expects
  BY DEF Possible
<1> QED BY <1>1, <1>2 DEF AttemptCanonical

\* The report that was written is accepted, with two of the exceptions.
LEMMA WrittenIntact ==
  ASSUME CanaryAssumption, Ran
  PROVE  Integrity(Written) <=> ~BrokeOff(Written) /\ ~RoundedOver(options)
<1> DEFINE sum == Summary(attempts, duration)
           gates == Gates(sum, options.policy)
           r == Written
<1>1. /\ r.version = 2 /\ r.duration = FloorMs(duration) /\ r.status = Status(gates)
      /\ r.stream = options.stream /\ r.plan = Plan(options) /\ r.policy = options.policy
      /\ r.summary = sum /\ r.gates = gates /\ r.attempts = attempts
  BY DEF Written
<1>2. options.policy # None /\ ValidPolicy(options.policy)
      /\ options.stream \in BOOLEAN /\ (options.stream \/ ~StreamOnly(options.policy))
  BY OptionFacts, PolicyFacts
<1>3. /\ Len(attempts) = options.count /\ DOMAIN attempts = 1..options.count
      /\ \A i \in 1..options.count : attempts[i] \in Outcomes /\ Possible(attempts[i])
  BY DEF Ran, Attempted
<1>4. (\A i \in DOMAIN attempts :
         AttemptCanonical(attempts[i], options.stream, options.policy.expects))
        <=> ~BrokeOff(r)
  BY <1>1, <1>2, <1>3, AttemptFacts DEF BrokeOff
<1>5. sum.pace = duration /\ Summary(attempts, sum.pace) = sum
  BY SummaryFacts
<1>6. PaceMatches(r)
  <2>1. duration \in Nat /\ TicksPerMs \in Nat \ {0}
    BY OptionFacts DEF Ran
  <2> DEFINE d == duration \div TicksPerMs
  <2>2. /\ d * TicksPerMs <= duration /\ duration < d * TicksPerMs + TicksPerMs
        /\ (d + 1) * TicksPerMs = d * TicksPerMs + TicksPerMs /\ d * TicksPerMs \in Nat
    BY <2>1, FloorFacts
  <2> HIDE DEF d
  <2>3. d * TicksPerMs <= duration /\ duration <= (d + 1) * TicksPerMs
    BY <2>1, <2>2
  <2>4. r.duration = d /\ r.summary.pace = duration
    BY <1>1, <1>5 DEF d, FloorMs
  <2> HIDE DEF r
  <2> QED BY <2>3, <2>4 DEF PaceMatches, Within
<1> HIDE DEF r, sum, gates
<1>7. r.gates = Gates(r.summary, r.policy) /\ r.status = Status(r.gates)
  BY <1>1 DEF gates
<1>8. r.plan.count = options.count
  BY <1>1 DEF Plan
<1>9. Integrity(r) <=>
        /\ PlanCanonical(r.plan)
        /\ \A i \in DOMAIN r.attempts :
             AttemptCanonical(r.attempts[i], r.stream, r.policy.expects)
  BY <1>1, <1>2, <1>3, <1>5, <1>6, <1>7, <1>8 DEF Integrity
<1> QED BY <1>1, <1>4, <1>9, PlanFacts DEF r

\* What the rules make sure of, by field.
LEMMA IntegrityFacts ==
  ASSUME NEW r, Integrity(r)
  PROVE  /\ r.version = 2 /\ Len(r.attempts) = r.plan.count /\ PaceMatches(r)
         /\ r.summary.attempted = Len(r.attempts) /\ r.summary.exact = TRUE
         /\ r.summary.succeeded = Cardinality(Successes(r.attempts))
         /\ \A f \in Fields : r.summary[f] = Distribution(Values(r.attempts, f))
         /\ r.gates = Gates(r.summary, r.policy) /\ r.status = Status(r.gates)
         /\ r.policy # None /\ ValidPolicy(r.policy)
<1>1. /\ r.version = 2 /\ Len(r.attempts) = r.plan.count /\ PaceMatches(r)
      /\ r.summary = Summary(r.attempts, r.summary.pace)
      /\ r.gates = Gates(r.summary, r.policy) /\ r.status = Status(r.gates)
      /\ r.policy # None /\ ValidPolicy(r.policy)
  BY DEF Integrity
<1> DEFINE sum == Summary(r.attempts, r.summary.pace)
<1>2. /\ sum.attempted = Len(r.attempts) /\ sum.succeeded = Cardinality(Successes(r.attempts))
      /\ sum.exact = TRUE
      /\ \A f \in Fields : sum[f] = Distribution(Values(r.attempts, f))
  BY SummaryFacts
<1> HIDE DEF sum
<1>3. r.summary = sum
  BY <1>1 DEF sum
<1> QED BY <1>1, <1>2, <1>3

\* The attempts are a sequence that is not empty.
LEMMA AttemptedSeq ==
  ASSUME NEW s, NEW n, Attempted(s, n)
  PROVE  s \in Seq(Outcomes) /\ s # <<>>
<1>1. s \in [1..n -> Outcomes] /\ n \in Nat
  BY DEF Attempted
<1>2. s \in Seq(Outcomes)
  BY <1>1
<1>3. Len(s) = n /\ n # 0
  BY DEF Attempted
<1> QED BY <1>2, <1>3

\* An attempt whose outcome is flipped changes the number of successes.
LEMMA FlipCounts ==
  ASSUME CanaryAssumption, NEW s, NEW n, Attempted(s, n), NEW t,
         DOMAIN t = DOMAIN s, \A i \in DOMAIN s : i # 1 => t[i] = s[i],
         t[1].failure = None <=> s[1].failure # None
  PROVE  Cardinality(Successes(t)) # Cardinality(Successes(s))
<1> DEFINE ok == Successes(s)
<1>1. DOMAIN s = 1..n /\ n \in Nat /\ 1 \in DOMAIN s
  BY DEF Attempted
<1>2. IsFiniteSet(ok) /\ Cardinality(ok) \in Nat
  <2>1. IsFiniteSet(ok) /\ Cardinality(ok) \in 0..n
    BY CompleteFacts DEF Fields
  <2> QED BY <2>1, <1>1
<1>3. CASE s[1].failure = None
  <2>1. Successes(t) = ok \ {1} /\ 1 \in ok
    BY <1>1, <1>3 DEF Successes
  <2> HIDE DEF ok
  <2>2. Cardinality(ok \ {1}) = Cardinality(ok) - 1
    BY <1>2, <2>1, FS_RemoveElement
  <2>3. Cardinality(Successes(t)) = Cardinality(ok) - 1
    BY <2>1, <2>2
  <2> QED BY <1>2, <2>3 DEF ok
<1>4. CASE s[1].failure # None
  <2>1. Successes(t) = ok \cup {1} /\ 1 \notin ok
    BY <1>1, <1>4 DEF Successes
  <2> HIDE DEF ok
  <2>2. Cardinality(ok \cup {1}) = Cardinality(ok) + 1
    BY <1>2, <2>1, FS_AddElement
  <2>3. Cardinality(Successes(t)) = Cardinality(ok) + 1
    BY <2>1, <2>2
  <2> QED BY <1>2, <2>3 DEF ok
<1> QED BY <1>3, <1>4

\* No damaged report is accepted: what was changed disagrees with the rest.
LEMMA DamageRefused ==
  ASSUME CanaryAssumption, Ran, NEW r \in Damages(Written)
  PROVE  ~Integrity(r)
<1> SUFFICES ASSUME Integrity(r)
             PROVE  FALSE
  OBVIOUS
<1> DEFINE n == options.count
<1>1. PICK w : w = Written
  OBVIOUS
<1>2. PICK dur, status, plan, policy, sum, gates :
        /\ w = [version |-> 2, started |-> started, duration |-> dur,
                status |-> status, workload |-> options.workload,
                target |-> options.target, stream |-> options.stream,
                plan |-> plan, policy |-> policy,
                summary |-> sum, gates |-> gates, attempts |-> attempts]
        /\ sum = Summary(attempts, duration) /\ policy = options.policy
        /\ gates = Gates(sum, policy) /\ status = Status(gates)
        /\ dur = FloorMs(duration) /\ plan = Plan(options)
  BY <1>1 DEF Written
<1>r. w = [version |-> 2, started |-> started, duration |-> dur,
           status |-> status, workload |-> options.workload,
           target |-> options.target, stream |-> options.stream,
           plan |-> plan, policy |-> policy,
           summary |-> sum, gates |-> gates, attempts |-> attempts]
  BY <1>2
<1>3. /\ Attempted(attempts, n) /\ n \in Nat \ {0} /\ Len(attempts) = n
      /\ DOMAIN attempts = 1..n /\ plan.count = n
      /\ plan = [count |-> n, concurrency |-> plan.concurrency,
                 maxTokens |-> plan.maxTokens, timeout |-> plan.timeout]
  BY <1>2 DEF Ran, Attempted, Plan
<1>4. /\ sum.attempted = n /\ sum.succeeded = Cardinality(Successes(attempts))
      /\ sum.pace = duration
  BY <1>2, <1>3, SummaryFacts
<1>5. sum.succeeded \in Nat
  <2>1. Cardinality(Successes(attempts)) \in 0..n
    BY <1>3, CompleteFacts DEF Fields
  <2> QED BY <1>3, <1>4, <2>1
<1>6. sum = [attempted |-> sum.attempted, succeeded |-> sum.succeeded,
             exact |-> sum.exact, pace |-> sum.pace, tokens |-> sum.tokens, ttft |-> sum.ttft, e2e |-> sum.e2e, rate |-> sum.rate]
  BY <1>2 DEF Summary
<1>7. r # w
  BY <1>1 DEF Damages
<1>8. /\ r.version = 2 /\ Len(r.attempts) = r.plan.count /\ PaceMatches(r)
      /\ r.summary.attempted = Len(r.attempts)
      /\ r.summary.succeeded = Cardinality(Successes(r.attempts))
      /\ r.gates = Gates(r.summary, r.policy) /\ r.status = Status(r.gates)
  BY IntegrityFacts
<1>9. CASE r = [w EXCEPT !.version = 1, !.policy = None]
  BY <1>2, <1>8, <1>9
<1>10. CASE r = [w EXCEPT !.attempts = Tail(@)]
  <2>1. r.attempts = Tail(attempts) /\ r.plan.count = n
    BY <1>2, <1>3, <1>10
  <2>2. Len(Tail(attempts)) = n - 1
    <3>1. attempts \in Seq(Outcomes) /\ attempts # <<>>
      BY <1>3, AttemptedSeq
    <3> QED BY <1>3, <3>1
  <2> QED BY <1>3, <1>8, <2>1, <2>2
<1>11. CASE r = [w EXCEPT !.attempts = Append(@, Head(@)), !.plan.count = @ + 1]
  <2>1. r.attempts = Append(attempts, Head(attempts)) /\ r.summary = sum
    BY <1>2, <1>11
  <2>2. Len(Append(attempts, Head(attempts))) = n + 1
    <3>1. attempts \in Seq(Outcomes) /\ attempts # <<>>
      BY <1>3, AttemptedSeq
    <3> QED BY <1>3, <3>1
  <2> QED BY <1>3, <1>4, <1>8, <2>1, <2>2
<1>12. CASE r = [w EXCEPT !.attempts[1].failure = IF @ = None THEN "protocol" ELSE None]
  <2> DEFINE a == attempts[1]
             b == [a EXCEPT !.failure = IF @ = None THEN "protocol" ELSE None]
  <2>1. r.attempts = [attempts EXCEPT ![1] = b] /\ r.summary = sum
    BY <1>2, <1>12
  <2>2. a \in Outcomes /\ 1 \in DOMAIN attempts
    <3>1. 1 \in DOMAIN attempts
      BY <1>3
    <3>2. attempts \in [1..n -> Outcomes]
      BY <1>3 DEF Attempted
    <3> QED BY <1>3, <3>1, <3>2
  <2>3. b.failure = None <=> a.failure # None
    <3>1. None # "protocol"
      BY DEF CanaryAssumption
    <3>2. PICK F, M : a \in [failure : F, ttft : M, e2e : M, tokens : M, rate : M, cut : BOOLEAN]
      BY <2>2 DEF CanaryAssumption
    <3> HIDE DEF a
    <3>3. b.failure = IF a.failure = None THEN "protocol" ELSE None
      BY <3>2
    <3> QED BY <3>1, <3>3
  <2> HIDE DEF a, b
  <2>4. /\ DOMAIN r.attempts = DOMAIN attempts
        /\ \A i \in DOMAIN attempts : i # 1 => r.attempts[i] = attempts[i]
        /\ r.attempts[1] = b
    BY <1>3, <2>1, <2>2
  <2>5. Cardinality(Successes(r.attempts)) # Cardinality(Successes(attempts))
    BY <1>3, <2>3, <2>4, FlipCounts DEF a
  <2> QED BY <1>4, <1>8, <2>1, <2>5
<1>13. CASE r = [w EXCEPT !.summary.succeeded = @ + 1]
  <2>1. r.attempts = attempts /\ r.summary = [sum EXCEPT !.succeeded = @ + 1]
    BY <1>2, <1>13
  <2>2. r.summary.succeeded = sum.succeeded + 1
    BY <1>6, <2>1
  <2> QED BY <1>4, <1>5, <1>8, <2>1, <2>2
<1>14. CASE r = [w EXCEPT !.summary.pace = IF w.duration = 0 THEN @ ELSE @ + 2 * TicksPerMs]
  <2>1. CASE dur = 0
    <3>1. [sum EXCEPT !.pace = sum.pace] = sum
      BY <1>6
    <3>2. r = [w EXCEPT !.summary = [sum EXCEPT !.pace = sum.pace]]
      BY <1>2, <1>14, <2>1
    <3>3. [w EXCEPT !.summary = sum] = w
      BY <1>2
    <3> QED BY <1>7, <3>1, <3>2, <3>3
  <2>2. CASE dur # 0
    <3>1. r.duration = dur /\ r.summary = [sum EXCEPT !.pace = @ + 2 * TicksPerMs]
      BY <1>2, <1>14, <2>2
    <3>2. r.summary.pace = duration + 2 * TicksPerMs
      BY <1>4, <1>6, <3>1
    <3>3. duration + 2 * TicksPerMs <= (dur + 1) * TicksPerMs
      BY <1>8, <2>2, <3>1, <3>2 DEF PaceMatches, Within
    <3>4. duration \in Nat /\ TicksPerMs \in Nat \ {0}
      BY OptionFacts DEF Ran
    <3>5. /\ dur * TicksPerMs <= duration /\ (dur + 1) * TicksPerMs = dur * TicksPerMs + TicksPerMs
          /\ dur * TicksPerMs \in Nat
      BY <1>2, <3>4, FloorFacts DEF FloorMs
    <3> QED BY <3>3, <3>4, <3>5
  <2> QED BY <2>1, <2>2
<1>15. [w EXCEPT !.gates = gates, !.status = status] = w
  <2>1. DOMAIN w = {"version", "started", "duration", "status", "workload", "target",
                    "stream", "plan", "policy", "summary", "gates", "attempts"}
        /\ w.gates = gates /\ w.status = status
    BY <1>r
  <2>2. w = [x \in DOMAIN w |-> w[x]]
    BY <1>r
  <2>3. [w EXCEPT !.gates = gates, !.status = status]
          = [x \in DOMAIN w |-> IF x = "status" THEN status ELSE IF x = "gates" THEN gates
                                ELSE w[x]]
    BY <2>1
  <2> QED BY <2>1, <2>2, <2>3
<1>16. ASSUME NEW other, NEW end, r = [w EXCEPT !.gates = other, !.status = end]
       PROVE  FALSE
  <2>1. r.gates = other /\ r.status = end /\ r.summary = sum /\ r.policy = policy
    BY <1>r, <1>16
  <2>2. other = gates /\ end = status
    BY <1>2, <1>8, <2>1
  <2> QED BY <1>7, <1>15, <1>16, <2>2
<1>17. CASE \E other : r = [w EXCEPT !.gates = other]
  <2>1. PICK other : r = [w EXCEPT !.gates = other]
    BY <1>17
  <2>2. r.gates = other /\ r.summary = sum /\ r.policy = policy
    BY <1>r, <2>1
  <2>3. other = gates
    BY <1>2, <1>8, <2>2
  <2>4. [w EXCEPT !.gates = gates] = w
    BY <1>r
  <2> QED BY <1>7, <2>1, <2>3, <2>4
<1>s. CASE r = [w EXCEPT !.status = "pass"]
  <2>1. r.gates = gates /\ r.status = "pass"
    BY <1>r, <1>s
  <2>2. status = "pass"
    BY <1>2, <1>8, <2>1
  <2>3. [w EXCEPT !.status = status] = w
    BY <1>r
  <2> QED BY <1>7, <1>s, <2>2, <2>3
<1>18. CASE r = [w EXCEPT !.policy.minSuccess = 0]
  <2>1. r.gates = gates /\ r.summary = sum /\ r.policy = [policy EXCEPT !.minSuccess = 0]
    BY <1>2, <1>18
  <2>2. policy \in Policies /\ ValidPolicy(policy)
    BY <1>2, OptionFacts
  <2>3. /\ policy = [minSuccess |-> policy.minSuccess, maxTtft |-> policy.maxTtft,
                     maxE2e |-> policy.maxE2e, minRate |-> policy.minRate,
                     expects |-> policy.expects]
        /\ r.policy.minSuccess = 0
    BY <2>1, <2>2 DEF Policies
  <2> DEFINE made(q) == Gates(Summary(attempts, duration), q)
  <2>a. \A q \in Policies : ValidPolicy(q) =>
          "percent" \in DOMAIN made(q) /\ made(q)["percent"].threshold = q.minSuccess
    <3> SUFFICES ASSUME NEW q \in Policies, ValidPolicy(q)
                 PROVE  "percent" \in DOMAIN Gates(Summary(attempts, duration), q)
                        /\ Gates(Summary(attempts, duration), q)["percent"].threshold
                             = q.minSuccess
      OBVIOUS
    <3>1. Attempted(attempts, n)
      BY <1>3
    <3> HIDE DEF n
    <3> QED BY SMTT(30), <3>1, StatusFacts
  <2> HIDE DEF made
  <2>4. "percent" \in DOMAIN gates /\ gates["percent"].threshold = policy.minSuccess
    <3>1. gates = made(policy)
      BY <1>2 DEF made
    <3> QED BY <2>2, <2>a, <3>1
  <2>5. r.policy \in Policies /\ ValidPolicy(r.policy)
    <3>1. r.policy \in Policies
      BY <2>1, <2>2 DEF Policies
    <3> QED BY <3>1, IntegrityFacts
  <2>6. gates["percent"].threshold = 0
    <3>1. r.gates = made(r.policy)
      BY <1>2, <1>8, <2>1 DEF made
    <3>2. made(r.policy)["percent"].threshold = r.policy.minSuccess
      BY <2>5, <2>a
    <3> QED BY <2>1, <2>3, <3>1, <3>2
  <2>7. [policy EXCEPT !.minSuccess = 0] = policy
    BY <2>3, <2>4, <2>6
  <2>8. r = [w EXCEPT !.policy = [policy EXCEPT !.minSuccess = 0]]
    BY <1>2, <1>18
  <2>9. [w EXCEPT !.policy = policy] = w
    BY <1>2
  <2> QED BY <1>7, <2>7, <2>8, <2>9
<1> QED BY <1>1, <1>9, <1>10, <1>11, <1>12, <1>13, <1>14, <1>16, <1>17, <1>18, <1>s
        DEF Damages

\* A percentage that was read as another one stays so through every damage, and
\* no report that has one is accepted.
LEMMA DistortedRefused ==
  ASSUME Distorted(Written), NEW r, r = Read \/ r \in Damages(Read)
  PROVE  ~Integrity(r)
<1>1. PICK sum, gates, status, dur, plan :
        Written = [version |-> 2, started |-> started, duration |-> dur,
                   status |-> status, workload |-> options.workload,
                   target |-> options.target, stream |-> options.stream,
                   plan |-> plan, policy |-> options.policy,
                   summary |-> sum, gates |-> gates, attempts |-> attempts]
        /\ sum = Summary(attempts, duration)
  BY DEF Written
<1> DEFINE off == [sum EXCEPT !.exact = FALSE]
<1>2. Read = [Written EXCEPT !.summary = off]
  BY <1>1 DEF Read, ReadBack, Distorted
<1>3. Read = [version |-> 2, started |-> started, duration |-> dur,
              status |-> status, workload |-> options.workload,
              target |-> options.target, stream |-> options.stream,
              plan |-> plan, policy |-> options.policy,
              summary |-> off, gates |-> gates, attempts |-> attempts]
  BY <1>1, <1>2
<1>4. "exact" \in DOMAIN off /\ off.exact = FALSE
  <2>1. "exact" \in DOMAIN sum
    BY <1>1 DEF Summary
  <2> QED BY <2>1
<1> HIDE DEF off
<1>5. r.summary.exact = FALSE
  <2>1. PICK q : q = Read
    OBVIOUS
  <2>2. q.summary = off /\ "summary" \in DOMAIN q
    BY <1>3, <2>1
  <2>3. \A x : /\ [off EXCEPT !.succeeded = x].exact = FALSE
               /\ [off EXCEPT !.pace = x].exact = FALSE
    BY <1>4
  <2>4. CASE r = [q EXCEPT !.summary.succeeded = @ + 1]
    BY <2>2, <2>3, <2>4
  <2>5. CASE r = [q EXCEPT !.summary.pace = IF q.duration = 0 THEN @ ELSE @ + 2 * TicksPerMs]
    BY <2>2, <2>3, <2>5
  <2>6. CASE r = [q EXCEPT !.version = 1, !.policy = None]
    BY <1>4, <2>2, <2>6
  <2>7. CASE r = [q EXCEPT !.attempts = Append(@, Head(@)), !.plan.count = @ + 1]
    BY <1>4, <2>2, <2>7
  <2>8. ASSUME NEW x, NEW y, r = [q EXCEPT !.gates = x, !.status = y]
        PROVE  r.summary.exact = FALSE
    BY <1>4, <2>2, <2>8
  <2>9. ASSUME NEW x, \/ r = [q EXCEPT !.attempts = x]
                      \/ r = [q EXCEPT !.gates = x]
                      \/ r = [q EXCEPT !.status = x]
                      \/ r = [q EXCEPT !.policy = x]
        PROVE  r.summary.exact = FALSE
    BY <1>4, <2>2, <2>9
  <2>10. CASE \/ r = [q EXCEPT !.attempts = Tail(@)]
              \/ r = [q EXCEPT !.attempts[1].failure = IF @ = None THEN "protocol" ELSE None]
              \/ r = [q EXCEPT !.gates = [g \in DOMAIN @ \cap {"successful", "percent"} |-> @[g]]]
              \/ r = [q EXCEPT !.status = "pass"]
              \/ r = [q EXCEPT !.policy.minSuccess = 0]
    BY <2>9, <2>10
  <2>11. CASE r = [q EXCEPT !.gates = [g \in DOMAIN @ |-> [@[g] EXCEPT !.passed = TRUE]],
                            !.status = "pass"]
    BY <2>8, <2>11
  <2>12. CASE r = Read
    BY <1>4, <2>1, <2>2, <2>12
  <2>13. CASE r \in Damages(q)
    BY <2>4, <2>5, <2>6, <2>7, <2>10, <2>11, <2>13 DEF Damages
  <2> QED BY <2>1, <2>12, <2>13
<1> QED BY <1>5, IntegrityFacts

-----------------------------------------------------------------------------
(* The canary's invariant.                                                 *)

\* A report, and what is read of it later, was made of a batch that was run.
CanaryInv ==
  /\ options \in Options /\ started \in {0, 1}
  /\ \/ pc \in {"validate", "refused", "failed"} /\ report = None /\ saved = None
     \/ pc = "report" /\ Ran /\ report = None /\ saved = None
     \/ /\ pc \in {"saved", "refused"} /\ Ran /\ report = Written
        /\ saved = Read \/ saved \in Damages(Read)

\* The batch leaves what admission has seen.
LEMMA BatchStep ==
  ASSUME CanaryAssumption, CanaryInv,
         NEW results \in Results(options.count), NEW ticks \in Durations, Batch(results, ticks)
  PROVE  CanaryInv'
<1>1. pc = "validate" /\ Valid(options) /\ report = None /\ saved = None
      /\ options \in Options /\ started \in {0, 1}
  BY DEF Batch, CanaryInv
<1>2. /\ attempts' = results /\ duration' = ticks /\ pc' = "report" /\ options' = options
      /\ started' = started /\ report' = None /\ saved' = None
  BY <1>1 DEF Batch
<1>3. /\ Len(results) = options.count /\ \A i \in DOMAIN results : Possible(results[i])
      /\ results \in [1..options.count -> Outcomes] /\ duration' \in Nat
  BY <1>2 DEF Batch, Results, CanaryAssumption
<1>4. options.count \in Nat \ {0}
  <2>1. options.count \in Nat
    BY <1>1 DEF CanaryAssumption, OptionsAssumption
  <2>2. 1 <= options.count
    BY <1>1 DEF Valid, Within
  <2> QED BY <2>1, <2>2
<1>5. Attempted(attempts, options.count)'
  BY <1>2, <1>3, <1>4 DEF Attempted
<1>6. (\A i \in 1..options.count : Possible(attempts[i]))'
  BY <1>2, <1>3 DEF Possible
<1>7. Valid(options)'
  BY <1>1, <1>2
<1>8. Ran'
  BY <1>1, <1>2, <1>3, <1>5, <1>6, <1>7 DEF Ran
<1> QED BY <1>1, <1>2, <1>8 DEF CanaryInv

\* What is unchanged keeps what it says.
LEMMA RanStays ==
  ASSUME Ran, UNCHANGED <<options, started, attempts, duration>>
  PROVE  Ran' /\ Written' = Written /\ Read' = Read
<1>1. options' = options /\ started' = started /\ attempts' = attempts /\ duration' = duration
  OBVIOUS
<1>2. Ran'
  BY <1>1 DEF Ran, Possible
<1>3. Written' = Written
  BY <1>1 DEF Written
<1>4. Read' = Read
  BY <1>3 DEF Read, ReadBack, ParsedOff
<1> QED BY <1>2, <1>3, <1>4

\* No step of the canary takes its evidence away.
LEMMA CanaryStep ==
  ASSUME CanaryAssumption, CanaryInv, [Next]_vars
  PROVE  CanaryInv'
<1>1. CASE Refuse
  BY <1>1 DEF CanaryInv, Refuse
<1>2. CASE BatchFails
  BY <1>2 DEF CanaryInv, BatchFails
<1>3. CASE Report
  <2>1. /\ Ran /\ options \in Options /\ started \in {0, 1}
        /\ UNCHANGED <<options, started, attempts, duration>>
        /\ report' = Written /\ pc' = "saved" /\ saved' = ReadBack(report')
    BY <1>3 DEF CanaryInv, Report, Written
  <2>2. Ran' /\ Written' = Written /\ Read' = Read
    BY <2>1, RanStays
  <2>3. saved' = Read
    BY <2>1 DEF Read
  <2> QED BY <2>1, <2>2, <2>3 DEF CanaryInv
<1>4. CASE Damage
  <2>1. /\ Ran /\ options \in Options /\ started \in {0, 1} /\ pc' = pc /\ pc = "saved"
        /\ UNCHANGED <<options, started, attempts, duration>>
        /\ report = Written /\ report' = report /\ saved' \in Damages(Read)
    BY <1>4 DEF CanaryInv, Damage, Read
  <2>2. Ran' /\ Written' = Written /\ Read' = Read
    BY <2>1, RanStays
  <2>3. Damages(Read)' = Damages(Read)
    BY <2>2 DEF Damages
  <2>4. saved' \in Damages(Read)'
    BY <2>1, <2>3
  <2> QED BY <2>1, <2>2, <2>4 DEF CanaryInv
<1>5. CASE \E results \in Results(options.count), ticks \in Durations : Batch(results, ticks)
  BY <1>5, BatchStep
<1>6. CASE UNCHANGED vars
  <2>1. UNCHANGED <<options, started, attempts, duration, pc, report, saved>>
    BY <1>6 DEF vars
  <2>2. Ran => Damages(Read)' = Damages(Read)
    BY <2>1, RanStays DEF Damages
  <2>3. Ran => Ran' /\ Written' = Written /\ Read' = Read
    BY <2>1, RanStays
  <2> QED BY <2>1, <2>2, <2>3 DEF CanaryInv
<1> QED BY <1>1, <1>2, <1>3, <1>4, <1>5, <1>6 DEF Next

\* What is read back is judged rightly.
LEMMA SavedFacts ==
  ASSUME CanaryAssumption, CanaryInv, saved # None \/ pc = "saved"
  PROVE  /\ Ran /\ report = Written /\ (Integrity(saved) => saved = report)
         /\ Integrity(saved) <=>
              /\ saved = ReadBack(report)
              /\ ~BrokeOff(report) /\ ~RoundedOver(options) /\ ~Distorted(report)
<1>1. Ran /\ report = Written /\ (saved = Read \/ saved \in Damages(Read))
  BY DEF CanaryInv
<1>2. CASE Distorted(report)
  BY <1>1, <1>2, DistortedRefused
<1>3. CASE ~Distorted(report)
  <2>1. Read = report
    BY <1>1, <1>3 DEF Read, ReadBack, Distorted
  <2>2. CASE saved = report
    BY <1>1, <1>3, <2>1, <2>2, WrittenIntact DEF Read
  <2>3. CASE saved \in Damages(report)
    <3>1. saved # report
      BY <2>3 DEF Damages
    <3>2. ~Integrity(saved)
      BY <1>1, <2>3, DamageRefused
    <3> QED BY <1>1, <2>1, <3>1, <3>2 DEF Read
  <2> QED BY <1>1, <2>1, <2>2, <2>3
<1> QED BY <1>2, <1>3

\* The invariant says what the status has to.
LEMMA StatusEarned ==
  ASSUME CanaryAssumption, CanaryInv
  PROVE  StatusIsEarned
<1>1. ASSUME report # None
      PROVE  report.status = "pass" <=> Earned(attempts, options.policy)
  <2>1. Ran /\ report = Written
    BY <1>1 DEF CanaryInv
  <2>2. options.policy \in Policies /\ ValidPolicy(options.policy)
    BY <2>1, OptionFacts
  <2>3. Attempted(attempts, options.count)
    BY <2>1 DEF Ran
  <2> DEFINE gates == Gates(Summary(attempts, duration), options.policy)
  <2>4. Status(gates) = "pass" <=> Earned(attempts, options.policy)
    BY SMTT(30), <2>2, <2>3, StatusFacts
  <2>5. report.status = Status(gates)
    BY <2>1 DEF Written
  <2> QED BY <2>4, <2>5
<1>2. report # None => Len(attempts) = options.count
  BY DEF CanaryInv, Ran, Attempted
<1>3. saved # None =>
        (Integrity(saved) <=>
           /\ saved = ReadBack(report)
           /\ ~BrokeOff(report) /\ ~RoundedOver(options) /\ ~Distorted(report))
  BY SavedFacts
<1> QED BY <1>1, <1>2, <1>3 DEF StatusIsEarned, Earned, Successes, Shown

\* A canary starts without a report.
LEMMA InitCanary == Init => CanaryInv
BY DEF Init, CanaryInv

\* StatusIsEarned for every canary (src/operations/canary.rs): the status is the
\* meaning of the policy, and the saved report is accepted as its rules say.
THEOREM CanaryIsEarned ==
  ASSUME CanaryAssumption
  PROVE  Spec => []StatusIsEarned
<1>1. Init => CanaryInv
  BY InitCanary
<1>2. CanaryInv /\ [Next]_vars => CanaryInv'
  BY CanaryStep
<1>3. CanaryInv => StatusIsEarned
  BY StatusEarned
<1> QED BY <1>1, <1>2, <1>3, PTL DEF Spec

-----------------------------------------------------------------------------
(* What nearest ranks say of the requests.                                 *)

\* Numbers by the indexes of a finite set that is not empty.
Numbers(n, D, v) == n \in Nat /\ D \in SUBSET (1..n) /\ D # {} /\ v \in [D -> Nat]

\* Most of the requests are in a set when they are in a smaller one.
LEMMA MostGrows ==
  ASSUME NEW n, NEW D, NEW v, Numbers(n, D, v), NEW percent \in 1..100,
         NEW T \in SUBSET D, NEW S \in SUBSET T, Most(S, Cardinality(D), percent)
  PROVE  Most(T, Cardinality(D), percent)
<1>1. IsFiniteSet(D) /\ Cardinality(D) \in Nat
      /\ \A U \in SUBSET D : IsFiniteSet(U) /\ Cardinality(U) \in 0..Cardinality(D)
  BY RangeFacts DEF Numbers
<1>2. S \in SUBSET D
  OBVIOUS
<1>3. Cardinality(S) <= Cardinality(T) /\ Cardinality(S) \in Nat /\ Cardinality(T) \in Nat
  BY <1>1, <1>2, FS_Subset
<1>4. percent * Cardinality(D) \in Nat
  BY <1>1, percent \in Nat, percent <= percent, TimesMonotone
<1> QED BY <1>3, <1>4 DEF Most

\* A set that holds most of the requests has one that reaches the rank.
LEMMA RankReached ==
  ASSUME NEW n, NEW D, NEW v, Numbers(n, D, v), NEW percent \in 1..100,
         NEW S \in SUBSET D, Most(S, Cardinality(D), percent)
  PROVE  \E m \in S : NearestRank(v, percent) <= v[m]
<1> DEFINE N == Cardinality(D)
           u == [j \in S |-> v[j]]
<1>1. /\ n \in Nat /\ D \in SUBSET (1..n) /\ D # {} /\ v \in [D -> Nat]
      /\ IsFiniteSet(D) /\ N \in Nat \ {0}
  BY RangeFacts DEF Numbers
<1>2. S # {}
  <2> SUFFICES ASSUME S = {}
               PROVE  FALSE
    OBVIOUS
  <2>1. Cardinality(S) = 0
    BY FS_EmptySet
  <2>2. 100 * 0 >= percent * N
    BY <2>1 DEF Most
  <2>3. 1 * N <= percent * N /\ percent * N \in Nat
    <3>1. N \in Nat /\ percent \in Nat /\ 1 \in Nat /\ 1 <= percent
      BY <1>1
    <3> HIDE DEF N
    <3>2. 1 * N <= percent * N
      BY <3>1, TimesMonotone
    <3>3. percent * N \in Nat
      BY <3>1, percent <= percent, TimesMonotone
    <3> QED BY <3>2, <3>3
  <2> HIDE DEF N
  <2> QED BY <1>1, <2>2, <2>3
<1>3. S \in SUBSET (1..n) /\ u \in [S -> Nat] /\ \A j \in S : u[j] = v[j]
  BY <1>1
<1>4. PICK m \in S : \A j \in S : u[j] <= u[m]
  <2> HIDE DEF u
  <2>1. PICK k \in S : u[k] = Max(Range(u))
    BY <1>1, <1>2, <1>3, RangeFacts
  <2>2. \A j \in S : u[j] <= Max(Range(u))
    BY <1>1, <1>2, <1>3, RangeFacts
  <2> QED BY <2>1, <2>2
<1>5. S \subseteq UpTo(v, v[m]) /\ UpTo(v, v[m]) \in SUBSET D
  BY <1>1, <1>3, <1>4 DEF UpTo
<1>6. Most(UpTo(v, v[m]), N, percent)
  BY <1>5, MostGrows
<1>7. m \in D /\ \A i \in D : Most(UpTo(v, v[i]), N, percent) => NearestRank(v, percent) <= v[i]
  BY <1>1, RankFacts
<1> QED BY <1>6, <1>7

\* The nearest rank of numbers, see RankFacts.
LEMMA RankMeans ==
  ASSUME NEW n, NEW D, NEW v, Numbers(n, D, v), NEW percent \in 1..100
  PROVE  /\ NearestRank(v, percent) \in Nat
         /\ \E i \in D : v[i] = NearestRank(v, percent)
         /\ Most(UpTo(v, NearestRank(v, percent)), Cardinality(D), percent)
         /\ \A i \in D : Most(UpTo(v, v[i]), Cardinality(D), percent) =>
                           NearestRank(v, percent) <= v[i]
<1>1. n \in Nat /\ D \in SUBSET (1..n) /\ D # {} /\ v \in [D -> Nat]
  BY DEF Numbers
<1> QED BY <1>1, RankFacts

\* Most of w lie within the percentage of any value most of v lie within.
AllWithin(D, v, E, w, t) ==
  /\ ~Most({i \in D : v[i] = 0}, Cardinality(D), 95)
  /\ \A i \in D : Most(UpTo(v, v[i]), Cardinality(D), 95) =>
       Most({j \in E : 100 * w[j] <= (100 + t) * v[i]}, Cardinality(E), 95)

\* A value that half of v lie within is missed by less than half of w, by the ratio.
HalfKeep(D, v, E, w, t) ==
  /\ ~Most({i \in D : v[i] = 0}, Cardinality(D), 50)
  /\ \E i \in D :
       /\ Most(UpTo(v, v[i]), Cardinality(D), 50)
       /\ ~Most({j \in E : 100 * w[j] < t * v[i]}, Cardinality(E), 50)

\* regression_percent_gate: the two ranks are within the percentage exactly when
\* most of the requests lie within it of any time most of the others lie within.
LEMMA WithinFacts ==
  ASSUME NEW n, NEW D, NEW v, Numbers(n, D, v), NEW k, NEW E, NEW w, Numbers(k, E, w),
         NEW t \in Nat
  PROVE  /\ NearestRank(v, 95) # 0
         /\ 100 * (NearestRank(w, 95) - NearestRank(v, 95)) <= t * NearestRank(v, 95)
         <=>
         AllWithin(D, v, E, w, t)
<1> DEFINE x == NearestRank(v, 95)
           y == NearestRank(w, 95)
           N == Cardinality(D)
           K == Cardinality(E)
           Under(z) == {j \in E : 100 * w[j] <= (100 + t) * z}
<1>1. /\ x \in Nat /\ \E i \in D : v[i] = x
      /\ Most(UpTo(v, x), N, 95)
      /\ \A i \in D : Most(UpTo(v, v[i]), N, 95) => x <= v[i]
  BY RankMeans, 95 \in 1..100
<1>2. y \in Nat /\ Most(UpTo(w, y), K, 95)
  BY RankMeans, 95 \in 1..100
<1>3. /\ DOMAIN v = D /\ \A i \in D : v[i] \in Nat
      /\ DOMAIN w = E /\ \A j \in E : w[j] \in Nat
  BY DEF Numbers
<1>4. \A S \in SUBSET E : Most(S, K, 95) => \E m \in S : y <= w[m]
  BY RankReached, 95 \in 1..100
<1>5. \A T \in SUBSET E : \A S \in SUBSET T : Most(S, K, 95) => Most(T, K, 95)
  BY MostGrows, 95 \in 1..100
<1>6. x = 0 <=> Most({i \in D : v[i] = 0}, N, 95)
  <2>1. UpTo(v, 0) = {i \in D : v[i] = 0}
    BY <1>3 DEF UpTo
  <2>2. \A S \in SUBSET D : Most(S, N, 95) => \E m \in S : x <= v[m]
    BY RankReached, 95 \in 1..100
  <2>3. ASSUME Most({i \in D : v[i] = 0}, N, 95)
        PROVE  x = 0
    <3>1. PICK m \in D : v[m] = 0 /\ x <= v[m]
      BY <2>2, <2>3
    <3> QED BY <1>1, <3>1
  <2> QED BY <1>1, <2>1, <2>3
<1> HIDE DEF x, y, N, K
<1>7. ASSUME NEW z \in Nat
      PROVE  (100 + t) * z \in Nat /\ (100 + t) * z = 100 * z + t * z /\ t * z \in Nat
             /\ (100 * (y - z) <= t * z <=> 100 * y <= (100 + t) * z)
  <2>1. t * z \in Nat
    BY <1>7, t <= t, TimesMonotone
  <2>2. (100 + t) * z = 100 * z + t * z
    BY <1>7
  <2> QED BY <1>2, <1>7, <2>1, <2>2
<1>8. ASSUME 100 * (y - x) <= t * x, NEW i \in D, Most(UpTo(v, v[i]), N, 95)
      PROVE  Most(Under(v[i]), K, 95)
  <2>1. x <= v[i] /\ v[i] \in Nat
    BY <1>1, <1>3, <1>8
  <2>2. (100 + t) * x <= (100 + t) * v[i]
    <3>1. x * (100 + t) <= v[i] * (100 + t)
      BY <1>1, <2>1, 100 + t \in Nat, TimesMonotone
    <3>2. x * (100 + t) = (100 + t) * x /\ v[i] * (100 + t) = (100 + t) * v[i]
      BY <1>1, <2>1
    <3> QED BY <3>1, <3>2
  <2>3. 100 * y <= (100 + t) * v[i]
    <3>1. 100 * y <= (100 + t) * x /\ (100 + t) * x \in Nat
      BY <1>1, <1>7, <1>8
    <3>2. (100 + t) * v[i] \in Nat
      BY <1>7, <2>1
    <3> QED BY <1>2, <2>2, <3>1, <3>2
  <2>4. UpTo(w, y) \subseteq Under(v[i])
    <3> SUFFICES ASSUME NEW j \in E, w[j] <= y
                 PROVE  100 * w[j] <= (100 + t) * v[i]
      BY <1>3 DEF UpTo
    <3>1. w[j] \in Nat /\ (100 + t) * v[i] \in Nat
      BY <1>3, <1>7, <2>1
    <3> QED BY <1>2, <2>3, <3>1
  <2>5. UpTo(w, y) \in SUBSET Under(v[i]) /\ Under(v[i]) \in SUBSET E
    BY <2>4
  <2> HIDE DEF Under
  <2> QED BY <1>2, <1>5, <2>5
<1>9. ASSUME \A i \in D : Most(UpTo(v, v[i]), N, 95) => Most(Under(v[i]), K, 95)
      PROVE  100 * (y - x) <= t * x
  <2>1. Most(Under(x), K, 95)
    <3>1. PICK i \in D : v[i] = x
      BY <1>1
    <3> HIDE DEF Under
    <3> QED BY <1>1, <1>9, <3>1
  <2>2. PICK m \in Under(x) : y <= w[m]
    <3>1. Under(x) \in SUBSET E
      OBVIOUS
    <3> HIDE DEF Under
    <3> QED BY <1>4, <2>1, <3>1
  <2>3. w[m] \in Nat /\ 100 * w[m] <= (100 + t) * x
    BY <1>3
  <2>4. 100 * y <= (100 + t) * x
    BY <1>1, <1>2, <1>7, <2>2, <2>3
  <2> QED BY <1>1, <1>7, <2>4
<1> HIDE DEF Under
<1>10. x # 0 /\ 100 * (y - x) <= t * x
         <=> /\ ~Most({i \in D : v[i] = 0}, N, 95)
             /\ \A i \in D : Most(UpTo(v, v[i]), N, 95) => Most(Under(v[i]), K, 95)
  BY <1>6, <1>8, <1>9
<1> QED BY <1>10 DEF x, y, N, K, Under, AllWithin

\* ratio_gate: the median is kept exactly when some value at or above it is the
\* measure that no half of the other requests stays below.
LEMMA RatioFacts ==
  ASSUME NEW n, NEW D, NEW v, Numbers(n, D, v), NEW k, NEW E, NEW w, Numbers(k, E, w),
         NEW t \in Nat
  PROVE  NearestRank(v, 50) # 0 /\ 100 * NearestRank(w, 50) >= t * NearestRank(v, 50)
         <=>
         HalfKeep(D, v, E, w, t)
<1> DEFINE x == NearestRank(v, 50)
           y == NearestRank(w, 50)
           N == Cardinality(D)
           K == Cardinality(E)
           Below(z) == {j \in E : 100 * w[j] < t * z}
<1>1. /\ x \in Nat /\ \E i \in D : v[i] = x
      /\ Most(UpTo(v, x), N, 50)
      /\ \A i \in D : Most(UpTo(v, v[i]), N, 50) => x <= v[i]
  BY RankMeans, 50 \in 1..100
<1>2. y \in Nat /\ Most(UpTo(w, y), K, 50)
  BY RankMeans, 50 \in 1..100
<1>3. /\ DOMAIN v = D /\ \A i \in D : v[i] \in Nat
      /\ DOMAIN w = E /\ \A j \in E : w[j] \in Nat
  BY DEF Numbers
<1>4. \A S \in SUBSET E : Most(S, K, 50) => \E m \in S : y <= w[m]
  BY RankReached, 50 \in 1..100
<1>5. \A T \in SUBSET E : \A S \in SUBSET T : Most(S, K, 50) => Most(T, K, 50)
  BY MostGrows, 50 \in 1..100
<1>6. x = 0 <=> Most({i \in D : v[i] = 0}, N, 50)
  <2>1. UpTo(v, 0) = {i \in D : v[i] = 0}
    BY <1>3 DEF UpTo
  <2>2. \A S \in SUBSET D : Most(S, N, 50) => \E m \in S : x <= v[m]
    BY RankReached, 50 \in 1..100
  <2>3. ASSUME Most({i \in D : v[i] = 0}, N, 50)
        PROVE  x = 0
    <3>1. PICK m \in D : v[m] = 0 /\ x <= v[m]
      BY <2>2, <2>3
    <3> QED BY <1>1, <3>1
  <2> QED BY <1>1, <2>1, <2>3
<1> HIDE DEF x, y, N, K
<1>7. ASSUME 100 * y >= t * x
      PROVE  ~Most(Below(x), K, 50)
  <2> SUFFICES ASSUME Most(Below(x), K, 50)
               PROVE  FALSE
    OBVIOUS
  <2>1. PICK m \in Below(x) : y <= w[m]
    <3>1. Below(x) \in SUBSET E
      OBVIOUS
    <3> HIDE DEF Below
    <3> QED BY <1>4, <3>1
  <2>2. w[m] \in Nat /\ 100 * w[m] < t * x
    BY <1>3
  <2>3. t * x \in Nat
    BY <1>1, t <= t, TimesMonotone
  <2> QED BY <1>2, <1>7, <2>1, <2>2, <2>3
<1>8. ASSUME NEW i \in D, Most(UpTo(v, v[i]), N, 50), ~Most(Below(v[i]), K, 50)
      PROVE  100 * y >= t * x
  <2> SUFFICES ASSUME 100 * y < t * x
               PROVE  FALSE
    <3>1. t * x \in Nat
      BY <1>1, t <= t, TimesMonotone
    <3> QED BY <1>2, <3>1
  <2>1. x <= v[i] /\ v[i] \in Nat
    BY <1>1, <1>3, <1>8
  <2>2. t * x <= t * v[i] /\ t * v[i] \in Nat /\ t * x \in Nat
    <3>1. x * t <= v[i] * t /\ x * t \in Nat
      BY <1>1, <2>1, TimesMonotone
    <3>2. v[i] * t \in Nat
      BY <2>1, v[i] <= v[i], TimesMonotone
    <3>3. x * t = t * x /\ v[i] * t = t * v[i]
      BY <1>1, <2>1
    <3> QED BY <3>1, <3>2, <3>3
  <2>3. UpTo(w, y) \subseteq Below(v[i])
    <3> SUFFICES ASSUME NEW j \in E, w[j] <= y
                 PROVE  100 * w[j] < t * v[i]
      BY <1>3 DEF UpTo
    <3>1. w[j] \in Nat
      BY <1>3
    <3> QED BY <1>2, <2>2, <3>1
  <2>4. UpTo(w, y) \in SUBSET Below(v[i]) /\ Below(v[i]) \in SUBSET E
    BY <2>3
  <2> HIDE DEF Below
  <2> QED BY <1>2, <1>5, <1>8, <2>4
<1>9. 100 * y >= t * x <=> \E i \in D : Most(UpTo(v, v[i]), N, 50) /\ ~Most(Below(v[i]), K, 50)
  <2>1. PICK i \in D : v[i] = x
    BY <1>1
  <2> HIDE DEF Below
  <2> QED BY <1>1, <1>7, <1>8, <2>1
<1> HIDE DEF Below
<1> QED BY <1>6, <1>9 DEF x, y, N, K, Below, HalfKeep

-----------------------------------------------------------------------------
(* The gates of a rollout.                                                 *)

\* A metric is the nearest rank of the successes when it is told, else missing.
MetricTells(r, n, f) ==
  /\ Told(r, f) =>
       /\ Numbers(n, Successes(r.attempts), ByIndex(r.attempts, f))
       /\ Metric(r, r.summary[f], "p95") = NearestRank(ByIndex(r.attempts, f), 95)
       /\ Metric(r, r.summary[f], "p50") = NearestRank(ByIndex(r.attempts, f), 50)
  /\ ~Told(r, f) =>
       /\ Metric(r, r.summary[f], "p95") = None
       /\ Metric(r, r.summary[f], "p50") = None

\* So it is of the measurements of a report that is accepted.
LEMMA MetricFacts ==
  ASSUME CanaryAssumption, RolloutAssumption, NEW r, Integrity(r),
         NEW n, Attempted(r.attempts, n), NEW f \in Fields
  PROVE  MetricTells(r, n, f)
<1> DEFINE ok == Successes(r.attempts)
           v == ByIndex(r.attempts, f)
           d == Distribution(Values(r.attempts, f))
           k == Cardinality(ok)
<1>1. r.summary.succeeded = k /\ r.summary[f] = d
  BY IntegrityFacts
<1>2. /\ ok \in SUBSET (1..n) /\ k \in 0..n
      /\ ok = {} <=> k = 0
      /\ Complete(d, k) <=> ok # {} /\ Shown(r.attempts, f)
      /\ Complete(d, k) => /\ v \in [ok -> Nat] /\ d.samples = k
                           /\ d.p50 = NearestRank(v, 50) /\ d.p95 = NearestRank(v, 95)
  BY CompleteFacts
<1>3. n \in Nat /\ MinimumSamples \in Nat \ {0}
  BY DEF Attempted, RolloutAssumption
<1> HIDE DEF ok, v, d, k
<1>4. /\ Metric(r, r.summary[f], "p95")
           = IF k > 0 /\ Complete(d, k) /\ d.samples >= MinimumSamples THEN d["p95"] ELSE None
      /\ Metric(r, r.summary[f], "p50")
           = IF k > 0 /\ Complete(d, k) /\ d.samples >= MinimumSamples THEN d["p50"] ELSE None
  BY <1>1 DEF Metric
<1>5. Told(r, f) <=> k >= MinimumSamples /\ Shown(r.attempts, f)
  BY DEF Told, Succeeded, Shown, Successes, k, ok
<1>6. Told(r, f) <=> k > 0 /\ Complete(d, k) /\ d.samples >= MinimumSamples
  BY <1>2, <1>3, <1>5
<1>7. Told(r, f) => Numbers(n, ok, v)
  BY <1>2, <1>3, <1>6 DEF Numbers
<1> QED BY <1>2, <1>4, <1>6, <1>7 DEF ok, v, MetricTells

\* The gate on a time, see regression_percent_gate, is what it is about.
LEMMA RegressionMeans ==
  ASSUME CanaryAssumption, RolloutAssumption, NEW f \in Fields, NEW t \in Nat,
         NEW b, Integrity(b), NEW n, Attempted(b.attempts, n),
         NEW c, Integrity(c), NEW k, Attempted(c.attempts, k)
  PROVE  NoRegression(b, c, f, t) <=> Told(b, f) /\ Told(c, f) /\ WithinTime(b, c, f, t)
<1>1. /\ Told(b, f) =>
           /\ Numbers(n, Successes(b.attempts), ByIndex(b.attempts, f))
           /\ Metric(b, b.summary[f], "p95") = NearestRank(ByIndex(b.attempts, f), 95)
      /\ ~Told(b, f) => Metric(b, b.summary[f], "p95") = None
  <2>1. MetricTells(b, n, f)
    BY MetricFacts
  <2> QED BY <2>1 DEF MetricTells
<1>2. /\ Told(c, f) =>
           /\ Numbers(k, Successes(c.attempts), ByIndex(c.attempts, f))
           /\ Metric(c, c.summary[f], "p95") = NearestRank(ByIndex(c.attempts, f), 95)
      /\ ~Told(c, f) => Metric(c, c.summary[f], "p95") = None
  <2>1. MetricTells(c, k, f)
    BY MetricFacts
  <2> QED BY <2>1 DEF MetricTells
<1> DEFINE D == Successes(b.attempts)
           E == Successes(c.attempts)
           v == ByIndex(b.attempts, f)
           w == ByIndex(c.attempts, f)
           x == NearestRank(v, 95)
           y == NearestRank(w, 95)
           before == Metric(b, b.summary[f], "p95")
           after == Metric(c, c.summary[f], "p95")
<1>3. NoRegression(b, c, f, t)
        <=> /\ before # None /\ after # None
            /\ before # 0 /\ 100 * (after - before) <= t * before
  BY DEF NoRegression, Evaluated
<1>4. ASSUME Told(b, f), Told(c, f)
      PROVE  /\ x # None /\ y # None
             /\ x # 0 /\ 100 * (y - x) <= t * x <=> WithinTime(b, c, f, t)
  <2>1. Numbers(n, D, v) /\ Numbers(k, E, w)
    BY <1>1, <1>2, <1>4
  <2>2. x \in Nat /\ y \in Nat
    BY <2>1, RankMeans, 95 \in 1..100
  <2>3. x # None /\ y # None
    BY <2>2 DEF CanaryAssumption
  <2>4. /\ \A i \in D : v[i] = b.attempts[i][f]
        /\ \A j \in E : w[j] = c.attempts[j][f]
        /\ DOMAIN v = D
    BY DEF ByIndex
  <2> HIDE DEF D, E, v, w
  <2>5. x # 0 /\ 100 * (y - x) <= t * x
          <=> AllWithin(D, v, E, w, t)
    BY <2>1, WithinFacts
  <2> HIDE DEF x, y
  <2>6. {i \in D : v[i] = 0} = {i \in D : b.attempts[i][f] = 0}
    BY <2>4
  <2>7. ASSUME NEW i \in D
        PROVE  /\ UpTo(v, v[i]) = {j \in D : b.attempts[j][f] <= b.attempts[i][f]}
               /\ {j \in E : 100 * w[j] <= (100 + t) * v[i]}
                    = {j \in E : 100 * c.attempts[j][f] <= (100 + t) * b.attempts[i][f]}
    BY <2>4 DEF UpTo
  <2>8. WithinTime(b, c, f, t)
          <=> /\ ~Most({i \in D : b.attempts[i][f] = 0}, Cardinality(D), 95)
              /\ \A i \in D :
                   Most({j \in D : b.attempts[j][f] <= b.attempts[i][f]}, Cardinality(D), 95) =>
                     Most({j \in E : 100 * c.attempts[j][f] <= (100 + t) * b.attempts[i][f]},
                          Cardinality(E), 95)
    BY DEF WithinTime, Succeeded, Successes, D, E
  <2>9. ASSUME NEW i \in D
        PROVE  /\ Most(UpTo(v, v[i]), Cardinality(D), 95)
                    <=> Most({j \in D : b.attempts[j][f] <= b.attempts[i][f]}, Cardinality(D), 95)
               /\ Most({j \in E : 100 * w[j] <= (100 + t) * v[i]}, Cardinality(E), 95)
                    <=> Most({j \in E : 100 * c.attempts[j][f] <= (100 + t) * b.attempts[i][f]},
                             Cardinality(E), 95)
    BY Zenon, <2>7
  <2>10. Most({i \in D : v[i] = 0}, Cardinality(D), 95)
           <=> Most({i \in D : b.attempts[i][f] = 0}, Cardinality(D), 95)
    BY Zenon, <2>6
  <2> QED BY Zenon, <2>3, <2>5, <2>8, <2>9, <2>10 DEF AllWithin
<1>5. /\ Told(b, f) => before = x
      /\ ~Told(b, f) => before = None
      /\ Told(c, f) => after = y
      /\ ~Told(c, f) => after = None
  BY <1>1, <1>2
<1> HIDE DEF D, E, v, w, x, y, before, after
<1>6. CASE Told(b, f) /\ Told(c, f)
  BY <1>5, <1>3, <1>4, <1>6
<1>7. CASE ~(Told(b, f) /\ Told(c, f))
  BY <1>5, <1>3, <1>7
<1> QED BY <1>6, <1>7

\* The gate on the median rate, see ratio_gate, is what it is about.
LEMMA RatioMeans ==
  ASSUME CanaryAssumption, RolloutAssumption, NEW t \in Nat,
         NEW b, Integrity(b), NEW n, Attempted(b.attempts, n),
         NEW c, Integrity(c), NEW k, Attempted(c.attempts, k)
  PROVE  RatioKept(b, c, t) <=> Told(b, "rate") /\ Told(c, "rate") /\ KeepsRate(b, c, t)
<1>0. "rate" \in Fields
  BY DEF Fields
<1>1. /\ Told(b, "rate") =>
           /\ Numbers(n, Successes(b.attempts), ByIndex(b.attempts, "rate"))
           /\ Metric(b, b.summary["rate"], "p50") = NearestRank(ByIndex(b.attempts, "rate"), 50)
      /\ ~Told(b, "rate") => Metric(b, b.summary["rate"], "p50") = None
  <2>1. MetricTells(b, n, "rate")
    BY <1>0, MetricFacts
  <2> QED BY <2>1 DEF MetricTells
<1>2. /\ Told(c, "rate") =>
           /\ Numbers(k, Successes(c.attempts), ByIndex(c.attempts, "rate"))
           /\ Metric(c, c.summary["rate"], "p50") = NearestRank(ByIndex(c.attempts, "rate"), 50)
      /\ ~Told(c, "rate") => Metric(c, c.summary["rate"], "p50") = None
  <2>1. MetricTells(c, k, "rate")
    BY <1>0, MetricFacts
  <2> QED BY <2>1 DEF MetricTells
<1> DEFINE D == Successes(b.attempts)
           E == Successes(c.attempts)
           v == ByIndex(b.attempts, "rate")
           w == ByIndex(c.attempts, "rate")
           x == NearestRank(v, 50)
           y == NearestRank(w, 50)
           before == Metric(b, b.summary["rate"], "p50")
           after == Metric(c, c.summary["rate"], "p50")
<1>3. RatioKept(b, c, t)
        <=> /\ before # None /\ after # None
            /\ before # 0 /\ 100 * after >= t * before
  BY DEF RatioKept, Evaluated
<1>4. ASSUME Told(b, "rate"), Told(c, "rate")
      PROVE  /\ x # None /\ y # None
             /\ x # 0 /\ 100 * y >= t * x <=> KeepsRate(b, c, t)
  <2>1. Numbers(n, D, v) /\ Numbers(k, E, w)
    BY <1>1, <1>2, <1>4
  <2>2. x \in Nat /\ y \in Nat
    BY <2>1, RankMeans, 50 \in 1..100
  <2>3. x # None /\ y # None
    BY <2>2 DEF CanaryAssumption
  <2>4. /\ \A i \in D : v[i] = b.attempts[i]["rate"]
        /\ \A j \in E : w[j] = c.attempts[j]["rate"]
        /\ DOMAIN v = D
    BY DEF ByIndex
  <2> HIDE DEF D, E, v, w
  <2>5. x # 0 /\ 100 * y >= t * x
          <=> HalfKeep(D, v, E, w, t)
    BY <2>1, RatioFacts
  <2> HIDE DEF x, y
  <2>6. {i \in D : v[i] = 0} = {i \in D : b.attempts[i]["rate"] = 0}
    BY <2>4
  <2>7. ASSUME NEW i \in D
        PROVE  /\ UpTo(v, v[i]) = {j \in D : b.attempts[j]["rate"] <= b.attempts[i]["rate"]}
               /\ {j \in E : 100 * w[j] < t * v[i]}
                    = {j \in E : 100 * c.attempts[j]["rate"] < t * b.attempts[i]["rate"]}
    BY <2>4 DEF UpTo
  <2>8. KeepsRate(b, c, t)
          <=> /\ ~Most({i \in D : b.attempts[i]["rate"] = 0}, Cardinality(D), 50)
              /\ \E i \in D :
                   /\ Most({j \in D : b.attempts[j]["rate"] <= b.attempts[i]["rate"]},
                           Cardinality(D), 50)
                   /\ ~Most({j \in E : 100 * c.attempts[j]["rate"] < t * b.attempts[i]["rate"]},
                            Cardinality(E), 50)
    BY DEF KeepsRate, Succeeded, Successes, D, E
  <2>9. ASSUME NEW i \in D
        PROVE  /\ Most(UpTo(v, v[i]), Cardinality(D), 50)
                    <=> Most({j \in D : b.attempts[j]["rate"] <= b.attempts[i]["rate"]},
                             Cardinality(D), 50)
               /\ Most({j \in E : 100 * w[j] < t * v[i]}, Cardinality(E), 50)
                    <=> Most({j \in E : 100 * c.attempts[j]["rate"] < t * b.attempts[i]["rate"]},
                             Cardinality(E), 50)
    BY Zenon, <2>7
  <2>10. Most({i \in D : v[i] = 0}, Cardinality(D), 50)
           <=> Most({i \in D : b.attempts[i]["rate"] = 0}, Cardinality(D), 50)
    BY Zenon, <2>6
  <2> QED BY Zenon, <2>3, <2>5, <2>8, <2>9, <2>10 DEF HalfKeep
<1>5. /\ Told(b, "rate") => before = x
      /\ ~Told(b, "rate") => before = None
      /\ Told(c, "rate") => after = y
      /\ ~Told(c, "rate") => after = None
  BY <1>1, <1>2
<1> HIDE DEF D, E, v, w, x, y, before, after
<1>6. CASE Told(b, "rate") /\ Told(c, "rate")
  BY <1>5, <1>3, <1>4, <1>6
<1>7. CASE ~(Told(b, "rate") /\ Told(c, "rate"))
  BY <1>5, <1>3, <1>7
<1> QED BY <1>6, <1>7

\* The loss of successes, of as many attempts, is that of the percentages.
LEMMA DropMeans ==
  ASSUME CanaryAssumption, NEW t \in Nat, NEW n,
         NEW b, Integrity(b), Attempted(b.attempts, n), Successes(b.attempts) # {},
         NEW c, Integrity(c), Attempted(c.attempts, n)
  PROVE  SuccessDrop(b, c, t)
           <=> 100 * (Cardinality(Successes(b.attempts)) - Cardinality(Successes(c.attempts)))
                 <= t * n
<1> DEFINE x == Cardinality(Successes(b.attempts))
           y == Cardinality(Successes(c.attempts))
<1>1. /\ b.summary.attempted = n /\ b.summary.succeeded = x
      /\ c.summary.attempted = n /\ c.summary.succeeded = y
  BY IntegrityFacts DEF Attempted
<1>2. n \in Nat \ {0}
  BY DEF Attempted
<1>3. "ttft" \in Fields
  BY DEF Fields
<1>4. x \in 0..n /\ x # 0
  BY <1>3, CompleteFacts
<1>5. y \in 0..n
  BY <1>3, CompleteFacts
<1> HIDE DEF x, y
<1>6. x \in Nat /\ y \in Nat /\ x > 0 /\ n > 0
  BY <1>2, <1>4, <1>5
<1>7. SuccessDrop(b, c, t) <=> 100 * (x * n - y * n) <= t * n * n
  BY <1>1, <1>6 DEF SuccessDrop
<1>8. t * n \in Nat /\ x * n \in Nat /\ y * n \in Nat
  BY <1>2, <1>6, t <= t, x <= x, y <= y, TimesMonotone
<1>9. PICK p \in Nat, q \in Nat : p = 100 * x /\ q = t * n + 100 * y
  BY <1>6, <1>8
<1>10. p * n = 100 * (x * n) /\ q * n = t * n * n + 100 * (y * n)
  BY <1>2, <1>6, <1>8, <1>9
<1>11. p <= q <=> p * n <= q * n
  <2>1. p <= q => p * n <= q * n
    BY <1>2, TimesMonotone
  <2>2. ASSUME q < p
        PROVE  q * n < p * n
    <3>1. (q + 1) * n <= p * n
      BY <1>2, <2>2, q + 1 \in Nat, q + 1 <= p, TimesMonotone
    <3>2. (q + 1) * n = q * n + n /\ q * n \in Nat /\ p * n \in Nat
      BY <1>2, q <= q, p <= p, TimesMonotone
    <3> QED BY <1>2, <3>1, <3>2
  <2>3. q * n \in Int /\ p * n \in Int
    BY <1>2
  <2> QED BY <2>1, <2>2, <2>3
<1>12. 100 * (x - y) <= t * n <=> p <= q
  BY <1>6, <1>8, <1>9
<1>13. 100 * (x * n - y * n) <= t * n * n <=> p * n <= q * n
  <2>1. t * n * n \in Nat
    BY <1>2, <1>8, t * n <= t * n, TimesMonotone
  <2> QED BY <1>8, <1>10, <2>1
<1> QED BY <1>7, <1>11, <1>12, <1>13 DEF x, y

\* What a report that is accepted was made of.
Sound(r) ==
  Integrity(r) => r.policy \in Policies /\ \E n : Attempted(r.attempts, n)

\* The checks on two reports all pass when they are alike.
LEMMA AlikeFacts ==
  ASSUME NEW b, NEW c
  PROVE  (\A f \in DOMAIN Compatibility(b, c) : Compatibility(b, c)[f]) <=> Alike(b, c)
<1> DEFINE checks == Compatibility(b, c)
<1>1. /\ checks.integrity <=> Integrity(b) /\ Integrity(c)
      /\ checks.version <=> b.version = 2 /\ c.version = 2
      /\ checks.order <=> c.started >= b.started
      /\ checks.status <=> b.status = "pass" /\ c.status = "pass"
      /\ checks.workload <=> b.workload = c.workload
      /\ checks.target <=> b.target = c.target
      /\ checks.stream <=> b.stream = c.stream
      /\ checks.plan <=> b.plan = c.plan
      /\ checks.policy <=> b.policy # None /\ c.policy # None /\ b.policy = c.policy
      /\ DOMAIN checks = {"integrity", "version", "order", "status", "workload",
                          "target", "stream", "plan", "policy"}
  BY DEF Compatibility
<1>2. \A r \in {b, c} : Integrity(r) => r.version = 2 /\ r.policy # None
  BY DEF Integrity
<1> HIDE DEF checks
<1>3. (\A f \in DOMAIN checks : checks[f])
        <=> /\ checks.integrity /\ checks.version /\ checks.order /\ checks.status
            /\ checks.workload /\ checks.target /\ checks.stream /\ checks.plan
            /\ checks.policy
  BY <1>1
<1>4. (\A f \in DOMAIN checks : checks[f]) <=> Alike(b, c)
  BY <1>1, <1>2, <1>3 DEF Alike
<1> QED BY <1>4 DEF checks

\* The selected gates, of intact reports, by their names.
LEMMA GateFacts ==
  ASSUME RolloutAssumption, NEW b, NEW c, Integrity(b), Integrity(c), NEW t \in Thresholds
  PROVE  (\A f \in DOMAIN RolloutGates(b, c, t) : RolloutGates(b, c, t)[f])
           <=> /\ t.ttft # None => NoRegression(b, c, "ttft", t.ttft)
               /\ t.e2e # None => NoRegression(b, c, "e2e", t.e2e)
               /\ t.rate # None => RatioKept(b, c, t.rate)
               /\ t.drop # None => SuccessDrop(b, c, t.drop)
<1> DEFINE gates == RolloutGates(b, c, t)
<1>1. DOMAIN t = {"ttft", "e2e", "rate", "drop"}
  BY DEF RolloutAssumption
<1>2. /\ "ttft" \in DOMAIN gates <=> t.ttft # None
      /\ "e2e" \in DOMAIN gates <=> t.e2e # None
      /\ "rate" \in DOMAIN gates <=> t.rate # None
      /\ "drop" \in DOMAIN gates <=> t.drop # None
      /\ DOMAIN gates \subseteq {"ttft", "e2e", "rate", "drop"}
  BY <1>1 DEF RolloutGates
<1>3. /\ t.ttft # None => (gates["ttft"] <=> NoRegression(b, c, "ttft", t.ttft))
      /\ t.e2e # None => (gates["e2e"] <=> NoRegression(b, c, "e2e", t.e2e))
      /\ t.rate # None => (gates["rate"] <=> RatioKept(b, c, t.rate))
      /\ t.drop # None => (gates["drop"] <=> SuccessDrop(b, c, t.drop))
  BY <1>1 DEF RolloutGates
<1> HIDE DEF gates
<1>4. (\A f \in DOMAIN gates : gates[f])
        <=> /\ t.ttft # None => gates["ttft"]
            /\ t.e2e # None => gates["e2e"]
            /\ t.rate # None => gates["rate"]
            /\ t.drop # None => gates["drop"]
  BY <1>2
<1> QED BY <1>3, <1>4 DEF gates

\* The decision is what it is about.
LEMMA ComparisonMeans ==
  ASSUME CanaryAssumption, RolloutAssumption, NEW t \in Thresholds, ThresholdsValid(t),
         NEW b, Sound(b), NEW c, Sound(c)
  PROVE  ~Comparison(b, c, t).regression
           <=> /\ Alike(b, c)
               /\ t.ttft # None =>
                    Told(b, "ttft") /\ Told(c, "ttft") /\ WithinTime(b, c, "ttft", t.ttft)
               /\ t.e2e # None =>
                    Told(b, "e2e") /\ Told(c, "e2e") /\ WithinTime(b, c, "e2e", t.e2e)
               /\ t.rate # None =>
                    Told(b, "rate") /\ Told(c, "rate") /\ KeepsRate(b, c, t.rate)
               /\ t.drop # None =>
                    100 * (Cardinality(Successes(b.attempts))
                           - Cardinality(Successes(c.attempts)))
                      <= t.drop * Len(b.attempts)
<1> DEFINE checks == Compatibility(b, c)
           gates == RolloutGates(b, c, t)
<1>1. Comparison(b, c, t).regression
        = (~(\A f \in DOMAIN checks : checks[f]) \/ \E f \in DOMAIN gates : ~gates[f])
  BY DEF Comparison
<1>2. ~Comparison(b, c, t).regression
        <=> Alike(b, c) /\ \A f \in DOMAIN gates : gates[f]
  <2>1. (\A f \in DOMAIN checks : checks[f]) <=> Alike(b, c)
    BY AlikeFacts
  <2> HIDE DEF checks, gates
  <2> QED BY <1>1, <2>1
<1>3. ASSUME Alike(b, c)
      PROVE  /\ t.ttft # None =>
                  (NoRegression(b, c, "ttft", t.ttft)
                     <=> Told(b, "ttft") /\ Told(c, "ttft") /\ WithinTime(b, c, "ttft", t.ttft))
             /\ t.e2e # None =>
                  (NoRegression(b, c, "e2e", t.e2e)
                     <=> Told(b, "e2e") /\ Told(c, "e2e") /\ WithinTime(b, c, "e2e", t.e2e))
             /\ t.rate # None =>
                  (RatioKept(b, c, t.rate)
                     <=> Told(b, "rate") /\ Told(c, "rate") /\ KeepsRate(b, c, t.rate))
             /\ t.drop # None =>
                  (SuccessDrop(b, c, t.drop)
                     <=> 100 * (Cardinality(Successes(b.attempts))
                                - Cardinality(Successes(c.attempts)))
                           <= t.drop * Len(b.attempts))
  <2>1. Integrity(b) /\ Integrity(c) /\ b.plan = c.plan /\ b.status = "pass"
    BY <1>3 DEF Alike
  <2>2. PICK n, k : Attempted(b.attempts, n) /\ Attempted(c.attempts, k) /\ b.policy \in Policies
    BY <2>1 DEF Sound
  <2>3. k = n /\ Len(b.attempts) = n
    <3>1. Len(b.attempts) = b.plan.count /\ Len(c.attempts) = c.plan.count
      BY <2>1, IntegrityFacts
    <3>2. Len(b.attempts) = n /\ Len(c.attempts) = k
      BY <2>2 DEF Attempted
    <3> QED BY <2>1, <3>1, <3>2
  <2>4. Successes(b.attempts) # {}
    <3>1. /\ ValidPolicy(b.policy) /\ b.status = Status(Gates(b.summary, b.policy))
          /\ b.summary = Summary(b.attempts, b.summary.pace)
      BY <2>1 DEF Integrity
    <3>2. PICK pace : b.summary = Summary(b.attempts, pace)
      BY <3>1
    <3>3. Status(Gates(Summary(b.attempts, pace), b.policy)) = "pass"
            <=> Earned(b.attempts, b.policy)
      BY <2>2, <3>1, StatusFacts
    <3>4. Earned(b.attempts, b.policy)
      BY <2>1, <3>1, <3>2, <3>3
    <3> QED BY <3>4 DEF Earned
  <2>5. /\ t.ttft # None => t.ttft \in Nat
        /\ t.e2e # None => t.e2e \in Nat
        /\ t.rate # None => t.rate \in Nat
        /\ t.drop # None => t.drop \in Nat
    BY DEF ThresholdsValid
  <2>6. "ttft" \in Fields /\ "e2e" \in Fields
    BY DEF Fields
  <2>7. t.ttft # None =>
          (NoRegression(b, c, "ttft", t.ttft)
             <=> Told(b, "ttft") /\ Told(c, "ttft") /\ WithinTime(b, c, "ttft", t.ttft))
    BY <2>1, <2>2, <2>5, <2>6, RegressionMeans
  <2>8. t.e2e # None =>
          (NoRegression(b, c, "e2e", t.e2e)
             <=> Told(b, "e2e") /\ Told(c, "e2e") /\ WithinTime(b, c, "e2e", t.e2e))
    BY <2>1, <2>2, <2>5, <2>6, RegressionMeans
  <2>9. t.rate # None =>
          (RatioKept(b, c, t.rate)
             <=> Told(b, "rate") /\ Told(c, "rate") /\ KeepsRate(b, c, t.rate))
    BY <2>1, <2>2, <2>5, RatioMeans
  <2>10. t.drop # None =>
           (SuccessDrop(b, c, t.drop)
              <=> 100 * (Cardinality(Successes(b.attempts)) - Cardinality(Successes(c.attempts)))
                    <= t.drop * n)
    BY <2>1, <2>2, <2>3, <2>4, <2>5, DropMeans
  <2> QED BY <2>3, <2>7, <2>8, <2>9, <2>10
<1>4. ASSUME Alike(b, c)
      PROVE  (\A f \in DOMAIN gates : gates[f])
               <=> /\ t.ttft # None => NoRegression(b, c, "ttft", t.ttft)
                   /\ t.e2e # None => NoRegression(b, c, "e2e", t.e2e)
                   /\ t.rate # None => RatioKept(b, c, t.rate)
                   /\ t.drop # None => SuccessDrop(b, c, t.drop)
  BY <1>4, GateFacts DEF Alike
<1> HIDE DEF checks, gates
<1> QED BY <1>2, <1>3, <1>4

-----------------------------------------------------------------------------
(* The rollout's invariant.                                                *)

\* The two reports are what a canary wrote or refused for what they say, and the
\* verdict is the comparison of two such reports under valid thresholds.
RolloutInv ==
  /\ CanaryInv
  /\ baseline # None => Sound(baseline)
  /\ verdict # None => \E b, c, t : /\ Sound(b) /\ Sound(c)
                                    /\ t \in Thresholds /\ ThresholdsValid(t)
                                    /\ verdict = Comparison(b, c, t)

\* What is read back is either refused or was written of a batch.
LEMMA SavedSound ==
  ASSUME CanaryAssumption, CanaryInv, saved # None \/ pc = "saved"
  PROVE  Sound(saved)
<1> SUFFICES ASSUME Integrity(saved)
             PROVE  saved.policy \in Policies /\ \E n : Attempted(saved.attempts, n)
  BY DEF Sound
<1>1. Ran /\ saved = Written
  BY SavedFacts
<1>2. saved.policy = options.policy /\ saved.attempts = attempts
  BY <1>1 DEF Written
<1>3. options.policy \in Policies
  BY <1>1, OptionFacts
<1>4. Attempted(attempts, options.count)
  BY <1>1 DEF Ran
<1> QED BY <1>2, <1>3, <1>4

\* A rollout starts without a kept report and without a verdict.
LEMMA InitRollout == RolloutInit => RolloutInv
BY InitCanary DEF RolloutInit, RolloutInv

\* No step of a rollout takes the evidence of a report away.
LEMMA RolloutStep ==
  ASSUME CanaryAssumption, RolloutInv, [RolloutNext]_rolloutVars
  PROVE  RolloutInv'
<1>1. /\ CanaryInv
      /\ baseline # None => Sound(baseline)
      /\ verdict # None => \E b, c, t : /\ Sound(b) /\ Sound(c)
                                        /\ t \in Thresholds /\ ThresholdsValid(t)
                                        /\ verdict = Comparison(b, c, t)
  BY DEF RolloutInv
<1>2. CASE [Next]_vars /\ UNCHANGED <<baseline, verdict>>
  <2>1. CanaryInv'
    BY <1>1, <1>2, CanaryStep
  <2>2. baseline' = baseline /\ verdict' = verdict
    BY <1>2
  <2> QED BY <1>1, <2>1, <2>2 DEF RolloutInv
<1>3. CASE Keep
  <2>1. /\ baseline' = saved /\ verdict' = verdict /\ options' \in Options
        /\ started' \in {0, 1} /\ pc' = "validate" /\ report' = None /\ saved' = None
    BY <1>3 DEF Keep
  <2>2. CanaryInv'
    BY <2>1 DEF CanaryInv
  <2>3. baseline' # None => Sound(baseline')
    BY <1>1, <2>1, SavedSound
  <2> QED BY <1>1, <2>1, <2>2, <2>3 DEF RolloutInv
<1>4. ASSUME NEW t \in Thresholds, Compare(t)
      PROVE  RolloutInv'
  <2>1. /\ pc = "saved" /\ baseline # None /\ ThresholdsValid(t)
        /\ verdict' = Comparison(baseline, saved, t) \/ verdict' = Comparison(saved, baseline, t)
        /\ UNCHANGED vars /\ baseline' = baseline
    BY <1>4 DEF Compare
  <2>2. CanaryInv'
    BY <1>1, <2>1, CanaryStep
  <2>3. Sound(baseline)
    BY <1>1, <2>1
  <2>4. Sound(saved)
    BY <1>1, <2>1, SavedSound
  <2>5. \E b, c, s : /\ Sound(b) /\ Sound(c) /\ s \in Thresholds /\ ThresholdsValid(s)
                     /\ verdict' = Comparison(b, c, s)
    BY <2>1, <2>3, <2>4
  <2> QED BY <2>1, <2>2, <2>3, <2>5 DEF RolloutInv
<1>5. ASSUME NEW t \in Thresholds, CompareRefused(t)
      PROVE  RolloutInv'
  <2>1. /\ pc = "saved" /\ pc' = "refused"
        /\ UNCHANGED <<options, started, attempts, duration, report, saved, baseline, verdict>>
    BY <1>5 DEF CompareRefused
  <2>2. /\ Ran /\ report = Written /\ options \in Options /\ started \in {0, 1}
        /\ saved = Read \/ saved \in Damages(Read)
    BY <1>1, <2>1 DEF CanaryInv
  <2>3. Ran' /\ Written' = Written /\ Read' = Read
    BY <2>1, <2>2, RanStays
  <2>4. Damages(Read)' = Damages(Read)
    BY <2>3 DEF Damages
  <2>5. CanaryInv'
    BY <2>1, <2>2, <2>3, <2>4 DEF CanaryInv
  <2> QED BY <1>1, <2>1, <2>5 DEF RolloutInv
<1>6. CASE UNCHANGED rolloutVars
  BY <1>2, <1>6 DEF rolloutVars
<1> QED BY <1>2, <1>3, <1>4, <1>5, <1>6 DEF RolloutNext

\* The invariant says what the verdict has to.
LEMMA VerdictExact ==
  ASSUME CanaryAssumption, RolloutAssumption, RolloutInv
  PROVE  RolloutVerdictExact
<1> SUFFICES ASSUME verdict # None
             PROVE  RolloutVerdictExact
  BY DEF RolloutVerdictExact
<1>1. PICK b, c, t : /\ Sound(b) /\ Sound(c) /\ t \in Thresholds /\ ThresholdsValid(t)
                     /\ verdict = Comparison(b, c, t)
  BY DEF RolloutInv
<1>2. /\ verdict.baseline = b /\ verdict.candidate = c /\ verdict.thresholds = t
      /\ verdict.regression = Comparison(b, c, t).regression
  BY <1>1 DEF Comparison
<1>3. Succeeded(b) = Successes(b.attempts) /\ Succeeded(c) = Successes(c.attempts)
  BY DEF Succeeded, Successes
<1>4. ~Comparison(b, c, t).regression
        <=> /\ Alike(b, c)
            /\ t.ttft # None =>
                 Told(b, "ttft") /\ Told(c, "ttft") /\ WithinTime(b, c, "ttft", t.ttft)
            /\ t.e2e # None =>
                 Told(b, "e2e") /\ Told(c, "e2e") /\ WithinTime(b, c, "e2e", t.e2e)
            /\ t.rate # None =>
                 Told(b, "rate") /\ Told(c, "rate") /\ KeepsRate(b, c, t.rate)
            /\ t.drop # None =>
                 100 * (Cardinality(Successes(b.attempts)) - Cardinality(Successes(c.attempts)))
                   <= t.drop * Len(b.attempts)
  BY <1>1, ComparisonMeans
<1> QED BY <1>2, <1>3, <1>4 DEF RolloutVerdictExact

\* StatusIsEarned also of the canaries a rollout is made of: the second one,
\* run when a first report was kept, is judged by its own evidence.
THEOREM RolloutStatusIsEarned ==
  ASSUME CanaryAssumption
  PROVE  RolloutSpec => []StatusIsEarned
<1>1. RolloutInit => RolloutInv
  BY InitRollout
<1>2. RolloutInv /\ [RolloutNext]_rolloutVars => RolloutInv'
  BY RolloutStep
<1>3. RolloutInv => StatusIsEarned
  BY StatusEarned DEF RolloutInv
<1> QED BY <1>1, <1>2, <1>3, PTL DEF RolloutSpec

\* RolloutVerdictExact for all reports and thresholds (src/operations/rollout.rs):
\* the release gate opens exactly when the evidence of both canaries allows it.
THEOREM RolloutIsExact ==
  ASSUME CanaryAssumption, RolloutAssumption
  PROVE  RolloutSpec => []RolloutVerdictExact
<1>1. RolloutInit => RolloutInv
  BY InitRollout
<1>2. RolloutInv /\ [RolloutNext]_rolloutVars => RolloutInv'
  BY RolloutStep
<1>3. RolloutInv => RolloutVerdictExact
  BY VerdictExact
<1> QED BY <1>1, <1>2, <1>3, PTL DEF RolloutSpec

-----------------------------------------------------------------------------
(* The gate on monitoring reports, for any reports and any number of them. *)

CONSTANTS Reports, MaxReports
VARIABLES history, verdicts

Monitoring == INSTANCE ReportCompare

\* Each verdict is the comparison of the reports it names.
GateInv ==
  /\ history \in Seq(Reports)
  /\ verdicts \in Seq({verdicts[i] : i \in DOMAIN verdicts})
  /\ \A i \in DOMAIN verdicts :
       /\ verdicts[i].from \in DOMAIN history /\ verdicts[i].to \in DOMAIN history
       /\ verdicts[i].comparison =
            Monitoring!Compare(history[verdicts[i].from], history[verdicts[i].to])

\* Lists of entities.
Listed(list) == list \in Seq({list[i] : i \in DOMAIN list} \ {None})

\* What is found under a key is an entity, and only under a key there is.
LEMMA FindFacts ==
  ASSUME NEW list, Listed(list), NEW key
  PROVE  Monitoring!Find(list, key) # None <=> key \in Monitoring!Keys(list)
<1>1. CASE key \in Monitoring!Keys(list)
  <2> DEFINE T == {i \in DOMAIN list : list[i].key = key}
  <2>1. T \in SUBSET (0..Len(list)) /\ T # {} /\ Len(list) \in Nat
    BY <1>1 DEF Monitoring!Keys, Listed
  <2>2. Max(T) \in T
    <3> HIDE DEF T
    <3> QED BY <2>1, LargestOf
  <2>3. \A i \in DOMAIN list : list[i] # None
    BY DEF Listed
  <2>4. Monitoring!Find(list, key) = list[Max(T)]
    BY <1>1 DEF Monitoring!Find, Monitoring!Max, Max
  <2>5. Max(T) \in DOMAIN list
    BY <2>2
  <2> HIDE DEF T
  <2> QED BY <1>1, <2>3, <2>4, <2>5
<1>2. CASE key \notin Monitoring!Keys(list)
  BY <1>2 DEF Monitoring!Find
<1> QED BY <1>1, <1>2

\* The deltas of two lists, entity by entity.
LEMMA DeltaFacts ==
  ASSUME NEW a, NEW b, Listed(a), Listed(b)
  PROVE  LET d == Monitoring!Deltas(a, b)
         IN  /\ \A key : /\ Monitoring!Find(a, key) # None => key \in DOMAIN d
                         /\ Monitoring!Find(b, key) # None => key \in DOMAIN d
             /\ \A key \in DOMAIN d :
                  /\ Monitoring!Find(a, key) # None \/ Monitoring!Find(b, key) # None
                  /\ d[key].before = Monitoring!Find(a, key)
                  /\ d[key].after = Monitoring!Find(b, key)
                  /\ d[key].change = "added" <=> Monitoring!Find(a, key) = None
                  /\ d[key].change = "removed" <=> Monitoring!Find(b, key) = None
<1> DEFINE d == Monitoring!Deltas(a, b)
<1>1. /\ DOMAIN d = Monitoring!Keys(a) \cup Monitoring!Keys(b)
      /\ \A key \in DOMAIN d :
           d[key] = Monitoring!Delta(Monitoring!Find(a, key), Monitoring!Find(b, key))
  BY DEF Monitoring!Deltas
<1>2. \A key : /\ Monitoring!Find(a, key) # None <=> key \in Monitoring!Keys(a)
               /\ Monitoring!Find(b, key) # None <=> key \in Monitoring!Keys(b)
  BY FindFacts
<1> HIDE DEF d
<1>3. ASSUME NEW key \in DOMAIN d
      PROVE  /\ Monitoring!Find(a, key) # None \/ Monitoring!Find(b, key) # None
             /\ d[key].before = Monitoring!Find(a, key)
             /\ d[key].after = Monitoring!Find(b, key)
             /\ d[key].change = "added" <=> Monitoring!Find(a, key) = None
             /\ d[key].change = "removed" <=> Monitoring!Find(b, key) = None
  <2>1. Monitoring!Find(a, key) # None \/ Monitoring!Find(b, key) # None
    BY <1>1, <1>2
  <2> DEFINE x == Monitoring!Find(a, key)
             y == Monitoring!Find(b, key)
  <2>2. d[key] = [change |-> Monitoring!Change(x, y), before |-> x, after |-> y]
    BY <1>1 DEF Monitoring!Delta
  <2> HIDE DEF x, y
  <2>3. /\ Monitoring!Change(x, y) = "added" <=> x = None
        /\ Monitoring!Change(x, y) = "removed" <=> x # None /\ y = None
    BY <2>1 DEF Monitoring!Change, x, y
  <2>4. /\ d[key].change = Monitoring!Change(x, y)
        /\ d[key].before = x /\ d[key].after = y
    BY <2>2
  <2> QED BY <2>1, <2>3, <2>4 DEF x, y
<1> QED BY <1>1, <1>2, <1>3 DEF d

\* What became of an entity over two steps that are no regression is none:
\* said for the three kinds of entities, whatever the lists between.
LEMMA DeltasCompose ==
  ASSUME NEW a, NEW b, NEW c, Listed(a), Listed(b), Listed(c)
  PROVE  LET ab == Monitoring!Deltas(a, b)
             bc == Monitoring!Deltas(b, c)
             ac == Monitoring!Deltas(a, c)
         IN  /\ (\E k \in DOMAIN ac : ac[k].change = "removed") =>
                  \/ \E k \in DOMAIN ab : ab[k].change = "removed"
                  \/ \E k \in DOMAIN bc : bc[k].change = "removed"
             /\ (\E k \in DOMAIN ac : Monitoring!EndpointRegressed(ac[k])) =>
                  \/ \E k \in DOMAIN ab : Monitoring!EndpointRegressed(ab[k])
                  \/ \E k \in DOMAIN bc : Monitoring!EndpointRegressed(bc[k])
             /\ (\E k \in DOMAIN ac : Monitoring!SourceRegressed(ac[k])) =>
                  \/ \E k \in DOMAIN ab : Monitoring!SourceRegressed(ab[k])
                  \/ \E k \in DOMAIN bc : Monitoring!SourceRegressed(bc[k])
<1> DEFINE ab == Monitoring!Deltas(a, b)
           bc == Monitoring!Deltas(b, c)
           ac == Monitoring!Deltas(a, c)
           in(list, k) == Monitoring!Find(list, k)
<1>1. /\ \A k : in(a, k) # None \/ in(b, k) # None => k \in DOMAIN ab
      /\ \A k \in DOMAIN ab : /\ in(a, k) # None \/ in(b, k) # None
                              /\ ab[k].before = in(a, k) /\ ab[k].after = in(b, k)
                              /\ ab[k].change = "added" <=> in(a, k) = None
                              /\ ab[k].change = "removed" <=> in(b, k) = None
  BY DeltaFacts
<1>2. /\ \A k : in(b, k) # None \/ in(c, k) # None => k \in DOMAIN bc
      /\ \A k \in DOMAIN bc : /\ in(b, k) # None \/ in(c, k) # None
                              /\ bc[k].before = in(b, k) /\ bc[k].after = in(c, k)
                              /\ bc[k].change = "added" <=> in(b, k) = None
                              /\ bc[k].change = "removed" <=> in(c, k) = None
  BY DeltaFacts
<1>3. \A k \in DOMAIN ac : /\ in(a, k) # None \/ in(c, k) # None
                           /\ ac[k].before = in(a, k) /\ ac[k].after = in(c, k)
                           /\ ac[k].change = "added" <=> in(a, k) = None
                           /\ ac[k].change = "removed" <=> in(c, k) = None
  BY DeltaFacts
<1> HIDE DEF ab, bc, ac, in
<1>4. ASSUME NEW k \in DOMAIN ac, ac[k].change = "removed"
      PROVE  \/ k \in DOMAIN ab /\ ab[k].change = "removed"
             \/ k \in DOMAIN bc /\ bc[k].change = "removed"
  BY <1>1, <1>2, <1>3, <1>4
<1>5. ASSUME NEW k \in DOMAIN ac, Monitoring!EndpointRegressed(ac[k])
      PROVE  \/ k \in DOMAIN ab /\ Monitoring!EndpointRegressed(ab[k])
             \/ k \in DOMAIN bc /\ Monitoring!EndpointRegressed(bc[k])
  BY <1>1, <1>2, <1>3, <1>5, Zenon DEF Monitoring!EndpointRegressed
<1>6. ASSUME NEW k \in DOMAIN ac, Monitoring!SourceRegressed(ac[k])
      PROVE  \/ k \in DOMAIN ab /\ Monitoring!SourceRegressed(ab[k])
             \/ k \in DOMAIN bc /\ Monitoring!SourceRegressed(bc[k])
  BY <1>1, <1>2, <1>3, <1>6, Zenon DEF Monitoring!SourceRegressed
<1>7. /\ (\E k \in DOMAIN ac : ac[k].change = "removed") =>
           \/ \E k \in DOMAIN ab : ab[k].change = "removed"
           \/ \E k \in DOMAIN bc : bc[k].change = "removed"
      /\ (\E k \in DOMAIN ac : Monitoring!EndpointRegressed(ac[k])) =>
           \/ \E k \in DOMAIN ab : Monitoring!EndpointRegressed(ab[k])
           \/ \E k \in DOMAIN bc : Monitoring!EndpointRegressed(bc[k])
      /\ (\E k \in DOMAIN ac : Monitoring!SourceRegressed(ac[k])) =>
           \/ \E k \in DOMAIN ab : Monitoring!SourceRegressed(ab[k])
           \/ \E k \in DOMAIN bc : Monitoring!SourceRegressed(bc[k])
  BY <1>4, <1>5, <1>6
<1> QED BY <1>7 DEF ab, bc, ac

\* The comparison of three reports: a regression from the first to the last is
\* one on the way.
LEMMA CompareComposes ==
  ASSUME Monitoring!CompareAssumption, NEW a \in Reports, NEW b \in Reports, NEW c \in Reports,
         Monitoring!Compare(a, c).regression
  PROVE  Monitoring!Compare(a, b).regression \/ Monitoring!Compare(b, c).regression
<1> DEFINE New(x, y) == Monitoring!FindingDifference(y.findings, x.findings)
           Cards(x, y) == Monitoring!Deltas(Monitoring!Gpus(x), Monitoring!Gpus(y))
           Endpoints(x, y) == Monitoring!Deltas(x.endpoints, y.endpoints)
           Sources(x, y) == Monitoring!Deltas(x.sources, y.sources)
           Found(x, y) == \E f \in New(x, y) : f.severity \in Monitoring!Alarming
           CardGone(x, y) == \E k \in DOMAIN Cards(x, y) : Cards(x, y)[k].change = "removed"
           EndpointLost(x, y) ==
             \E k \in DOMAIN Endpoints(x, y) : Monitoring!EndpointRegressed(Endpoints(x, y)[k])
           SourceLost(x, y) ==
             \E k \in DOMAIN Sources(x, y) : Monitoring!SourceRegressed(Sources(x, y)[k])
           Lists(x) == {Monitoring!Gpus(x), x.endpoints, x.sources}
<1>1. \A x, y : Monitoring!Compare(x, y).regression
                  = (Found(x, y) \/ CardGone(x, y) \/ EndpointLost(x, y) \/ SourceLost(x, y))
  BY DEF Monitoring!Compare
<1>2. \A x \in Reports : Listed(Monitoring!Gpus(x)) /\ Listed(x.endpoints) /\ Listed(x.sources)
  <2>1. \A x \in Reports : \A list \in Lists(x) : Listed(list)
    BY DEF Monitoring!CompareAssumption, Listed
  <2>2. \A x : {Monitoring!Gpus(x), x.endpoints, x.sources} \subseteq Lists(x)
    OBVIOUS
  <2> HIDE DEF Lists
  <2> QED BY <2>1, <2>2
<1>4. CardGone(a, c) => CardGone(a, b) \/ CardGone(b, c)
  BY <1>2, DeltasCompose
<1>5. EndpointLost(a, c) => EndpointLost(a, b) \/ EndpointLost(b, c)
  BY <1>2, DeltasCompose
<1>6. SourceLost(a, c) => SourceLost(a, b) \/ SourceLost(b, c)
  BY <1>2, DeltasCompose
<1>7. Found(a, c) => Found(a, b) \/ Found(b, c)
  BY DEF Monitoring!FindingDifference
<1> HIDE DEF Found, CardGone, EndpointLost, SourceLost
<1> QED BY <1>1, <1>4, <1>5, <1>6, <1>7

\* Two lists in a row.
LEMMA JoinedFacts ==
  ASSUME NEW S, NEW s \in Seq(S), NEW t \in Seq(S), NEW joined, joined = s \o t
  PROVE  /\ Len(joined) = Len(s) + Len(t) /\ DOMAIN joined = 1..(Len(s) + Len(t))
         /\ \A i \in 1..(Len(s) + Len(t)) :
              joined[i] = IF i <= Len(s) THEN s[i] ELSE t[i - Len(s)]
BY ConcatProperties, LenProperties

\* A new report leaves the older ones and their verdicts as they are.
LEMMA GateStep ==
  ASSUME GateInv, [Monitoring!Next]_(Monitoring!vars)
  PROVE  GateInv'
<1>1. CASE UNCHANGED Monitoring!vars
  BY <1>1 DEF Monitoring!vars, GateInv
<1>2. ASSUME NEW r \in Reports, Monitoring!Collect(r)
      PROVE  GateInv'
  <2> DEFINE n == Len(history)
             m == Len(verdicts)
             fresh(i) == [from |-> i, to |-> n + 1,
                          comparison |-> Monitoring!Compare(history[i], r)]
             more == [i \in DOMAIN history |-> fresh(i)]
  <2>1. history' = Append(history, r) /\ verdicts' = verdicts \o more
    BY <1>2 DEF Monitoring!Collect
  <2>2. /\ n \in Nat /\ DOMAIN history = 1..n
        /\ m \in Nat /\ DOMAIN verdicts = 1..m
    BY DEF GateInv
  <2>3. /\ history' \in Seq(Reports) /\ DOMAIN history' = 1..(n + 1)
        /\ history'[n + 1] = r /\ \A i \in DOMAIN history : history'[i] = history[i]
    BY <2>1 DEF GateInv
  <2>4. DOMAIN more = 1..n /\ more \in Seq({more[i] : i \in 1..n}) /\ Len(more) = n
    <3> HIDE DEF fresh
    <3> QED BY <2>2
  <2>5. \A i \in 1..n : more[i] = fresh(i)
    BY <2>2
  <2>6. /\ verdicts \in Seq({verdicts[i] : i \in DOMAIN verdicts})
        /\ verdicts' \in Seq({verdicts[i] : i \in DOMAIN verdicts} \cup {more[i] : i \in 1..n})
    <3>1. verdicts \in Seq({verdicts[i] : i \in DOMAIN verdicts})
      BY DEF GateInv
    <3> HIDE DEF more
    <3> QED BY <2>1, <2>4, <3>1
  <2>7. /\ DOMAIN verdicts' = 1..(m + n)
        /\ \A i \in 1..m : verdicts'[i] = verdicts[i]
        /\ \A i \in 1..n : verdicts'[m + i] = more[i]
    <3> DEFINE S == {verdicts[i] : i \in DOMAIN verdicts} \cup {more[i] : i \in 1..n}
    <3>1. verdicts \in Seq(S) /\ more \in Seq(S)
      <4> HIDE DEF more
      <4> QED BY <2>4, <2>6
    <3> HIDE DEF more, S, n, m
    <3>2. /\ Len(verdicts) = m /\ Len(more) = n
          /\ verdicts' = verdicts \o more /\ m \in Nat /\ n \in Nat
      BY <2>1, <2>2, <2>4 DEF m
    <3>3. /\ Len(verdicts') = m + n
          /\ \A i \in 1..(m + n) :
               verdicts'[i] = IF i <= m THEN verdicts[i] ELSE more[i - m]
          /\ DOMAIN verdicts' = 1..(m + n)
      <4>1. verdicts' = verdicts \o more
        BY <3>2
      <4>2. /\ Len(verdicts') = Len(verdicts) + Len(more)
            /\ DOMAIN verdicts' = 1..(Len(verdicts) + Len(more))
            /\ \A i \in 1..(Len(verdicts) + Len(more)) :
                 verdicts'[i] = IF i <= Len(verdicts) THEN verdicts[i]
                                ELSE more[i - Len(verdicts)]
        BY <3>1, <4>1, JoinedFacts, SMT
      <4> QED BY <3>2, <4>2
    <3>4. ASSUME NEW i \in 1..n
          PROVE  verdicts'[m + i] = more[i]
      <4>1. m + i \in 1..(m + n) /\ ~(m + i <= m) /\ (m + i) - m = i
        BY <3>2
      <4> QED BY <3>3, <4>1
    <3> QED BY <3>2, <3>3, <3>4
  <2>8. ASSUME NEW i \in DOMAIN verdicts'
        PROVE  /\ verdicts'[i].from \in DOMAIN history' /\ verdicts'[i].to \in DOMAIN history'
               /\ verdicts'[i].comparison =
                    Monitoring!Compare(history'[verdicts'[i].from], history'[verdicts'[i].to])
    <3>1. CASE i \in 1..m
      <4>1. verdicts'[i] = verdicts[i] /\ i \in DOMAIN verdicts
        BY <2>2, <2>7, <3>1
      <4>2. /\ verdicts[i].from \in DOMAIN history /\ verdicts[i].to \in DOMAIN history
            /\ verdicts[i].comparison =
                 Monitoring!Compare(history[verdicts[i].from], history[verdicts[i].to])
        BY <4>1 DEF GateInv
      <4>3. DOMAIN history \subseteq DOMAIN history'
        BY <2>2, <2>3
      <4> QED BY <2>3, <4>1, <4>2, <4>3
    <3>2. CASE i \notin 1..m
      <4>1. PICK j \in 1..n : i = m + j
        <5>1. i - m \in 1..n /\ i = m + (i - m)
          BY <2>2, <2>7, <3>2
        <5> QED BY <5>1
      <4>2. verdicts'[i] = fresh(j)
        BY <2>5, <2>7, <4>1
      <4>3. j \in DOMAIN history' /\ n + 1 \in DOMAIN history' /\ history'[j] = history[j]
        BY <2>2, <2>3
      <4> QED BY <2>3, <4>2, <4>3
    <3> QED BY <3>1, <3>2
  <2>9. verdicts' \in Seq({verdicts'[i] : i \in DOMAIN verdicts'})
    <3>1. /\ Len(verdicts') = m + n /\ m + n \in Nat
          /\ verdicts' = [i \in 1..(m + n) |-> verdicts'[i]]
      <4> HIDE DEF more
      <4> QED BY <2>2, <2>6, <2>7
    <3> QED BY <2>7, <3>1
  <2> QED BY <2>3, <2>8, <2>9 DEF GateInv
<1> QED BY <1>1, <1>2 DEF Monitoring!Next

\* ReportCompare.GateComposes for any reports and any number of them
\* (src/operations/compare.rs): nothing wears off in steps.
THEOREM GateAlwaysComposes ==
  ASSUME Monitoring!CompareAssumption
  PROVE  Monitoring!Spec => []Monitoring!GateComposes
<1>1. Monitoring!Init => GateInv
  <2> SUFFICES ASSUME NEW r \in Reports, history = <<r>>, verdicts = <<>>
               PROVE  GateInv
    BY DEF Monitoring!Init
  <2> QED BY DEF GateInv
<1>2. GateInv /\ [Monitoring!Next]_(Monitoring!vars) => GateInv'
  BY GateStep
<1>3. GateInv => Monitoring!GateComposes
  <2> SUFFICES ASSUME GateInv,
                      NEW i \in DOMAIN verdicts, NEW j \in DOMAIN verdicts,
                      NEW k \in DOMAIN verdicts,
                      verdicts[i].to = verdicts[j].from, verdicts[k].from = verdicts[i].from,
                      verdicts[k].to = verdicts[j].to, verdicts[k].comparison.regression
               PROVE  verdicts[i].comparison.regression \/ verdicts[j].comparison.regression
    BY DEF Monitoring!GateComposes
  <2> DEFINE a == history[verdicts[i].from]
             b == history[verdicts[i].to]
             c == history[verdicts[j].to]
  <2>1. a \in Reports /\ b \in Reports /\ c \in Reports
    <3>1. /\ history \in Seq(Reports)
          /\ {verdicts[i].from, verdicts[i].to, verdicts[j].to} \subseteq DOMAIN history
      BY DEF GateInv
    <3> QED BY <3>1
  <2>2. /\ verdicts[i].comparison = Monitoring!Compare(a, b)
        /\ verdicts[j].comparison = Monitoring!Compare(b, c)
        /\ verdicts[k].comparison = Monitoring!Compare(a, c)
    BY DEF GateInv
  <2> HIDE DEF a, b, c
  <2>3. Monitoring!Compare(a, c).regression
    BY <2>2
  <2> QED BY <2>1, <2>2, <2>3, CompareComposes
<1> QED BY <1>1, <1>2, <1>3, PTL DEF Monitoring!Spec

=============================================================================
