-------------------------- MODULE SaturationProofs --------------------------
(***************************************************************************)
(* Proofs about Saturation, for every plan, every set of outcomes and all  *)
(* admission limits: traffic stays within the admitted plan, the guard     *)
(* stops the ladder, a verdict is earned, and a saved report is accepted   *)
(* exactly when it is the one that was written, no response broke off and  *)
(* every error percentage is parsed as it was printed.                     *)
(* And about SaturationCompare: what the comparison of two saved runs says *)
(* is earned by their attempts.  And about Completion: what is recorded of *)
(* one request is true of the text that arrived, and is accepted later.    *)
(*                                                                         *)
(* The invariant says of the phases so far what the code knows of them     *)
(* only one at a time: each is the plan's, with the numbers of its own     *)
(* attempts (PhaseInv); all but the last let the run go on, and the last   *)
(* is the reason it ended (OrderInv); what was sent and spent is theirs    *)
(* (BudgetInv).  The budget needs what a total of a sequence is, which the *)
(* first section establishes by induction on Nat, in the form of a set.    *)
(***************************************************************************)
EXTENDS SaturationCompare, FiniteSetTheorems, SequenceTheorems, TLAPS

-----------------------------------------------------------------------------
(* The inductive invariant.                                                *)

PCs == {"validate", "refused", "warmup", "measure", "report", "saved", "failed"}
Reasons == {"warmup", "stage"} \X {"noSuccess", "errorRate"}

TypeOK ==
  /\ options \in Options /\ pc \in PCs /\ abort \in Reasons \cup {None}
  /\ warmups \in Seq(Range(warmups)) /\ stages \in Seq(Range(stages))
  /\ sent \in Nat /\ elapsed \in Nat

WarmupReason(i) ==
  AbortReason("warmup", warmups[i].succeeded, warmups[i].attempted, options.abortError)
StageReason(i) ==
  AbortReason("stage", stages[i].summary.succeeded, stages[i].summary.attempted,
              options.abortError)

\* The phases are the plan's, each with the numbers of its own attempts.
IsWarmup(w, i) ==
  /\ w.concurrency = options.stages[i]
  /\ w.attempted = options.stages[i] * options.warmup
  /\ w.succeeded \in 0..w.attempted
  /\ w.aborted <=> AbortReason("warmup", w.succeeded, w.attempted, options.abortError) # None
  /\ w = [concurrency |-> w.concurrency, attempted |-> w.attempted, succeeded |-> w.succeeded,
          exact |-> TRUE, aborted |-> w.aborted]
IsStage(s, i) ==
  /\ s.attempts \in Attempts(options.stages[i] * options.requests)
  /\ s = StageOf(options.stages[i], s.attempts, LongestWorker(s.attempts), options)
PhaseInv ==
  /\ Len(warmups) <= Len(options.stages) /\ Len(stages) <= Len(options.stages)
  /\ \A i \in DOMAIN warmups : IsWarmup(warmups[i], i)
  /\ \A i \in DOMAIN stages : IsStage(stages[i], i)

\* Nothing in the first w warmups and s stages ends the run.
Clean(w, s) ==
  /\ \A i \in 1..w : WarmupReason(i) = None
  /\ \A i \in 1..s : StageReason(i) = None
\* Only the last phase may have ended the run, and the reason says so.
OrderInv ==
  /\ pc \notin {"validate", "refused"} => Valid(options)
  /\ pc \in {"validate", "refused"} => warmups = <<>> /\ stages = <<>>
  /\ pc \notin {"report", "saved"} => abort = None /\ Clean(Len(warmups), Len(stages))
  /\ pc = "warmup" => Len(warmups) = Len(stages) /\ Len(stages) < Len(options.stages)
  /\ pc = "measure" => Len(warmups) = Len(stages) + 1
  /\ pc \in {"report", "saved"} =>
       \/ /\ Len(warmups) = Len(stages) + 1
          /\ abort = WarmupReason(Len(warmups)) /\ abort # None
          /\ Clean(Len(stages), Len(stages))
       \/ /\ Len(warmups) = Len(stages) /\ Len(stages) > 0
          /\ abort = StageReason(Len(stages))
          /\ Clean(Len(warmups), Len(stages) - 1)
          /\ abort = None => Len(stages) = Len(options.stages)

\* What was sent is what the phases so far say, in the waves they took.
PlannedFor(n) == Total(SubSeq(options.stages, 1, n))
BudgetInv ==
  /\ sent = PlannedFor(Len(warmups)) * options.warmup + PlannedFor(Len(stages)) * options.requests
  /\ elapsed <= (Len(warmups) * options.warmup + Len(stages) * options.requests) * Timeout

\* The report is what execute_schedule left.
Written ==
  [status |-> IF abort = None THEN "complete" ELSE "aborted", abort |-> abort,
   duration |-> elapsed, warmups |-> warmups, stages |-> stages,
   assessment |-> Assess(stages, options), verification |-> Verify(options.verify, stages)]
ReportInv == report = IF pc = "saved" THEN Written ELSE None

IInv == TypeOK /\ PhaseInv /\ OrderInv /\ BudgetInv /\ ReportInv

-----------------------------------------------------------------------------
(* Totals.                                                                 *)

\* A set that has 0, and with each number its successor, has every natural
\* number: else the map to the successor would put n numbers into n - 1 places.
LEMMA SetInduction ==
  ASSUME NEW S, 0 \in S, \A n \in Nat : n \in S => n + 1 \in S
  PROVE  Nat \subseteq S
<1> SUFFICES ASSUME NEW m \in Nat, m \notin S
             PROVE  FALSE
  OBVIOUS
<1> DEFINE T == {x \in 0..m : x \in S}
           f == [x \in T |-> x + 1]
<1>1. IsFiniteSet(T)
  BY FS_Interval, FS_Subset, 0 \in Int, m \in Int
<1>2. 0 \in T
  OBVIOUS
<1>3. IsFiniteSet(T \ {0}) /\ Cardinality(T \ {0}) = Cardinality(T) - 1
  BY <1>1, <1>2, FS_RemoveElement
<1>4. Cardinality(T) \in Nat
  BY <1>1, FS_CardinalityType
<1>5. f \in [T -> T \ {0}]
  <2> SUFFICES ASSUME NEW x \in T
               PROVE  x + 1 \in T \ {0}
    OBVIOUS
  <2> QED BY x # m
<1>6. \E x, y \in T : x # y /\ f[x] = f[y]
  <2> HIDE DEF T, f
  <2> QED BY <1>1, <1>3, <1>4, <1>5, FS_PigeonHole
<1> QED BY <1>6

\* A non-empty bounded set of numbers has a largest one, and Max is it.
LEMMA LargestOf ==
  ASSUME NEW n \in Nat, NEW T \in SUBSET (0..n), T # {}
  PROVE  Max(T) \in T /\ \A x \in T : x <= Max(T)
<1> DEFINE S == {k \in Nat : k <= n /\ (\E x \in T : x >= n - k)
                               => \E x \in T : \A y \in T : y <= x}
<1>1. 0 \in S
  OBVIOUS
<1>2. ASSUME NEW k \in Nat, k \in S
      PROVE  k + 1 \in S
  <2>0. k <= n /\ (\E x \in T : x >= n - k) => \E x \in T : \A y \in T : y <= x
    BY <1>2
  <2>1. ASSUME k + 1 <= n, NEW z \in T, z >= n - (k + 1)
        PROVE  \E x \in T : \A y \in T : y <= x
    <3>1. CASE \E x \in T : x >= n - k
      BY <3>1, <2>0, <2>1
    <3>2. CASE ~ \E x \in T : x >= n - k
      <4>1. \A y \in T : y <= z
        BY <3>2, <2>1
      <4> QED BY <4>1
    <3> QED BY <3>1, <3>2
  <2> QED BY <2>0, <2>1
<1>3. n \in S
  <2> HIDE DEF S
  <2> QED BY <1>1, <1>2, SetInduction
<1>4. \E x \in T : \A y \in T : y <= x
  <2>1. PICK x \in T : x \in 0..n
    OBVIOUS
  <2>2. n - n = 0 /\ n <= n
    OBVIOUS
  <2> QED BY <1>3, <2>1, <2>2
<1> QED BY <1>4 DEF Max

\* A non-empty set of natural numbers has a smallest one, and Min is it.
LEMMA SmallestOf ==
  ASSUME NEW T \in SUBSET Nat, T # {}
  PROVE  Min(T) \in T /\ \A x \in T : Min(T) <= x
<1> DEFINE S == {k \in Nat : (\E x \in T : x <= k) => \E x \in T : \A y \in T : x <= y}
<1>1. 0 \in S
  OBVIOUS
<1>2. ASSUME NEW k \in Nat, k \in S
      PROVE  k + 1 \in S
  <2>0. (\E x \in T : x <= k) => \E x \in T : \A y \in T : x <= y
    BY <1>2
  <2>1. ASSUME NEW z \in T, z <= k + 1
        PROVE  \E x \in T : \A y \in T : x <= y
    <3>1. CASE \E x \in T : x <= k
      BY <3>1, <2>0
    <3>2. CASE ~ \E x \in T : x <= k
      <4>1. \A y \in T : z <= y
        BY <3>2, <2>1
      <4> QED BY <4>1
    <3> QED BY <3>1, <3>2
  <2> QED BY <2>1
<1>3. Nat \subseteq S
  <2> HIDE DEF S
  <2> QED BY <1>1, <1>2, SetInduction
<1>4. \E x \in T : \A y \in T : x <= y
  <2>1. PICK x \in T : x \in Nat
    OBVIOUS
  <2>2. x <= x
    BY <2>1
  <2> QED BY <1>3, <2>1, <2>2
<1> QED BY <1>4 DEF Min

\* The function that FoldLeft(+, 0, s) chooses by its recursive equation exists.
LEMMA FoldExists ==
  ASSUME NEW n \in Nat, NEW s \in [1..n -> Int]
  PROVE  \E f \in [SUBSET (1..n) -> Int] :
           f = [T \in SUBSET (1..n) |-> IF T = {} THEN 0 ELSE f[T \ {Max(T)}] + s[Max(T)]]
<1> DEFINE D == 1..n
           Value(f, T) == IF T = {} THEN 0 ELSE f[T \ {Max(T)}] + s[Max(T)]
           Upto(k) == \E f \in [SUBSET D -> Int] :
                        \A T \in SUBSET D : Cardinality(T) <= k => f[T] = Value(f, T)
           S == {k \in Nat : Upto(k)}
<1>1. \A T \in SUBSET D : IsFiniteSet(T) /\ Cardinality(T) \in Nat
                          /\ Cardinality(T) <= Cardinality(D)
  <2>1. IsFiniteSet(D)
    BY FS_Interval
  <2> HIDE DEF D
  <2> QED BY <2>1, FS_Subset, FS_CardinalityType
<1>m. \A T \in SUBSET D : T # {} => Max(T) \in T /\ Max(T) \in D
  <2> SUFFICES ASSUME NEW T \in SUBSET D, T # {}
               PROVE  Max(T) \in T
    OBVIOUS
  <2>1. T \in SUBSET (0..n)
    OBVIOUS
  <2> QED BY <2>1, LargestOf
<1> HIDE DEF D
<1>v. \A f \in [SUBSET D -> Int] : \A T \in SUBSET D : Value(f, T) \in Int
  <2> SUFFICES ASSUME NEW f \in [SUBSET D -> Int], NEW T \in SUBSET D, T # {}
               PROVE  f[T \ {Max(T)}] + s[Max(T)] \in Int
    OBVIOUS
  <2>1. s[Max(T)] \in Int
    BY <1>m DEF D
  <2>2. f[T \ {Max(T)}] \in Int
    OBVIOUS
  <2> QED BY <2>1, <2>2
<1>2. 0 \in S
  <2>1. \A T \in SUBSET D : Cardinality(T) <= 0 => T = {}
    BY <1>1, FS_EmptySet
  <2> QED BY <2>1, [T \in SUBSET D |-> 0] \in [SUBSET D -> Int]
<1>3. ASSUME NEW k \in Nat, k \in S
      PROVE  k + 1 \in S
  <2>1. PICK f \in [SUBSET D -> Int] :
                        \A T \in SUBSET D : Cardinality(T) <= k => f[T] = Value(f, T)
    BY <1>3
  <2> DEFINE g == [T \in SUBSET D |-> IF Cardinality(T) = k + 1 THEN Value(f, T) ELSE f[T]]
  <2>2. g \in [SUBSET D -> Int]
    <3> HIDE DEF Value
    <3> QED BY <1>v
  <2>3. ASSUME NEW T \in SUBSET D, Cardinality(T) <= k + 1
        PROVE  g[T] = Value(g, T)
    <3>1. CASE T = {}
      <4>1. Cardinality(T) = 0
        BY <3>1, FS_EmptySet
      <4> QED BY SMTT(30), <4>1, <3>1, <2>1
    <3>2. CASE T # {}
      <4> DEFINE U == T \ {Max(T)}
      <4>1. U \in SUBSET D /\ Cardinality(U) = Cardinality(T) - 1
        BY <3>2, <1>1, <1>m, FS_RemoveElement
      <4>2. Cardinality(T) \in Nat
        BY <1>1
      <4>3. g[U] = f[U]
        BY <4>1, <4>2, <2>3
      <4>4. g[T] = Value(f, T)
        <5> HIDE DEF Value
        <5>1. CASE Cardinality(T) = k + 1
          BY <5>1
        <5>2. CASE Cardinality(T) # k + 1
          BY <5>2, <2>1, <2>3, <4>2
        <5> QED BY <5>1, <5>2
      <4> QED BY <4>3, <4>4, <3>2
    <3> QED BY <3>1, <3>2
  <2>4. Upto(k + 1)
    <3> HIDE DEF Value, g
    <3> QED BY <2>2, <2>3
  <2> HIDE DEF Upto
  <2> QED BY <2>4
<1>4. Cardinality(D) \in S
  <2> HIDE DEF S
  <2>1. Nat \subseteq S
    BY <1>2, <1>3, SetInduction
  <2> QED BY <2>1, <1>1
<1>5. PICK f \in [SUBSET D -> Int] : \A T \in SUBSET D : f[T] = Value(f, T)
  <2> HIDE DEF Value
  <2> QED BY <1>4, <1>1
<1>6. f = [T \in SUBSET D |-> Value(f, T)]
  <2> HIDE DEF Value
  <2> QED BY <1>5
<1> QED BY <1>6 DEF D

\* Total is what one gets by adding one element after the other.
LEMMA TotalIsSum ==
  ASSUME NEW s \in Seq(Int)
  PROVE  \E sum \in [0..Len(s) -> Int] :
           /\ sum[0] = 0
           /\ \A k \in 1..Len(s) : sum[k] = sum[k - 1] + s[k]
           /\ Total(s) = sum[Len(s)]
<1> DEFINE n == Len(s)
           Fold(f) == [T \in SUBSET DOMAIN s |->
                         IF T = {} THEN 0 ELSE f[T \ {Max(T)}] + s[Max(T)]]
           f == CHOOSE g : g = Fold(g)
           sum == [k \in 0..n |-> f[1..k]]
<1>1. n \in Nat /\ s \in [1..n -> Int] /\ DOMAIN s = 1..n
  OBVIOUS
<1>2. \E g \in [SUBSET (1..n) -> Int] : g = Fold(g)
  <2> HIDE DEF n
  <2> QED BY ZenonT(60), <1>1, FoldExists
<1>3. f = Fold(f)
  <2> HIDE DEF Fold
  <2> QED BY <1>2
<1>4. Total(s) = f[DOMAIN s]
  BY DEF Total, FoldLeft, MapThenFoldSet
<1>5. f[{}] = 0
  <2> HIDE DEF f
  <2> QED BY <1>3
<1>6. ASSUME NEW k \in 1..n
      PROVE  f[1..k] = f[1..(k - 1)] + s[k]
  <2>1. 1..k \in SUBSET DOMAIN s /\ 1..k # {}
    <3>1. k \in Nat /\ 1 <= k /\ k <= n
      BY <1>1
    <3>2. DOMAIN s = 1..n
      BY <1>1
    <3> HIDE DEF n
    <3>3. n \in Nat
      BY <1>1
    <3>4. \A i \in 1..k : i \in 1..n
      BY <3>1, <3>3
    <3>5. k \in 1..k
      BY <3>1
    <3> QED BY <3>2, <3>4, <3>5
  <2>2. Max(1..k) = k
    BY DEF Max
  <2>3. (1..k) \ {k} = 1..(k - 1)
    OBVIOUS
  <2> HIDE DEF f
  <2> QED BY <1>3, <2>1, <2>2, <2>3
<1> HIDE DEF f
<1>7. ASSUME NEW k \in Nat, k <= n => f[1..k] \in Int, k + 1 <= n
      PROVE  f[1..(k + 1)] \in Int
  <2>1. f[1..(k + 1)] = f[1..k] + s[k + 1]
    <3>1. k + 1 \in 1..n /\ k + 1 - 1 = k
      <4> HIDE DEF n
      <4> QED BY <1>1, <1>7
    <3> QED BY <1>6, <3>1
  <2> QED BY <2>1, <1>1, <1>7
<1>8. \A k \in 0..n : f[1..k] \in Int
  <2> DEFINE S == {k \in Nat : k <= n => f[1..k] \in Int}
  <2>1. 0 \in S
    BY <1>5, 1..0 = {}
  <2>2. \A k \in Nat : k \in S => k + 1 \in S
    BY <1>7
  <2>3. Nat \subseteq S
    <3> HIDE DEF S
    <3> QED BY <2>1, <2>2, SetInduction
  <2> QED BY <2>3
<1>9. sum \in [0..n -> Int]
  BY <1>8
<1>10. sum[0] = 0
  BY <1>5, 1..0 = {}
<1>11. \A k \in 1..n : sum[k] = sum[k - 1] + s[k]
  BY <1>6
<1>12. Total(s) = sum[n]
  BY <1>4, <1>1
<1> HIDE DEF sum
<1> QED BY <1>9, <1>10, <1>11, <1>12

\* A total of natural numbers is one, and at most their bound times their count.
LEMMA TotalBound ==
  ASSUME NEW s \in Seq(Nat), NEW b \in Nat, \A i \in 1..Len(s) : s[i] <= b
  PROVE  Total(s) \in Nat /\ Total(s) <= Len(s) * b
<1>1. s \in Seq(Int) /\ Len(s) \in Nat
  OBVIOUS
<1>2. PICK sum \in [0..Len(s) -> Int] :
           /\ sum[0] = 0
           /\ \A k \in 1..Len(s) : sum[k] = sum[k - 1] + s[k]
           /\ Total(s) = sum[Len(s)]
  BY <1>1, TotalIsSum
<1> DEFINE S == {k \in Nat : k <= Len(s) => sum[k] \in Nat /\ sum[k] <= k * b}
<1>3. 0 \in S
  BY <1>2
<1>4. ASSUME NEW k \in Nat, k \in S
      PROVE  k + 1 \in S
  <2> SUFFICES ASSUME k + 1 <= Len(s)
               PROVE  sum[k + 1] \in Nat /\ sum[k + 1] <= (k + 1) * b
    OBVIOUS
  <2>1. sum[k] \in Nat /\ sum[k] <= k * b
    BY <1>1, <1>4
  <2>2. k + 1 \in 1..Len(s) /\ k + 1 - 1 = k
    BY <1>1
  <2>3. sum[k + 1] = sum[k] + s[k + 1] /\ s[k + 1] <= b /\ s[k + 1] \in Nat
    BY <1>2, <2>2
  <2>4. (k + 1) * b = k * b + b
    OBVIOUS
  <2> QED BY <2>1, <2>3, <2>4
<1>5. Len(s) \in S
  <2> HIDE DEF S
  <2> QED BY <1>1, <1>3, <1>4, SetInduction
<1> QED BY <1>1, <1>2, <1>5

\* The totals of the prefixes of a sequence grow by its elements.
LEMMA PrefixTotals ==
  ASSUME NEW s \in Seq(Nat)
  PROVE  LET upTo(k) == Total(SubSeq(s, 1, k))
         IN  /\ upTo(0) = 0 /\ upTo(Len(s)) = Total(s)
             /\ \A k \in 0..Len(s) : upTo(k) \in Nat /\ upTo(k) <= Total(s)
             /\ \A k \in 1..Len(s) : upTo(k) = upTo(k - 1) + s[k]
<1> DEFINE upTo(k) == Total(SubSeq(s, 1, k))
           n == Len(s)
<1>1. s \in Seq(Int) /\ n \in Nat
  OBVIOUS
<1>2. PICK sum \in [0..n -> Int] :
           /\ sum[0] = 0
           /\ \A k \in 1..n : sum[k] = sum[k - 1] + s[k]
           /\ Total(s) = sum[n]
  BY <1>1, TotalIsSum
<1>3. ASSUME NEW k \in 0..n
      PROVE  upTo(k) = sum[k]
  <2> DEFINE p == SubSeq(s, 1, k)
  <2>1. p \in Seq(Int) /\ Len(p) = k /\ \A i \in 1..k : p[i] = s[i]
    BY <1>1
  <2> HIDE DEF p
  <2>2. PICK q \in [0..k -> Int] :
           /\ q[0] = 0
           /\ \A j \in 1..k : q[j] = q[j - 1] + p[j]
           /\ Total(p) = q[k]
    BY <2>1, TotalIsSum
  <2> DEFINE S == {j \in Nat : j <= k => q[j] = sum[j]}
  <2>3. 0 \in S
    BY <1>2, <2>2
  <2>4. ASSUME NEW j \in Nat, j \in S
        PROVE  j + 1 \in S
    <3> SUFFICES ASSUME j + 1 <= k
                 PROVE  q[j + 1] = sum[j + 1]
      OBVIOUS
    <3>1. j + 1 \in 1..k /\ j + 1 \in 1..n /\ j + 1 - 1 = j /\ j <= k
      BY <1>1
    <3>2. q[j] = sum[j]
      BY <3>1, <2>4
    <3>3. q[j + 1] = q[j] + p[j + 1]
      BY <2>2, <3>1
    <3>4. sum[j + 1] = sum[j] + s[j + 1]
      BY <1>2, <3>1
    <3> QED BY <3>1, <3>2, <3>3, <3>4, <2>1
  <2>5. k \in S
    <3> HIDE DEF S
    <3>1. k \in Nat
      OBVIOUS
    <3> QED BY <2>3, <2>4, <3>1, SetInduction
  <2> QED BY <2>2, <2>5 DEF p
<1> HIDE DEF upTo, n
<1>4. \A k \in 1..n : upTo(k) = upTo(k - 1) + s[k]
  <2> SUFFICES ASSUME NEW k \in 1..n
               PROVE  upTo(k) = upTo(k - 1) + s[k]
    OBVIOUS
  <2>1. k \in 0..n /\ k - 1 \in 0..n
    BY <1>1
  <2> QED BY <1>2, <1>3, <2>1
<1>5. upTo(0) = 0 /\ upTo(n) = Total(s)
  <2>1. 0 \in 0..n /\ n \in 0..n
    BY <1>1
  <2> QED BY <1>2, <1>3, <2>1
<1>6. \A k \in 1..n : s[k] \in Nat
  BY DEF n
<1>7. \A k \in 0..n : upTo(k) \in Nat
  <2> DEFINE S == {k \in Nat : k <= n => upTo(k) \in Nat}
  <2>1. 0 \in S
    BY <1>5
  <2>2. ASSUME NEW k \in Nat, k \in S
        PROVE  k + 1 \in S
    <3> SUFFICES ASSUME k + 1 <= n
                 PROVE  upTo(k + 1) \in Nat
      OBVIOUS
    <3>1. k + 1 \in 1..n /\ k + 1 - 1 = k /\ k <= n
      BY <1>1
    <3>2. upTo(k) \in Nat
      BY <2>2, <3>1
    <3> QED BY <1>4, <1>6, <3>1, <3>2
  <2>3. Nat \subseteq S
    <3> HIDE DEF S
    <3> QED BY <2>1, <2>2, SetInduction
  <2> QED BY <2>3
<1>8. \A k \in 0..n : upTo(k) <= Total(s)
  <2> DEFINE S == {k \in Nat : k <= n => upTo(n - k) <= Total(s)}
  <2>1. 0 \in S
    BY <1>1, <1>5, <1>7, n - 0 = n
  <2>2. ASSUME NEW k \in Nat, k \in S
        PROVE  k + 1 \in S
    <3> SUFFICES ASSUME k + 1 <= n
                 PROVE  upTo(n - (k + 1)) <= Total(s)
      OBVIOUS
    <3>1. n - k \in 1..n /\ n - k \in 0..n /\ n \in 0..n
          /\ n - (k + 1) \in 0..n /\ n - k - 1 = n - (k + 1)
      BY <1>1
    <3>2. upTo(n - k) <= Total(s)
      BY <1>1, <2>2
    <3>3. upTo(n - k) = upTo(n - (k + 1)) + s[n - k] /\ s[n - k] \in Nat
      BY <1>4, <1>6, <3>1
    <3>4. upTo(n - (k + 1)) \in Nat /\ Total(s) \in Nat
      BY <1>5, <1>7, <3>1
    <3> QED BY <3>2, <3>3, <3>4
  <2>3. Nat \subseteq S
    <3> HIDE DEF S
    <3> QED BY <2>1, <2>2, SetInduction
  <2> SUFFICES ASSUME NEW k \in 0..n
               PROVE  upTo(k) <= Total(s)
    OBVIOUS
  <2>4. n - k \in Nat /\ n - (n - k) = k /\ n - k <= n
    BY <1>1
  <2>5. n - k \in S
    <3> HIDE DEF S
    <3> QED BY <2>3, <2>4
  <2> QED BY <2>4, <2>5
<1> QED BY <1>4, <1>5, <1>7, <1>8 DEF upTo, n

-----------------------------------------------------------------------------
(* Phases and their attempts.                                              *)

\* What appending does to a sequence of any elements.
LEMMA Appending ==
  ASSUME NEW s, s \in Seq(Range(s)), NEW e
  PROVE  /\ Append(s, e) \in Seq(Range(Append(s, e)))
         /\ Len(s) \in Nat /\ DOMAIN s = 1..Len(s)
         /\ Len(Append(s, e)) = Len(s) + 1 /\ DOMAIN Append(s, e) = 1..(Len(s) + 1)
         /\ Append(s, e)[Len(s) + 1] = e
         /\ \A i \in 1..Len(s) : Append(s, e)[i] = s[i]
<1> DEFINE R == Range(s) \cup {e}
           t == Append(s, e)
<1>1. s \in Seq(R)
  OBVIOUS
<1>2. t \in Seq(R) /\ Len(t) = Len(s) + 1 /\ t[Len(s) + 1] = e
      /\ \A i \in 1..Len(s) : t[i] = s[i]
  <2> HIDE DEF R
  <2>1. e \in R
    BY DEF R
  <2> QED BY <1>1, <2>1, AppendProperties
<1>3. Len(s) \in Nat /\ DOMAIN s = 1..Len(s)
  BY <1>1
<1>4. DOMAIN t = 1..(Len(s) + 1)
  <2> HIDE DEF R, t
  <2> QED BY <1>2
<1>5. t \in Seq(Range(t))
  <2> HIDE DEF R, t
  <2>1. t \in [1..Len(t) -> Range(t)] /\ Len(t) \in Nat
    BY <1>2, <1>3, <1>4 DEF Range
  <2> QED BY <2>1
<1> QED BY <1>2, <1>3, <1>4, <1>5

\* The successes of a batch are counted, and no more than its attempts.
LEMMA CountFacts ==
  ASSUME NEW n \in Nat, NEW attempts \in [1..n -> Outcomes]
  PROVE  /\ Len(attempts) = n /\ DOMAIN attempts = 1..n
         /\ Succeeded(attempts) \in 0..n
<1> DEFINE ok == {i \in DOMAIN attempts : attempts[i].ok}
<1>1. Len(attempts) = n /\ DOMAIN attempts = 1..n
  OBVIOUS
<1>2. IsFiniteSet(1..n) /\ Cardinality(1..n) = n
  BY FS_Interval
<1>3. ok \in SUBSET (1..n)
  BY <1>1
<1>4. IsFiniteSet(ok) /\ Cardinality(ok) <= n
  <2> DEFINE D == 1..n
  <2>1. IsFiniteSet(D) /\ ok \in SUBSET D /\ Cardinality(D) = n
    BY <1>2, <1>3
  <2> HIDE DEF ok, D
  <2> QED BY <2>1, FS_Subset
<1>5. Cardinality(ok) \in Nat
  BY <1>4, FS_CardinalityType
<1> QED BY <1>1, <1>4, <1>5 DEF Succeeded

\* Multiplication is monotone.
LEMMA TimesMonotone ==
  ASSUME NEW x \in Nat, NEW y \in Nat, NEW z \in Nat, x <= y
  PROVE  x * z <= y * z /\ x * z \in Nat
<1>1. PICK d \in Nat : y = x + d
  <2>1. y - x \in Nat /\ y = x + (y - x)
    OBVIOUS
  <2> QED BY <2>1
<1>2. y * z = x * z + d * z /\ x * z \in Nat /\ d * z \in Nat
  BY <1>1
<1> QED BY <1>2

\* A worker takes at most its requests' timeouts, and so does the slowest.
LEMMA WorkerBound ==
  ASSUME SaturationAssumption, NEW c \in Nat \ {0}, options.requests \in Nat \ {0},
         NEW attempts \in [1..(c * options.requests) -> Outcomes], NEW w \in 1..c
  PROVE  WorkerTime(attempts, w) \in 0..(options.requests * Timeout)
<1> DEFINE r == options.requests
           s == [i \in 1..r |-> attempts[(w - 1) * r + i].time]
<1> HIDE DEF r
<1>1. r \in Nat /\ attempts \in [1..(c * r) -> Outcomes] /\ Timeout \in Nat
  BY DEF r, SaturationAssumption
<1>2. ASSUME NEW i \in 1..r
      PROVE  /\ attempts[(w - 1) * r + i].time \in Nat
             /\ attempts[(w - 1) * r + i].time <= Timeout
  <2>1. (w - 1) * r + r = w * r /\ (w - 1) * r \in Nat
    BY <1>1
  <2>2. w * r <= c * r
    BY <1>1, TimesMonotone
  <2>3. c * r \in Nat /\ w * r \in Nat
    BY <1>1
  <2>4. (w - 1) * r + i \in 1..(c * r)
    <3> DEFINE x == (w - 1) * r
               y == w * r
               z == c * r
    <3>1. x + r = y /\ y <= z /\ x \in Nat /\ y \in Nat /\ z \in Nat
      BY <2>1, <2>2, <2>3
    <3> HIDE DEF x, y, z
    <3>2. x + i \in 1..z
      BY <3>1, <1>1
    <3> QED BY <3>2 DEF x, z
  <2>5. attempts[(w - 1) * r + i] \in Outcomes
    BY <1>1, <2>4
  <2>6. attempts[(w - 1) * r + i].time \in 1..Timeout
    BY <2>5 DEF SaturationAssumption
  <2> QED BY SMTT(30), <2>6, <1>1
<1>3. s \in Seq(Nat) /\ Len(s) = r /\ \A i \in 1..Len(s) : s[i] <= Timeout
  <2>1. s \in [1..r -> Nat] /\ \A i \in 1..r : s[i] <= Timeout
    BY <1>2
  <2> HIDE DEF s
  <2> QED BY SMTT(30), <1>1, <2>1
<1>4. Total(s) \in Nat /\ Total(s) <= r * Timeout
  <2> HIDE DEF s
  <2> QED BY <1>1, <1>3, TotalBound
<1>5. r * Timeout \in Nat
  BY <1>1
<1>6. WorkerTime(attempts, w) = Total(s)
  BY DEF WorkerTime, r
<1> HIDE DEF s
<1> QED BY <1>4, <1>5, <1>6 DEF r

\* So does the slowest of its workers.
LEMMA LongestBound ==
  ASSUME SaturationAssumption, NEW c \in Nat \ {0}, options.requests \in Nat \ {0},
         NEW attempts \in [1..(c * options.requests) -> Outcomes]
  PROVE  LongestWorker(attempts) \in 0..(options.requests * Timeout)
<1> DEFINE r == options.requests
           b == r * Timeout
           times == {WorkerTime(attempts, w) : w \in 1..c}
<1>1. b \in Nat
  BY DEF SaturationAssumption
<1>2. times \in SUBSET (0..b)
  BY WorkerBound
<1>3. times # {}
  <2>1. 1 \in 1..c
    OBVIOUS
  <2>2. WorkerTime(attempts, 1) \in times
    BY <2>1
  <2> QED BY <2>2
<1>4. Max(times) \in 0..b
  <2> HIDE DEF times, b
  <2> QED BY <1>1, <1>2, <1>3, LargestOf
<1>5. Len(attempts) = c * r
  BY c * r \in Nat
<1>6. (c * r) \div r = c
  OBVIOUS
<1> QED BY <1>4, <1>5, <1>6 DEF LongestWorker

\* The guard lets a phase pass exactly when it had a success and an error
\* percentage below the limit.
LEMMA ReasonFacts ==
  ASSUME SaturationAssumption, NEW phase \in {"warmup", "stage"},
         NEW attempted \in Nat, NEW succeeded \in 0..attempted, NEW percent \in Nat
  PROVE  LET reason == AbortReason(phase, succeeded, attempted, percent)
         IN  /\ reason \in Reasons \cup {None}
             /\ reason # None => reason[1] = phase
             /\ reason = None <=> /\ succeeded > 0
                                 /\ 100 * (attempted - succeeded) < percent * attempted
             /\ reason = <<phase, "noSuccess">> <=> succeeded = 0
<1>1. None \notin Reasons
  BY DEF SaturationAssumption, Reasons
<1>2. <<phase, "noSuccess">> \in Reasons /\ <<phase, "errorRate">> \in Reasons
  BY DEF Reasons
<1>3. percent * attempted \in Nat /\ 100 * (attempted - succeeded) \in Nat
  OBVIOUS
<1>4. ErrorReaches(attempted - succeeded, attempted, percent)
        <=> ~(100 * (attempted - succeeded) < percent * attempted)
  BY <1>3 DEF ErrorReaches
<1>5. <<phase, "noSuccess">> # <<phase, "errorRate">>
  OBVIOUS
<1> QED BY <1>1, <1>2, <1>4, <1>5 DEF AbortReason

\* What the command line and its admission say.
LEMMA OptionFacts ==
  ASSUME SaturationAssumption, TypeOK
  PROVE  /\ options.stages \in Seq(Nat) /\ Len(options.stages) \in Nat
         /\ \A i \in 1..Len(options.stages) : options.stages[i] \in Nat
         /\ options.warmup \in Nat /\ options.requests \in Nat
         /\ options.maxError \in Nat /\ options.abortError \in Nat
         /\ Valid(options) => /\ Len(options.stages) > 0
                             /\ options.warmup > 0 /\ options.requests > 0
                             /\ \A i \in 1..Len(options.stages) :
                                  /\ options.stages[i] \in Nat \ {0}
                                  /\ options.stages[i] <= MaxConcurrency
<1>1. /\ options.stages \in Seq(Nat)
      /\ options.warmup \in Nat /\ options.requests \in Nat
      /\ options.maxError \in 0..100 /\ options.abortError \in 0..100
  BY DEF SaturationAssumption, OptionsAssumption, TypeOK
<1>2. Len(options.stages) \in Nat /\ DOMAIN options.stages = 1..Len(options.stages)
  BY <1>1
<1>3. MaxConcurrency \in Nat
  BY DEF SaturationAssumption
<1>4. ASSUME Valid(options)
      PROVE  /\ options.stages # <<>> /\ options.warmup > 0 /\ options.requests > 0
             /\ \A i \in 1..Len(options.stages) : options.stages[i] \in 1..MaxConcurrency
  BY <1>2, <1>4 DEF Valid, ValidSchedule
<1>5. Valid(options) => Len(options.stages) > 0
  BY <1>1, <1>4
<1>6. \A n : n \in 1..MaxConcurrency => n \in Nat \ {0} /\ n <= MaxConcurrency
  BY <1>3
<1>7. \A n \in 0..100 : n \in Nat
  OBVIOUS
<1>8. \A i \in 1..Len(options.stages) : options.stages[i] \in Nat
  BY <1>1, ElementOfSeq
<1> QED BY <1>1, <1>2, <1>4, <1>5, <1>6, <1>7, <1>8

\* The numbers of a measured stage are those of its attempts.
LEMMA StageFacts ==
  ASSUME SaturationAssumption, TypeOK, Valid(options),
         NEW i \in 1..Len(options.stages), NEW s, IsStage(s, i)
  PROVE  /\ s.concurrency = options.stages[i]
         /\ Len(s.attempts) = options.stages[i] * options.requests
         /\ Len(s.attempts) \in Nat \ {0}
         /\ s.summary.attempted = Len(s.attempts)
         /\ s.summary.succeeded = Succeeded(s.attempts)
         /\ s.summary.succeeded \in 0..s.summary.attempted
         /\ s.summary.duration \in Nat
         /\ s.gates = Gates(s.summary, options)
<1> DEFINE c == options.stages[i]
           n == c * options.requests
<1>1. c \in Nat \ {0} /\ options.requests \in Nat \ {0}
  <2>1. options.requests \in Nat /\ options.requests > 0
    BY OptionFacts
  <2> QED BY SMTT(30), <2>1, OptionFacts
<1>2. n \in Nat \ {0}
  <2>1. 1 * options.requests <= n /\ n \in Nat
    <3>1. c \in Nat /\ options.requests \in Nat /\ 1 <= c /\ 1 \in Nat
      BY <1>1
    <3> HIDE DEF c
    <3> QED BY SMTT(30), <3>1, TimesMonotone
  <2> HIDE DEF n
  <2> QED BY <1>1, <2>1
<1>3. s.attempts \in [1..n -> Outcomes]
  BY DEF IsStage, Attempts
<1>4. Len(s.attempts) = n /\ Succeeded(s.attempts) \in 0..n
  <2> HIDE DEF n
  <2> QED BY <1>2, <1>3, CountFacts
<1>5. LongestWorker(s.attempts) \in Nat
  <2>1. LongestWorker(s.attempts) \in 0..(options.requests * Timeout)
    BY <1>1, <1>3, LongestBound
  <2> QED BY <2>1
<1>6. s = StageOf(c, s.attempts, LongestWorker(s.attempts), options)
  BY DEF IsStage
<1>7. /\ s.concurrency = c
      /\ s.summary = Summary(s.attempts, LongestWorker(s.attempts))
      /\ s.gates = Gates(s.summary, options)
  <2> HIDE DEF c
  <2> QED BY <1>6 DEF StageOf
<1>8. /\ s.summary.attempted = Len(s.attempts)
      /\ s.summary.succeeded = Succeeded(s.attempts)
      /\ s.summary.duration = LongestWorker(s.attempts)
  BY <1>7 DEF Summary
<1> HIDE DEF n
<1> QED BY <1>2, <1>4, <1>5, <1>7, <1>8 DEF n

-----------------------------------------------------------------------------
(* The invariant is inductive.                                             *)

\* The run begins with nothing sent.
LEMMA InitInv ==
  ASSUME SaturationAssumption, Init
  PROVE  IInv
<1>1. TypeOK
  BY DEF Init, TypeOK, PCs, Range
<1>2. options.stages \in Seq(Nat) /\ options.warmup \in Nat /\ options.requests \in Nat
  BY <1>1, OptionFacts
<1>3. PhaseInv
  BY <1>2 DEF Init, PhaseInv
<1>4. OrderInv
  BY DEF Init, OrderInv, Clean
<1>5. PlannedFor(0) = 0
  BY <1>2, PrefixTotals DEF PlannedFor
<1>6. BudgetInv
  BY <1>2, <1>5 DEF Init, BudgetInv, SaturationAssumption
<1>7. ReportInv
  BY DEF Init, ReportInv
<1> QED BY <1>1, <1>3, <1>4, <1>6, <1>7 DEF IInv

\* The phases and the budget say nothing of pc.
LEMMA PhasesStay ==
  ASSUME IInv, UNCHANGED <<options, warmups, stages, sent, elapsed>>
  PROVE  PhaseInv' /\ BudgetInv'
<1>1. PhaseInv'
  <2>1. \A attempts : LongestWorker(attempts)' = LongestWorker(attempts)
    BY DEF LongestWorker, WorkerTime
  <2>2. \A w, i : IsWarmup(w, i)' <=> IsWarmup(w, i)
    BY DEF IsWarmup
  <2>3. \A s, i : IsStage(s, i)' <=> IsStage(s, i)
    BY <2>1 DEF IsStage
  <2> QED BY <2>2, <2>3 DEF IInv, PhaseInv
<1>2. BudgetInv'
  BY DEF IInv, BudgetInv, PlannedFor
<1> QED BY <1>1, <1>2

\* Refusing, admitting and giving up change only pc.
LEMMA AdmissionStep ==
  ASSUME IInv, Refuse \/ Admit \/ BatchFails
  PROVE  IInv'
<1>1. UNCHANGED <<options, warmups, stages, abort, report, sent, elapsed>>
  BY DEF Refuse, Admit, BatchFails
<1>2. pc' \in {"refused", "warmup", "failed"} /\ pc \in {"validate", "warmup", "measure"}
  BY DEF Refuse, Admit, BatchFails
<1>3. PhaseInv' /\ BudgetInv'
  BY <1>1, PhasesStay
<1>4. TypeOK'
  BY <1>1, <1>2 DEF IInv, TypeOK, PCs
<1>5. Clean(Len(warmups), Len(stages))' <=> Clean(Len(warmups), Len(stages))
  BY <1>1 DEF Clean, WarmupReason, StageReason
<1>6. OrderInv'
  <2>1. CASE Refuse
    BY <2>1, <1>1, <1>5 DEF Refuse, IInv, OrderInv
  <2>2. CASE Admit
    <3>1. options.stages # <<>>
      BY <2>2 DEF Admit, Valid, ValidSchedule
    <3>2. Len(warmups) = 0 /\ Len(stages) = 0
      BY <2>2 DEF Admit, IInv, OrderInv
    <3> QED BY <2>2, <3>1, <3>2, <1>1, <1>5 DEF Admit, IInv, OrderInv
  <2>3. CASE BatchFails
    BY <2>3, <1>1, <1>5 DEF BatchFails, IInv, OrderInv
  <2> QED BY <2>1, <2>2, <2>3
<1>7. ReportInv'
  BY <1>1, <1>2 DEF IInv, ReportInv
<1> QED BY <1>3, <1>4, <1>6, <1>7 DEF IInv

\* The report is written from what the run left.
LEMMA ReportStep ==
  ASSUME IInv, Report
  PROVE  IInv'
<1>1. UNCHANGED <<options, warmups, stages, abort, sent, elapsed>> /\ pc = "report"
      /\ pc' = "saved"
  BY DEF Report
<1>2. PhaseInv' /\ BudgetInv'
  BY <1>1, PhasesStay
<1>3. TypeOK'
  BY <1>1 DEF IInv, TypeOK, PCs
<1>4. OrderInv'
  BY <1>1 DEF IInv, OrderInv, Clean, WarmupReason, StageReason
<1>5. Written' = Written
  BY <1>1 DEF Written
<1>6. ReportInv'
  BY <1>1, <1>5 DEF Report, ReportInv, Written
<1> QED BY <1>2, <1>3, <1>4, <1>6 DEF IInv

\* What others do to the saved report leaves the run alone.
LEMMA OthersStep ==
  ASSUME IInv, Damage \/ Ended \/ UNCHANGED vars
  PROVE  IInv'
<1>1. UNCHANGED <<options, pc, warmups, stages, abort, report, sent, elapsed>>
  BY DEF Damage, Ended, vars
<1>2. PhaseInv' /\ BudgetInv'
  BY <1>1, PhasesStay
<1>3. TypeOK' /\ OrderInv'
  BY <1>1 DEF IInv, TypeOK, PCs, OrderInv, Clean, WarmupReason, StageReason
<1>4. Written' = Written
  BY <1>1 DEF Written
<1>5. ReportInv'
  BY <1>1, <1>4 DEF IInv, ReportInv
<1> QED BY <1>2, <1>3, <1>5 DEF IInv

\* A warmup adds its own numbers, and its verdict decides what comes next.
LEMMA WarmupStep ==
  ASSUME SaturationAssumption, IInv,
         NEW succeeded \in 0..(Concurrency * options.warmup),
         NEW duration \in 1..(options.warmup * Timeout), Warmup(succeeded, duration)
  PROVE  IInv'
<1>0. PICK k : k = Len(warmups) + 1
  OBVIOUS
<1> DEFINE c == options.stages[k]
           n == c * options.warmup
           reason == AbortReason("warmup", succeeded, n, options.abortError)
           w == [concurrency |-> c, attempted |-> n, succeeded |-> succeeded, exact |-> TRUE,
                 aborted |-> reason # None]
<1>1. /\ pc = "warmup" /\ abort = None /\ Valid(options)
      /\ Len(warmups) = Len(stages) /\ Len(stages) < Len(options.stages)
      /\ Clean(Len(warmups), Len(stages))
  BY DEF Warmup, IInv, OrderInv
<1>2. /\ options.stages \in Seq(Nat) /\ Len(options.stages) \in Nat
      /\ options.warmup \in Nat /\ options.requests \in Nat /\ options.abortError \in Nat
  <2>1. TypeOK
    BY DEF IInv
  <2> QED BY <2>1, OptionFacts
<1>3. warmups \in Seq(Range(warmups)) /\ stages \in Seq(Range(stages))
      /\ Len(warmups) \in Nat /\ Len(stages) \in Nat /\ sent \in Nat /\ elapsed \in Nat
      /\ DOMAIN warmups = 1..Len(warmups)
  BY DEF IInv, TypeOK
<1>4. k \in 1..Len(options.stages) /\ c \in Nat
  <2>1. k \in 1..Len(options.stages)
    <3>1. Len(warmups) \in Nat /\ Len(options.stages) \in Nat
          /\ Len(warmups) < Len(options.stages)
      BY <1>1, <1>2, <1>3
    <3> QED BY <1>0, <3>1
  <2>2. options.stages[k] \in Nat
    BY <2>1, OptionFacts DEF IInv
  <2> QED BY <2>1, <2>2
<1>5. n \in Nat /\ succeeded \in 0..n /\ succeeded \in Nat /\ Concurrency = c
  <2>1. Concurrency = c
    BY <1>0, <1>1 DEF Concurrency
  <2>2. n \in Nat
    <3>1. options.warmup \in Nat /\ c \in Nat
      BY <1>2, <1>4
    <3> HIDE DEF c
    <3> QED BY <3>1
  <2>3. succeeded \in 0..n
    BY <2>1
  <2> HIDE DEF n, c
  <2> QED BY <2>1, <2>2, <2>3
<1>6. /\ warmups' = Append(warmups, w) /\ abort' = reason
      /\ pc' = AfterWarmup(reason)
      /\ sent' = sent + n /\ elapsed' = elapsed + duration
      /\ UNCHANGED <<options, stages, report>>
  BY <1>5 DEF Warmup
<1>7. reason \in Reasons \cup {None}
  <2>1. "warmup" \in {"warmup", "stage"}
    OBVIOUS
  <2> HIDE DEF n
  <2> QED BY <1>2, <1>5, <2>1, ReasonFacts
<1>8. pc' = IF reason # None THEN "report" ELSE "measure"
  BY <1>6 DEF AfterWarmup
<1> HIDE DEF reason, w, n, c
<1>9. /\ warmups' \in Seq(Range(warmups')) /\ Len(warmups') = k
      /\ DOMAIN warmups' = 1..k /\ warmups'[k] = w
      /\ \A i \in 1..Len(warmups) : warmups'[i] = warmups[i]
  BY <1>0, <1>3, <1>6, Appending
<1>10. TypeOK'
  BY <1>3, <1>6, <1>7, <1>8, <1>9, <1>5 DEF IInv, TypeOK, PCs
<1>11. PhaseInv'
  <2>1. \A s, i : IsStage(s, i)' <=> IsStage(s, i)
    BY <1>6 DEF IsStage, LongestWorker, WorkerTime
  <2>2. \A v, i : IsWarmup(v, i)' <=> IsWarmup(v, i)
    BY <1>6 DEF IsWarmup
  <2>3. IsWarmup(w, k)
    BY <1>5 DEF IsWarmup, w, n, c, reason
  <2>4. \A i \in 1..k : IsWarmup(warmups'[i], i)
    <3>1. \A i \in 1..k : i = k \/ i \in 1..Len(warmups)
      BY <1>0, <1>3
    <3>2. \A i \in 1..Len(warmups) : IsWarmup(warmups[i], i)
      BY <1>3 DEF IInv, PhaseInv
    <3> QED BY <3>1, <3>2, <2>3, <1>9
  <2>5. k <= Len(options.stages)
    BY <1>4
  <2> QED BY <2>1, <2>2, <2>4, <2>5, <1>6, <1>9 DEF IInv, PhaseInv
<1>12. OrderInv'
  <2>1. \A i \in 1..Len(warmups) : WarmupReason(i)' = WarmupReason(i)
    BY <1>6, <1>9 DEF WarmupReason
  <2>2. \A i : StageReason(i)' = StageReason(i)
    BY <1>6 DEF StageReason
  <2>3. WarmupReason(k)' = reason
    BY <1>6, <1>9 DEF WarmupReason, w, reason
  <2>4. /\ \A i \in 1..Len(warmups) : WarmupReason(i)' = None
        /\ \A i \in 1..Len(stages) : StageReason(i)' = None
    BY <1>1, <2>1, <2>2 DEF Clean
  <2>5. \A i \in 1..k : i = k \/ i \in 1..Len(warmups)
    BY <1>0, <1>3
  <2>6. k = Len(stages) + 1
    BY <1>0, <1>1
  <2>7. CASE reason = None
    <3>1. Clean(k, Len(stages))'
      BY <2>3, <2>4, <2>5, <2>7, <1>6 DEF Clean
    <3>2. Clean(Len(warmups), Len(stages))'
      BY <3>1, <1>9, <1>6 DEF Clean
    <3> QED BY <2>7, <3>2, <2>6, <1>1, <1>6, <1>8, <1>9 DEF OrderInv
  <2>8. CASE reason # None
    <3>1. Clean(Len(stages), Len(stages))'
      BY <2>4, <1>1, <1>6 DEF Clean
    <3> QED BY <2>8, <3>1, <2>3, <2>6, <1>1, <1>6, <1>8, <1>9 DEF OrderInv
  <2> QED BY <2>7, <2>8
<1>13. BudgetInv'
  <2> DEFINE p == PlannedFor(Len(warmups))
             q == PlannedFor(Len(stages))
             u == options.warmup
             r == options.requests
             W == Len(warmups)
             S == Len(stages)
  <2>1. PlannedFor(k) = p + c /\ p \in Nat /\ q \in Nat
    <3>1. k - 1 = Len(warmups) /\ Len(warmups) \in 0..Len(options.stages)
          /\ Len(stages) \in 0..Len(options.stages)
      BY SMTT(30), <1>0, <1>1, <1>2, <1>3
    <3> QED BY <1>2, <1>4, <3>1, PrefixTotals DEF PlannedFor, c
  <2>2. \A i : PlannedFor(i)' = PlannedFor(i)
    BY <1>6 DEF PlannedFor
  <2>3. sent = p * u + q * r /\ elapsed <= (W * u + S * r) * Timeout
    BY DEF IInv, BudgetInv
  <2>4. n = c * u
    BY DEF n
  <2>5. u \in Nat /\ r \in Nat /\ c \in Nat /\ W \in Nat /\ S \in Nat /\ Timeout \in Nat
        /\ duration \in Nat /\ duration <= u * Timeout /\ elapsed \in Nat
    <3>1. u * Timeout \in Nat /\ Timeout \in Nat
      BY <1>2 DEF SaturationAssumption
    <3>2. u \in Nat /\ r \in Nat /\ c \in Nat /\ W \in Nat /\ S \in Nat /\ elapsed \in Nat
      BY <1>2, <1>3, <1>4
    <3>3. duration \in 1..(u * Timeout)
      OBVIOUS
    <3> HIDE DEF u
    <3>4. duration \in Nat /\ duration <= u * Timeout
      BY <3>1, <3>3
    <3> QED BY <3>1, <3>2, <3>4
  <2>6. sent' = (p + c) * u + q * r
    <3> HIDE DEF p, q, u, r
    <3> DEFINE x == p * u
               y == c * u
               z == q * r
    <3>1. (p + c) * u = x + y /\ x \in Nat /\ y \in Nat /\ z \in Nat
      BY <2>1, <2>5
    <3>2. sent = x + z /\ sent' = sent + y
      BY <2>3, <2>4, <1>6
    <3>3. sent' = (x + y) + z
      <4> HIDE DEF x, y, z
      <4> QED BY <3>1, <3>2
    <3> HIDE DEF x, y
    <3> QED BY <3>1, <3>3
  <2>7. elapsed' <= ((W + 1) * u + S * r) * Timeout
    <3> HIDE DEF u, r, W, S
    <3> DEFINE x == W * u + S * r
    <3>1. (W + 1) * u + S * r = x + u /\ x \in Nat
      BY <2>5
    <3>2. (x + u) * Timeout = x * Timeout + u * Timeout /\ x * Timeout \in Nat
          /\ u * Timeout \in Nat
      <4> HIDE DEF x
      <4> QED BY <3>1, <2>5
    <3>3. elapsed <= x * Timeout
      BY <2>3
    <3> HIDE DEF x
    <3>4. elapsed + duration <= x * Timeout + u * Timeout
      BY <3>2, <3>3, <2>5
    <3> QED BY <3>1, <3>2, <3>4, <1>6
  <2>8. Len(warmups)' = W + 1 /\ PlannedFor(Len(warmups))' = p + c
        /\ PlannedFor(Len(stages))' = q
    BY <1>0, <1>6, <1>9, <2>1, <2>2
  <2> QED BY <2>6, <2>7, <2>8, <1>6 DEF BudgetInv
<1>14. ReportInv'
  <2>1. report = None
    BY <1>1 DEF IInv, ReportInv
  <2> QED BY <2>1, <1>6, <1>8 DEF ReportInv
<1> QED BY <1>10, <1>11, <1>12, <1>13, <1>14 DEF IInv

\* A measured stage adds the numbers of its attempts; the run goes on to the
\* next warmup only when the guard lets it and the plan has one.
LEMMA MeasureStep ==
  ASSUME SaturationAssumption, IInv,
         NEW attempts \in Attempts(Concurrency * options.requests), Measure(attempts)
  PROVE  IInv'
<1>0. PICK k : k = Len(stages) + 1
  OBVIOUS
<1> DEFINE c == options.stages[k]
           n == c * options.requests
           duration == LongestWorker(attempts)
           reason == AbortReason("stage", Succeeded(attempts), n, options.abortError)
           s == StageOf(c, attempts, duration, options)
<1>1. /\ pc = "measure" /\ abort = None /\ Valid(options)
      /\ Len(warmups) = k /\ Len(warmups) <= Len(options.stages)
      /\ Clean(Len(warmups), Len(stages))
  BY <1>0 DEF Measure, IInv, OrderInv, PhaseInv
<1>2. TypeOK
  BY DEF IInv
<1>3. /\ options.stages \in Seq(Nat) /\ Len(options.stages) \in Nat
      /\ options.warmup \in Nat /\ options.requests \in Nat \ {0} /\ options.abortError \in Nat
  <2>1. options.requests \in Nat /\ options.requests > 0
    BY <1>1, <1>2, OptionFacts
  <2> QED BY <1>2, <2>1, OptionFacts
<1>4. warmups \in Seq(Range(warmups)) /\ stages \in Seq(Range(stages))
      /\ Len(warmups) \in Nat /\ Len(stages) \in Nat /\ sent \in Nat /\ elapsed \in Nat
      /\ DOMAIN stages = 1..Len(stages)
  BY <1>2 DEF TypeOK
<1>5. k \in 1..Len(options.stages) /\ c \in Nat \ {0}
  <2>1. k \in 1..Len(options.stages)
    <3>1. Len(stages) \in Nat /\ Len(options.stages) \in Nat /\ k <= Len(options.stages)
      BY <1>1, <1>3, <1>4
    <3> QED BY <1>0, <3>1
  <2>2. options.stages[k] \in Nat \ {0}
    BY <1>1, <1>2, <2>1, OptionFacts
  <2> QED BY <2>1, <2>2
<1>6. n \in Nat /\ Concurrency = c
  <2>1. options.requests \in Nat /\ c \in Nat
    BY <1>3, <1>5
  <2>2. Concurrency = c
    BY <1>0 DEF Concurrency
  <2> HIDE DEF c
  <2> QED BY <2>1, <2>2
<1>7. attempts \in [1..n -> Outcomes]
  BY <1>6 DEF Attempts
<1>8. Len(attempts) = n /\ Succeeded(attempts) \in 0..n
  <2> HIDE DEF n
  <2> QED BY <1>6, <1>7, CountFacts
<1>9. duration \in Nat /\ duration <= options.requests * Timeout
  <2>1. duration \in 0..(options.requests * Timeout)
    <3> HIDE DEF c
    <3> QED BY <1>3, <1>5, <1>7, LongestBound
  <2>2. options.requests * Timeout \in Nat
    BY <1>3 DEF SaturationAssumption
  <2> HIDE DEF duration
  <2> QED BY <2>1, <2>2
<1>10. /\ stages' = Append(stages, s) /\ abort' = reason
       /\ pc' = IF reason # None \/ Len(stages') = Len(options.stages)
                THEN "report" ELSE "warmup"
       /\ sent' = sent + n /\ elapsed' = elapsed + duration
       /\ UNCHANGED <<options, warmups, report>>
  BY <1>6, <1>8 DEF Measure
<1>11. reason \in Reasons \cup {None}
  <2>1. "stage" \in {"warmup", "stage"}
    OBVIOUS
  <2> HIDE DEF n
  <2> QED BY <1>3, <1>6, <1>8, <2>1, ReasonFacts
<1>12. s.summary.attempted = n /\ s.summary.succeeded = Succeeded(attempts)
       /\ s.attempts = attempts
  BY <1>8 DEF StageOf, Summary
<1>13. IsStage(s, k)
  BY <1>7, <1>12 DEF IsStage, Attempts
<1> HIDE DEF reason, s, duration, n, c
<1>14. /\ stages' \in Seq(Range(stages')) /\ Len(stages') = k
       /\ DOMAIN stages' = 1..k /\ stages'[k] = s
       /\ \A i \in 1..Len(stages) : stages'[i] = stages[i]
  BY <1>0, <1>4, <1>10, Appending
<1>15. TypeOK'
  <2>1. sent' \in Nat /\ elapsed' \in Nat
    BY SMTT(30), <1>4, <1>6, <1>9, <1>10
  <2>2. pc' \in PCs /\ abort' \in Reasons \cup {None}
    BY <1>10, <1>11 DEF PCs
  <2> QED BY <2>1, <2>2, <1>2, <1>10, <1>14 DEF TypeOK
<1>16. PhaseInv'
  <2>1. \A v, i : IsStage(v, i)' <=> IsStage(v, i)
    BY <1>10 DEF IsStage, LongestWorker, WorkerTime
  <2>2. \A v, i : IsWarmup(v, i)' <=> IsWarmup(v, i)
    BY <1>10 DEF IsWarmup
  <2>3. \A i \in 1..k : IsStage(stages'[i], i)
    <3>1. \A i \in 1..k : i = k \/ i \in 1..Len(stages)
      BY <1>0, <1>4
    <3>2. \A i \in 1..Len(stages) : IsStage(stages[i], i)
      BY <1>4 DEF IInv, PhaseInv
    <3> QED BY <3>1, <3>2, <1>13, <1>14
  <2>4. k <= Len(options.stages)
    BY <1>5
  <2> QED BY <2>1, <2>2, <2>3, <2>4, <1>10, <1>14 DEF IInv, PhaseInv
<1>17. OrderInv'
  <2>1. \A i \in 1..Len(stages) : StageReason(i)' = StageReason(i)
    BY <1>10, <1>14 DEF StageReason
  <2>2. \A i : WarmupReason(i)' = WarmupReason(i)
    BY <1>10 DEF WarmupReason
  <2>3. StageReason(k)' = reason
    BY <1>10, <1>12, <1>14 DEF StageReason, reason
  <2>4. /\ \A i \in 1..Len(stages) : StageReason(i)' = None
        /\ \A i \in 1..k : WarmupReason(i)' = None
    BY <1>1, <2>1, <2>2 DEF Clean
  <2>5. \A i \in 1..k : i = k \/ i \in 1..Len(stages)
    BY <1>0, <1>4
  <2>6. k > 0 /\ k - 1 = Len(stages) /\ k <= Len(options.stages)
        /\ Len(options.stages) \in Nat /\ k \in Nat
    BY SMTT(30), <1>0, <1>3, <1>4, <1>5
  <2>7. CASE pc' = "warmup"
    <3>1. reason = None /\ k # Len(options.stages)
      BY <2>7, <1>10, <1>14
    <3>2. Clean(k, k)'
      BY <2>3, <2>4, <2>5, <3>1, <1>10 DEF Clean
    <3>3. Clean(Len(warmups), Len(stages))'
      BY <3>2, <1>1, <1>10, <1>14 DEF Clean
    <3>4. k < Len(options.stages)
      BY <3>1, <2>6
    <3> QED BY <2>7, <3>1, <3>3, <3>4, <1>1, <1>10, <1>14 DEF OrderInv
  <2>8. CASE pc' = "report"
    <3>1. Clean(k, k - 1)'
      BY <2>4, <2>6, <1>10 DEF Clean
    <3>2. Clean(Len(warmups), Len(stages) - 1)'
      BY <3>1, <1>1, <1>10, <1>14 DEF Clean
    <3>3. reason = None => k = Len(options.stages)
      BY <2>8, <1>10, <1>14
    <3>4. Len(stages)' = k /\ Len(warmups)' = k /\ Valid(options)'
          /\ StageReason(Len(stages))' = StageReason(k)'
      BY <1>1, <1>10, <1>14
    <3> QED BY <2>3, <2>6, <2>8, <3>2, <3>3, <3>4, <1>10 DEF OrderInv
  <2> QED BY <2>7, <2>8, <1>10
<1>18. BudgetInv'
  <2> DEFINE p == PlannedFor(Len(warmups))
             q == PlannedFor(Len(stages))
             u == options.warmup
             r == options.requests
             W == Len(warmups)
             S == Len(stages)
  <2>1. PlannedFor(k) = q + c /\ p \in Nat /\ q \in Nat
    <3>1. k - 1 = Len(stages) /\ Len(warmups) \in 0..Len(options.stages)
          /\ Len(stages) \in 0..Len(options.stages)
      BY <1>0, <1>1, <1>3, <1>4
    <3> QED BY <1>3, <1>5, <3>1, PrefixTotals DEF PlannedFor, c
  <2>2. \A i : PlannedFor(i)' = PlannedFor(i)
    BY <1>10 DEF PlannedFor
  <2>3. sent = p * u + q * r /\ elapsed <= (W * u + S * r) * Timeout
    BY DEF IInv, BudgetInv
  <2>4. n = c * r
    BY DEF n
  <2>5. u \in Nat /\ r \in Nat /\ c \in Nat /\ W \in Nat /\ S \in Nat /\ Timeout \in Nat
    BY <1>3, <1>4, <1>5 DEF SaturationAssumption
  <2>6. sent' = p * u + (q + c) * r
    <3> HIDE DEF p, q, u, r
    <3> DEFINE x == p * u
               y == c * r
               z == q * r
    <3>1. (q + c) * r = z + y /\ x \in Nat /\ y \in Nat /\ z \in Nat
      BY <2>1, <2>5
    <3>2. sent = x + z /\ sent' = sent + y
      BY <2>3, <2>4, <1>10
    <3>3. sent' = x + (z + y)
      <4> HIDE DEF x, y, z
      <4> QED BY <3>1, <3>2
    <3> HIDE DEF y, z
    <3> QED BY <3>1, <3>3
  <2>7. elapsed' <= (W * u + (S + 1) * r) * Timeout
    <3> HIDE DEF u, r, W, S
    <3> DEFINE x == W * u + S * r
    <3>1. W * u + (S + 1) * r = x + r /\ x \in Nat
      BY <2>5
    <3>2. (x + r) * Timeout = x * Timeout + r * Timeout /\ x * Timeout \in Nat
          /\ r * Timeout \in Nat
      <4> HIDE DEF x
      <4> QED BY <3>1, <2>5
    <3>3. elapsed <= x * Timeout
      BY <2>3
    <3> HIDE DEF x
    <3>4. duration <= r * Timeout
      BY <1>9 DEF r
    <3>5. elapsed + duration <= x * Timeout + r * Timeout
      BY <3>2, <3>3, <3>4, <1>4, <1>9
    <3> QED BY <3>1, <3>2, <3>5, <1>10
  <2>8. Len(stages)' = S + 1 /\ PlannedFor(Len(stages))' = q + c
        /\ PlannedFor(Len(warmups))' = p
    BY <1>0, <1>10, <1>14, <2>1, <2>2
  <2> QED BY <2>6, <2>7, <2>8, <1>10 DEF BudgetInv
<1>19. ReportInv'
  <2>1. report = None
    BY <1>1 DEF IInv, ReportInv
  <2> QED BY <2>1, <1>10 DEF ReportInv
<1> QED BY <1>15, <1>16, <1>17, <1>18, <1>19 DEF IInv

\* Every step keeps the invariant.
LEMMA NextInv ==
  ASSUME SaturationAssumption, IInv, [Next]_vars
  PROVE  IInv'
<1>1. CASE Refuse \/ Admit \/ BatchFails
  BY <1>1, AdmissionStep
<1>2. CASE Report
  BY <1>2, ReportStep
<1>3. CASE Damage \/ Ended \/ UNCHANGED vars
  BY <1>3, OthersStep
<1>4. ASSUME NEW succeeded \in 0..(Concurrency * options.warmup),
             NEW duration \in 1..(options.warmup * Timeout), Warmup(succeeded, duration)
      PROVE  IInv'
  BY <1>4, WarmupStep
<1>5. ASSUME NEW attempts \in Attempts(Concurrency * options.requests), Measure(attempts)
      PROVE  IInv'
  BY <1>5, MeasureStep
<1> QED BY <1>1, <1>2, <1>3, <1>4, <1>5 DEF Next

\* The phases, their order, the traffic and the report are the plan's in
\* every reachable state.
THEOREM SaturationInvariant ==
  ASSUME SaturationAssumption
  PROVE  Spec => []IInv
<1>1. Init => IInv
  BY InitInv
<1>2. IInv /\ [Next]_vars => IInv'
  BY NextInv
<1> QED BY <1>1, <1>2, PTL DEF Spec

-----------------------------------------------------------------------------
(* What it implies.                                                        *)

\* The cap of the admitted plan holds for what is sent and for how long.
LEMMA PlanCaps ==
  ASSUME SaturationAssumption, IInv
  PROVE  TrafficBounded
<1> DEFINE T == Total(options.stages)
           p == PlannedFor(Len(warmups))
           q == PlannedFor(Len(stages))
           u == options.warmup
           r == options.requests
           W == Len(warmups)
           S == Len(stages)
           N == Len(options.stages)
<1>1. options.stages \in Seq(Nat) /\ N \in Nat /\ u \in Nat /\ r \in Nat
  BY OptionFacts DEF IInv
<1>2. W \in Nat /\ S \in Nat /\ W <= N /\ S <= N /\ sent \in Nat /\ elapsed \in Nat
  BY DEF IInv, TypeOK, PhaseInv
<1>3. sent = p * u + q * r /\ elapsed <= (W * u + S * r) * Timeout
  BY DEF IInv, BudgetInv
<1>4. {MaxAttempts, MaxWallTime, Timeout} \subseteq Nat
  BY DEF SaturationAssumption
<1>5. p \in Nat /\ q \in Nat /\ T \in Nat /\ p <= T /\ q <= T
      /\ PlannedFor(0) = 0 /\ PlannedFor(N) = T
  <2>1. W \in 0..N /\ S \in 0..N /\ N \in 0..N
    BY <1>1, <1>2
  <2> QED BY <2>1, <1>1, PrefixTotals DEF PlannedFor
<1>6. pc \in {"validate", "refused"} => sent = 0 /\ elapsed = 0
  <2> SUFFICES ASSUME pc \in {"validate", "refused"}
               PROVE  sent = 0 /\ elapsed = 0
    OBVIOUS
  <2>1. W = 0 /\ S = 0
    BY DEF IInv, OrderInv
  <2>2. sent = 0 * u + 0 * r /\ elapsed <= (0 * u + 0 * r) * Timeout
    BY <2>1, <1>3, <1>5
  <2> QED BY SMTT(30), <2>2, <1>1, <1>2, <1>4
<1>7. ASSUME Valid(options)
      PROVE  sent <= MaxAttempts /\ elapsed <= MaxWallTime
  <2>1. T * (u + r) <= MaxAttempts /\ (N * (u + r)) * Timeout <= MaxWallTime
    BY <1>7 DEF Valid, Planned, Waves
  <2> HIDE DEF T, p, q, u, r, W, S, N
  <2>2. p * u <= T * u /\ q * r <= T * r /\ p * u \in Nat /\ q * r \in Nat
    BY <1>1, <1>5, TimesMonotone
  <2>3. T * (u + r) = T * u + T * r /\ T * u \in Nat /\ T * r \in Nat
    BY <1>1, <1>5
  <2>4. sent <= T * (u + r)
    BY <2>2, <2>3, <1>3
  <2>5. W * u <= N * u /\ S * r <= N * r /\ W * u \in Nat /\ S * r \in Nat
    BY <1>1, <1>2, TimesMonotone
  <2>6. N * (u + r) = N * u + N * r /\ N * u \in Nat /\ N * r \in Nat
    BY <1>1
  <2> DEFINE x == W * u + S * r
             y == N * (u + r)
  <2>7. x \in Nat /\ y \in Nat /\ x <= y
    BY <2>5, <2>6
  <2>8. x * Timeout <= y * Timeout
    <3> HIDE DEF x, y
    <3> QED BY <2>7, <1>4, TimesMonotone
  <2>9. x * Timeout \in Nat /\ y * Timeout \in Nat
    <3> HIDE DEF x, y
    <3> QED BY <2>7, <1>4
  <2>10. elapsed <= x * Timeout
    BY <1>3
  <2>11. y * Timeout <= MaxWallTime
    BY <2>1
  <2>12. elapsed <= MaxWallTime
    <3> HIDE DEF x, y
    <3> QED BY <2>8, <2>9, <2>10, <2>11, <1>2, <1>4
  <2>13. sent <= MaxAttempts
    <3> DEFINE z == T * (u + r)
    <3>1. z \in Nat /\ sent <= z /\ z <= MaxAttempts
      BY <2>1, <2>3, <2>4
    <3> HIDE DEF z
    <3> QED BY <3>1, <1>2, <1>4
  <2> QED BY <2>12, <2>13
<1>8. sent <= MaxAttempts /\ elapsed <= MaxWallTime
  <2>1. CASE pc \in {"validate", "refused"}
    BY <2>1, <1>4, <1>6
  <2>2. CASE pc \notin {"validate", "refused"}
    BY <2>2, <1>7 DEF IInv, OrderInv
  <2> QED BY <2>1, <2>2
<1>9. ASSUME report # None, report.status = "complete"
      PROVE  sent = T * (u + r)
  <2>1. pc = "saved" /\ report = Written
    BY <1>9 DEF IInv, ReportInv
  <2>2. abort = None
    BY <2>1, <1>9 DEF Written
  <2>3. W = N /\ S = N
    BY <2>1, <2>2 DEF IInv, OrderInv
  <2>4. sent = T * u + T * r
    BY <2>3, <1>3, <1>5
  <2> HIDE DEF T, u, r
  <2> QED BY <2>4, <1>1, <1>5
<1> QED BY <1>6, <1>8, <1>9 DEF TrafficBounded

\* The plan caps the traffic of every run.
THEOREM TrafficIsBounded ==
  ASSUME SaturationAssumption
  PROVE  Spec => []TrafficBounded
<1>1. IInv => TrafficBounded
  BY PlanCaps
<1> QED BY <1>1, SaturationInvariant, PTL

\* Traffic is sent only from a state that the guard has let pass.
LEMMA GuardedTraffic ==
  ASSUME SaturationAssumption, IInv, [Next]_vars, sent' > sent
  PROVE  /\ \A i \in DOMAIN warmups :
              /\ warmups[i].succeeded > 0
              /\ 100 * (warmups[i].attempted - warmups[i].succeeded)
                   < options.abortError * warmups[i].attempted
         /\ \A i \in DOMAIN stages :
              /\ stages[i].summary.succeeded > 0
              /\ 100 * Failed(stages[i].attempts)
                   < options.abortError * Len(stages[i].attempts)
<1>1. pc \in {"warmup", "measure"}
  <2>1. sent \in Nat
    BY DEF IInv, TypeOK
  <2>2. ~(UNCHANGED sent)
    BY <2>1
  <2> QED BY <2>2 DEF Next, vars, Refuse, Admit, BatchFails, Report, Damage, Ended
<1>2. Clean(Len(warmups), Len(stages)) /\ Valid(options)
  BY <1>1 DEF IInv, OrderInv
<1>3. options.abortError \in Nat /\ options.warmup \in Nat /\ Len(options.stages) \in Nat
  BY OptionFacts DEF IInv
<1>4. DOMAIN warmups = 1..Len(warmups) /\ DOMAIN stages = 1..Len(stages)
      /\ Len(warmups) \in Nat /\ Len(stages) \in Nat
      /\ Len(warmups) <= Len(options.stages) /\ Len(stages) <= Len(options.stages)
  BY DEF IInv, TypeOK, PhaseInv
<1>5. ASSUME NEW i \in DOMAIN warmups
      PROVE  /\ warmups[i].succeeded > 0
             /\ 100 * (warmups[i].attempted - warmups[i].succeeded)
                  < options.abortError * warmups[i].attempted
  <2> DEFINE n == warmups[i].attempted
             m == warmups[i].succeeded
  <2>1. i \in 1..Len(options.stages)
    BY <1>3, <1>4
  <2>2. n = options.stages[i] * options.warmup /\ m \in 0..n
    BY DEF IInv, PhaseInv, IsWarmup
  <2>3. options.stages[i] \in Nat
    BY <2>1, OptionFacts DEF IInv
  <2>4. n \in Nat
    <3>1. options.warmup \in Nat
      BY <1>3
    <3>2. options.stages[i] * options.warmup \in Nat
      BY <2>3, <3>1, options.stages[i] <= options.stages[i], TimesMonotone
    <3> QED BY <2>2, <3>2
  <2>5. AbortReason("warmup", m, n, options.abortError) = None
    BY <1>2, <1>4 DEF Clean, WarmupReason
  <2> HIDE DEF n, m
  <2>6. m > 0 /\ 100 * (n - m) < options.abortError * n
    BY <2>2, <2>4, <2>5, <1>3, ReasonFacts
  <2> QED BY <2>6 DEF n, m
<1>6. ASSUME NEW i \in DOMAIN stages
      PROVE  /\ stages[i].summary.succeeded > 0
             /\ 100 * Failed(stages[i].attempts)
                  < options.abortError * Len(stages[i].attempts)
  <2> DEFINE n == stages[i].summary.attempted
             m == stages[i].summary.succeeded
  <2>1. i \in 1..Len(options.stages)
    BY <1>3, <1>4
  <2>2. IsStage(stages[i], i) /\ TypeOK
    BY DEF IInv, PhaseInv
  <2>3. /\ Len(stages[i].attempts) \in Nat \ {0} /\ n = Len(stages[i].attempts)
        /\ m = Succeeded(stages[i].attempts) /\ m \in 0..n
    BY <1>2, <2>1, <2>2, StageFacts
  <2>4. AbortReason("stage", m, n, options.abortError) = None
    BY <1>2, <1>4 DEF Clean, StageReason
  <2>5. Failed(stages[i].attempts) = n - m
    BY <2>3 DEF Failed
  <2> HIDE DEF n, m
  <2>6. m > 0 /\ 100 * (n - m) < options.abortError * n
    BY <2>3, <2>4, <1>3, ReasonFacts
  <2> QED BY <2>3, <2>5, <2>6 DEF m
<1> QED BY <1>5, <1>6

\* The guard stops the traffic of every run.
THEOREM AbortAlwaysStops ==
  ASSUME SaturationAssumption
  PROVE  Spec => AbortStopsTraffic
<1>1. IInv /\ [Next]_vars =>
        [sent' > sent =>
           /\ \A i \in DOMAIN warmups :
                /\ warmups[i].succeeded > 0
                /\ 100 * (warmups[i].attempted - warmups[i].succeeded)
                     < options.abortError * warmups[i].attempted
           /\ \A i \in DOMAIN stages :
                /\ stages[i].summary.succeeded > 0
                /\ 100 * Failed(stages[i].attempts)
                     < options.abortError * Len(stages[i].attempts)]_vars
  BY GuardedTraffic
<1> QED BY <1>1, SaturationInvariant, PTL DEF Spec, AbortStopsTraffic

\* Every stage is an admitted one, and each is larger than those before it.
LEMMA LadderFacts ==
  ASSUME SaturationAssumption, IInv, Valid(options)
  PROVE  /\ DOMAIN stages = 1..Len(stages) /\ Len(stages) \in Nat
         /\ \A i \in 1..Len(stages) :
              /\ IsStage(stages[i], i) /\ i \in 1..Len(options.stages)
              /\ stages[i].concurrency \in Nat \ {0}
              /\ stages[i].concurrency <= MaxConcurrency
         /\ \A i, j \in 1..Len(stages) :
              i < j => stages[i].concurrency < stages[j].concurrency
<1>1. TypeOK /\ Len(options.stages) \in Nat
  BY OptionFacts DEF IInv
<1>2. DOMAIN stages = 1..Len(stages) /\ Len(stages) \in Nat
      /\ Len(stages) <= Len(options.stages)
  BY DEF IInv, TypeOK, PhaseInv
<1>3. ASSUME NEW i \in 1..Len(stages)
      PROVE  /\ IsStage(stages[i], i) /\ i \in 1..Len(options.stages)
             /\ stages[i].concurrency = options.stages[i]
             /\ stages[i].concurrency \in Nat \ {0}
             /\ stages[i].concurrency <= MaxConcurrency
  <2>1. IsStage(stages[i], i)
    BY <1>2 DEF IInv, PhaseInv
  <2>2. i \in 1..Len(options.stages)
    BY <1>1, <1>2
  <2>3. stages[i].concurrency = options.stages[i]
    BY <1>1, <2>1, <2>2, StageFacts
  <2>4. options.stages[i] \in Nat \ {0} /\ options.stages[i] <= MaxConcurrency
    BY <1>1, <2>2, OptionFacts
  <2> QED BY <2>1, <2>2, <2>3, <2>4
<1>4. ASSUME NEW i \in 1..Len(stages), NEW j \in 1..Len(stages), i < j
      PROVE  stages[i].concurrency < stages[j].concurrency
  <2>1. DOMAIN options.stages = 1..Len(options.stages)
    <3>1. options.stages \in Seq(Nat)
      BY <1>1, OptionFacts
    <3> QED BY <3>1
  <2>2. options.stages[i] < options.stages[j]
    BY <1>3, <1>4, <2>1 DEF Valid, ValidSchedule
  <2> QED BY <1>3, <2>2
<1> QED BY <1>2, <1>3, <1>4

\* The gates of a stage, one by one.
LEMMA GateFacts ==
  ASSUME NEW stage, NEW s, NEW o, stage.gates = Gates(s, o)
  PROVE  /\ stage.gates.successful \in Statuses(stage)
         /\ stage.gates.error \in Statuses(stage)
         /\ stage.gates.p95 \in Statuses(stage)
         /\ stage.gates.goodput \in Statuses(stage)
         /\ Statuses(stage) \subseteq {"pass", "fail", "notEvaluable"}
<1> DEFINE g == stage.gates
<1>1. DOMAIN g = {"successful", "error", "p95", "rps", "goodput"}
  BY DEF Gates
<1>2. \A x \in DOMAIN g : g[x] \in Statuses(stage)
  BY DEF Statuses
<1>3. \A x \in DOMAIN g : g[x] \in {"pass", "fail", "notEvaluable"}
  BY <1>1 DEF Gates, PassIf
<1>4. Statuses(stage) \subseteq {"pass", "fail", "notEvaluable"}
  <2> HIDE DEF g
  <2> QED BY <1>3 DEF Statuses, g
<1> QED BY <1>1, <1>2, <1>4

\* An error percentage that reaches a limit exceeds every lower one.
LEMMA GuardAboveGate ==
  ASSUME NEW n \in Nat \ {0}, NEW m \in 0..n, NEW e \in Nat, NEW a \in Nat, e < a,
         100 * (n - m) >= a * n
  PROVE  100 * (n - m) > e * n
<1>1. (e + 1) * n <= a * n /\ (e + 1) * n \in Nat
  <2>1. e + 1 \in Nat /\ e + 1 <= a
    OBVIOUS
  <2> QED BY <2>1, TimesMonotone
<1>2. (e + 1) * n = e * n + n /\ e * n \in Nat /\ a * n \in Nat /\ 100 * (n - m) \in Nat
  OBVIOUS
<1> DEFINE x == e * n
           y == a * n
           z == 100 * (n - m)
<1>3. x + n <= y /\ x \in Nat /\ y \in Nat /\ z \in Nat /\ z >= y
  BY <1>1, <1>2
<1>4. z > x
  <2> HIDE DEF x, y, z
  <2> QED BY <1>3
<1> QED BY <1>4

\* The guard lies above the error gate: a stage that makes the run abort fails.
LEMMA AbortedStageFails ==
  ASSUME SaturationAssumption, IInv, Valid(options),
         NEW i \in 1..Len(stages), StageReason(i) # None
  PROVE  "fail" \in Statuses(stages[i])
<1> DEFINE s == stages[i].summary
           n == s.attempted
           m == s.succeeded
<1>1. IsStage(stages[i], i) /\ i \in 1..Len(options.stages) /\ TypeOK
  BY LadderFacts DEF IInv
<1>2. n \in Nat \ {0} /\ m \in 0..n /\ stages[i].gates = Gates(s, options)
  BY SMTT(30), <1>1, StageFacts
<1>3. options.abortError \in Nat /\ options.maxError \in Nat
      /\ options.maxError < options.abortError
  <2>1. options.abortError > options.maxError
    BY DEF Valid, ValidThresholds
  <2> QED BY <1>1, <2>1, OptionFacts
<1>4. m = 0 \/ 100 * (n - m) >= options.abortError * n
  <2>1. AbortReason("stage", m, n, options.abortError) # None
    BY DEF StageReason
  <2>2. n \in Nat /\ m \in 0..n /\ "stage" \in {"warmup", "stage"}
    BY <1>2
  <2> HIDE DEF n, m
  <2>3. ~ (m > 0 /\ 100 * (n - m) < options.abortError * n)
    <3>1. options.abortError \in Nat
      BY <1>3
    <3>2. AbortReason("stage", m, n, options.abortError) = None
            <=> /\ m > 0
                /\ 100 * (n - m) < options.abortError * n
      BY <2>2, <3>1, ReasonFacts
    <3> QED BY <2>1, <3>2
  <2>4. options.abortError * n \in Nat /\ 100 * (n - m) \in Nat /\ m \in Nat
    <3>1. n - m \in Nat /\ m \in Nat
      BY <2>2
    <3>2. options.abortError \in Nat /\ n \in Nat
      BY <2>2, <1>3
    <3>3. options.abortError * n \in Nat
      BY <3>2, options.abortError <= options.abortError, TimesMonotone
    <3> DEFINE d == n - m
    <3>4. 100 * d \in Nat
      <4>1. d \in Nat
        BY <3>1
      <4> HIDE DEF d
      <4> QED BY <4>1
    <3> QED BY <3>1, <3>3, <3>4
  <2> DEFINE x == options.abortError * n
             y == 100 * (n - m)
  <2> HIDE DEF x, y
  <2>5. x \in Nat /\ y \in Nat /\ m \in Nat /\ ~(m > 0 /\ y < x)
    BY <2>3, <2>4 DEF x, y
  <2>6. m = 0 \/ y >= x
    BY <2>5
  <2> QED BY <2>6 DEF x, y
<1>5. stages[i].gates.successful \in Statuses(stages[i])
      /\ stages[i].gates.error \in Statuses(stages[i])
  BY <1>2, GateFacts
<1>6. CASE m = 0
  <2>1. stages[i].gates.successful = "fail"
    BY <1>2, <1>6 DEF Gates, PassIf
  <2> QED BY <1>5, <2>1
<1>7. CASE m # 0
  <2>1. 100 * (n - m) >= options.abortError * n
    BY <1>4, <1>7
  <2>2. 100 * (n - m) > options.maxError * n
    <3> HIDE DEF n, m
    <3> QED BY <2>1, <1>2, <1>3, GuardAboveGate
  <2>3. stages[i].gates.error = "fail"
    BY <1>2, <2>2 DEF Gates, PassIf, ErrorAbove
  <2> QED BY <1>5, <2>3
<1> QED BY <1>6, <1>7

\* The highest accepted concurrency is that of a stage that passed, none that
\* passed is above it, and it is missing only when none passed.
LEMMA HighestFacts ==
  ASSUME SaturationAssumption, IInv, Valid(options)
  PROVE  LET highest == Assess(stages, options).highest
         IN  /\ highest # None =>
                  \E i \in 1..Len(stages) : Passes(stages[i]) /\ highest = stages[i].concurrency
             /\ \A i \in 1..Len(stages) : Passes(stages[i]) =>
                  highest # None /\ stages[i].concurrency <= highest
<1> DEFINE accepted == {stages[i].concurrency : i \in {j \in DOMAIN stages : Passes(stages[j])}}
           highest == Assess(stages, options).highest
<1>1. MaxConcurrency \in Nat /\ None \notin Nat
  BY DEF SaturationAssumption
<1>2. accepted \in SUBSET (0..MaxConcurrency)
  <2> SUFFICES ASSUME NEW i \in DOMAIN stages
               PROVE  stages[i].concurrency \in 0..MaxConcurrency
    OBVIOUS
  <2>1. stages[i].concurrency \in Nat /\ stages[i].concurrency <= MaxConcurrency
    BY LadderFacts
  <2> QED BY <2>1, <1>1
<1>3. highest = IF accepted = {} THEN None ELSE Max(accepted)
  BY DEF Assess
<1>4. \A x \in accepted :
        \E i \in 1..Len(stages) : Passes(stages[i]) /\ x = stages[i].concurrency
  BY LadderFacts
<1>5. \A i \in 1..Len(stages) : Passes(stages[i]) => stages[i].concurrency \in accepted
  BY LadderFacts
<1> HIDE DEF accepted, highest
<1>6. CASE accepted = {}
  BY <1>3, <1>5, <1>6 DEF highest
<1>7. CASE accepted # {}
  <2>1. Max(accepted) \in accepted /\ \A x \in accepted : x <= Max(accepted)
    BY <1>1, <1>2, <1>7, LargestOf
  <2>2. highest = Max(accepted) /\ highest # None
    <3>1. Max(accepted) \in Nat
      <4>1. \A x \in 0..MaxConcurrency : x \in Nat
        BY <1>1
      <4> QED BY <2>1, <1>2, <4>1
    <3> QED BY <3>1, <1>1, <1>3, <1>7
  <2> QED BY <2>1, <2>2, <1>4, <1>5 DEF highest
<1> QED BY <1>6, <1>7

\* The numbers of every measured stage.
LEMMA StageNumbers ==
  ASSUME SaturationAssumption, IInv, Valid(options), NEW i \in 1..Len(stages)
  PROVE  /\ stages[i].summary.attempted \in Nat \ {0}
         /\ stages[i].summary.succeeded \in Nat
         /\ stages[i].summary.duration \in Nat
         /\ stages[i].gates = Gates(stages[i].summary, options)
<1>1. IsStage(stages[i], i) /\ i \in 1..Len(options.stages) /\ TypeOK
  BY LadderFacts DEF IInv
<1> DEFINE s == stages[i]
<1>2. IsStage(s, i)
  BY <1>1
<1> HIDE DEF s
<1>3. /\ s.summary.attempted \in Nat \ {0} /\ s.summary.duration \in Nat
      /\ s.summary.succeeded \in 0..s.summary.attempted
      /\ s.gates = Gates(s.summary, options)
  <2>1. Len(s.attempts) \in Nat \ {0} /\ s.summary.attempted = Len(s.attempts)
    BY <1>1, <1>2, StageFacts
  <2> QED BY <1>1, <1>2, <2>1, StageFacts
<1>4. \A n \in Nat : \A m \in 0..n : m \in Nat
  OBVIOUS
<1> QED BY <1>3, <1>4 DEF s

\* No success gains nothing.
LEMMA NoGain ==
  ASSUME NEW succeeded \in Nat, NEW before \in Nat, NEW after \in Nat,
         NEW from \in Nat, NEW added \in Nat
  PROVE  100 * (0 * before - succeeded * after) * from <= 5 * added * succeeded * after
<1> DEFINE x == succeeded * after
           gain == 0 * before - x
<1>1. x \in Nat /\ gain = 0 - x
  BY 0 * before = 0
<1>2. 5 * added * succeeded * after \in Nat
  <2>1. 5 * added * succeeded \in Nat
    OBVIOUS
  <2> QED BY <2>1
<1> DEFINE v == 100 * gain * from
           w == 5 * added * succeeded * after
<1>3. v \in Int /\ v <= 0
  <2> DEFINE y == x * from
  <2>1. y \in Nat
    <3> HIDE DEF x
    <3> QED BY <1>1
  <2>2. v = 0 - 100 * y
    <3> HIDE DEF gain, x
    <3> QED BY <1>1
  <2> HIDE DEF y, v
  <2> QED BY <2>1, <2>2
<1>4. v <= w
  <2> HIDE DEF v, w
  <2>1. w \in Nat
    BY <1>2 DEF w
  <2> QED BY <1>3, <2>1
<1> QED BY <1>4

\* A last stage without any success is a signal of saturation, unless an earlier
\* stage already was one.
LEMMA NoSuccessIsSignal ==
  ASSUME SaturationAssumption, IInv, Valid(options), Len(stages) >= 2,
         stages[Len(stages)].summary.succeeded = 0
  PROVE  LET assessment == Assess(stages, options)
         IN  /\ assessment.status = "signalObserved"
             /\ assessment.first <= stages[Len(stages)].concurrency
<1>1. PICK n \in Nat : n = Len(stages) /\ n >= 2
  BY LadderFacts
<1> DEFINE later == stages[n]
           earlier == stages[n - 1]
           l == later.summary
           e == earlier.summary
           signal(i) == Signal(stages[i - 1], stages[i], options)
           signals == {i \in 2..Len(stages) : signal(i) \in {"errors", "latency"}}
<1>2. n \in 1..Len(stages) /\ n - 1 \in 1..Len(stages) /\ n - 1 < n /\ n \in 2..Len(stages)
  BY <1>1
<1>4. l.attempted \in Nat \ {0} /\ l.succeeded = 0 /\ l.duration \in Nat
  <2>1. l.attempted \in Nat \ {0} /\ l.duration \in Nat
    BY <1>2, StageNumbers
  <2> QED BY <2>1, <1>1
<1>5. e.succeeded \in Nat /\ e.duration \in Nat
  BY <1>2, StageNumbers
<1>6. /\ later.concurrency \in Nat /\ earlier.concurrency \in Nat
      /\ earlier.concurrency < later.concurrency
  BY <1>2, LadderFacts
<1>7. Plateau(earlier, later)
  <2> DEFINE added == later.concurrency - earlier.concurrency
  <2>1. added \in Nat
    <3> HIDE DEF earlier, later
    <3> QED BY <1>6
  <2>2. 100 * (0 * e.duration - e.succeeded * l.duration) * earlier.concurrency
          <= 5 * added * e.succeeded * l.duration
    <3> HIDE DEF added, earlier, l, e
    <3> QED BY <1>4, <1>5, <1>6, <2>1, NoGain
  <2> QED BY <1>4, <2>2 DEF Plateau
<1>8. ErrorExcess(later, options)
  <2> DEFINE k == l.attempted
             percent == options.maxError
  <2>1. percent \in Nat /\ percent < 100
    <3>1. TypeOK
      BY DEF IInv
    <3> QED BY <3>1, OptionFacts DEF Valid, ValidThresholds
  <2>2. k - l.succeeded = k /\ k \in Nat \ {0} /\ 0 \in 0..k /\ 100 * (k - 0) >= 100 * k
    <3>1. k \in Nat \ {0} /\ l.succeeded = 0
      BY <1>4
    <3> HIDE DEF k, l
    <3> QED BY <3>1
  <2>3. 100 * (k - 0) > percent * k
    <3> HIDE DEF k, percent
    <3> QED BY <2>1, <2>2, 100 \in Nat, GuardAboveGate
  <2>4. ErrorAbove(k - l.succeeded, k, percent)
    <3>1. k - 0 = k
      <4> HIDE DEF k
      <4> QED BY <2>2
    <3> HIDE DEF k, percent, l
    <3> QED BY <2>2, <2>3, <3>1 DEF ErrorAbove
  <2> QED BY <2>4 DEF ErrorExcess
<1>9. signal(n) = "errors"
  BY <1>7, <1>8 DEF Signal
<1>10. n \in signals
  BY <1>2, <1>9
<1>11. /\ Assess(stages, options).status = IF signals # {} THEN "signalObserved"
            ELSE IF 2..Len(stages) = {} \/ \E i \in 2..Len(stages) : signal(i) = "gap"
            THEN "notEvaluable" ELSE "noSignal"
       /\ Assess(stages, options).first
            = IF signals = {} THEN None ELSE stages[Min(signals)].concurrency
  BY DEF Assess
<1>12. signals \in SUBSET (2..n) /\ signals \in SUBSET Nat
  BY <1>1
<1> HIDE DEF signals
<1>13. Min(signals) \in signals
  BY <1>10, <1>12, SmallestOf
<1>14. stages[Min(signals)].concurrency <= later.concurrency
  <2>1. Min(signals) \in 1..Len(stages) /\ (Min(signals) = n \/ Min(signals) < n)
    <3>1. Min(signals) \in 2..n
      BY <1>12, <1>13
    <3>2. \A i \in 2..n : i \in 1..n /\ (i = n \/ i < n)
      BY <1>1
    <3> QED BY <1>1, <3>1, <3>2
  <2>2. CASE Min(signals) = n
    BY <2>2, <1>6
  <2>3. CASE Min(signals) < n
    <3>1. stages[Min(signals)].concurrency < later.concurrency
      BY <2>1, <2>3, <1>2, LadderFacts
    <3>2. stages[Min(signals)].concurrency \in Nat
      BY <2>1, LadderFacts
    <3>3. later.concurrency \in Nat
      BY <1>6
    <3> DEFINE x == stages[Min(signals)].concurrency
               y == later.concurrency
    <3>4. x \in Nat /\ y \in Nat /\ x < y
      BY <3>1, <3>2, <3>3
    <3>5. x <= y
      <4> HIDE DEF x, y
      <4> QED BY <3>4
    <3> QED BY <3>5
  <2> QED BY <2>1, <2>2, <2>3
<1> QED BY <1>1, <1>10, <1>11, <1>14

\* What a report says of the plan is borne out by its stages.
LEMMA VerdictFacts ==
  ASSUME SaturationAssumption, IInv
  PROVE  VerdictEarned
<1> SUFFICES ASSUME report # None
             PROVE  VerdictEarned
  BY DEF VerdictEarned
<1> DEFINE n == Len(stages)
           last == stages[n].concurrency
<1>1. pc = "saved" /\ report = Written /\ Valid(options)
  BY DEF IInv, ReportInv, OrderInv
<1>2. /\ report.abort = abort /\ report.stages = stages
      /\ report.status = IF abort = None THEN "complete" ELSE "aborted"
      /\ report.assessment = Assess(stages, options)
      /\ report.verification = Verify(options.verify, stages)
  BY <1>1 DEF Written
<1>3. None \notin Nat /\ None \notin Reasons /\ MinimumSamples \in Nat
      /\ options.verify \in Nat \cup {None}
  BY DEF SaturationAssumption, OptionsAssumption, Reasons, IInv, TypeOK
<1>4. n \in Nat /\ DOMAIN stages = 1..n /\ n <= Len(options.stages)
  BY DEF IInv, TypeOK, PhaseInv
<1>5. ASSUME abort # None, abort[1] = "stage"
      PROVE  n \in 1..n /\ abort = StageReason(n)
  <2>1. CASE Len(warmups) = n + 1 /\ abort = WarmupReason(Len(warmups))
    <3> DEFINE w == warmups[Len(warmups)]
    <3>1. Len(warmups) \in 1..Len(options.stages) /\ Len(warmups) \in DOMAIN warmups
          /\ TypeOK
      <4>1. Len(warmups) \in Nat /\ DOMAIN warmups = 1..Len(warmups) /\ TypeOK
            /\ Len(warmups) <= Len(options.stages)
        BY DEF IInv, TypeOK, PhaseInv
      <4>2. Len(options.stages) \in Nat
        BY <4>1, OptionFacts
      <4> QED BY <2>1, <4>1, <4>2, <1>4
    <3>2. IsWarmup(w, Len(warmups))
      BY <3>1 DEF IInv, PhaseInv
    <3>3. w.attempted \in Nat /\ w.succeeded \in 0..w.attempted /\ options.abortError \in Nat
      <4>1. options.stages[Len(warmups)] \in Nat /\ options.warmup \in Nat
            /\ options.abortError \in Nat
        BY <3>1, OptionFacts
      <4>2. w.attempted = options.stages[Len(warmups)] * options.warmup
            /\ w.succeeded \in 0..w.attempted
        BY <3>2 DEF IsWarmup
      <4> HIDE DEF w
      <4>3. w.attempted \in Nat
        BY <4>1, <4>2
      <4> QED BY <4>1, <4>2, <4>3
    <3>4. "warmup" \in {"warmup", "stage"}
      OBVIOUS
    <3>5. abort[1] = "warmup"
      <4> DEFINE m == w.succeeded
                 k == w.attempted
      <4>1. abort = AbortReason("warmup", m, k, options.abortError)
        BY <2>1 DEF WarmupReason
      <4> HIDE DEF m, k
      <4>2. k \in Nat /\ m \in 0..k
        BY <3>3 DEF m, k
      <4> QED BY <4>1, <4>2, <3>3, <3>4, <1>5, ReasonFacts
    <3> QED BY <3>5, <1>5
  <2>2. CASE n > 0 /\ abort = StageReason(n)
    BY <2>2, <1>4
  <2> QED BY <2>1, <2>2, <1>1 DEF IInv, OrderInv
<1>6. ASSUME abort # None, abort[1] = "stage"
      PROVE  /\ report.assessment.highest # last
             /\ options.verify = last => report.verification = "fail"
  <2>1. n \in 1..n /\ "fail" \in Statuses(stages[n])
    BY <1>1, <1>5, <1>6, AbortedStageFails
  <2>2. last \in Nat
    BY <1>1, <2>1, LadderFacts
  <2>3. \A i \in 1..n : stages[i].concurrency = last => i = n
    <3> SUFFICES ASSUME NEW i \in 1..n, i # n
                 PROVE  stages[i].concurrency # last
      OBVIOUS
    <3>1. i < n
      <4> HIDE DEF n
      <4> QED BY <1>4
    <3>2. stages[i].concurrency < last /\ stages[i].concurrency \in Nat
      BY <1>1, <2>1, <3>1, LadderFacts
    <3> QED BY <2>2, <3>2
  <2>4. ~Passes(stages[n])
    BY <2>1 DEF Passes
  <2>5. report.assessment.highest # last
    <3> SUFFICES ASSUME Assess(stages, options).highest = last
                 PROVE  FALSE
      BY <1>2
    <3>1. Assess(stages, options).highest # None
      BY <1>3, <2>2
    <3>2. PICK i \in 1..n : Passes(stages[i]) /\ stages[i].concurrency = last
      BY <1>1, <3>1, HighestFacts
    <3> QED BY <3>2, <2>3, <2>4
  <2>6. ASSUME options.verify = last
        PROVE  report.verification = "fail"
    <3> DEFINE found == CHOOSE i \in DOMAIN stages : stages[i].concurrency = options.verify
    <3>1. options.verify # None
      BY <1>3, <2>2, <2>6
    <3>2. found = n
      <4>1. found \in 1..n /\ stages[found].concurrency = last
        BY <1>4, <2>1, <2>6
      <4> HIDE DEF found
      <4> QED BY <4>1, <2>3
    <3>3. ~ \A i \in DOMAIN stages : stages[i].concurrency # options.verify
      BY <1>4, <2>1, <2>6
    <3>4. Verify(options.verify, stages)
            = IF "fail" \in Statuses(stages[found]) THEN "fail"
              ELSE IF "notEvaluable" \in Statuses(stages[found]) THEN "notEvaluable" ELSE "pass"
      BY <3>1, <3>3 DEF Verify
    <3> HIDE DEF found
    <3> QED BY <3>2, <3>4, <2>1, <1>2
  <2> QED BY <2>5, <2>6
<1>7. ASSUME abort = <<"stage", "noSuccess">>, n >= 2
      PROVE  /\ report.assessment.status = "signalObserved"
             /\ report.assessment.first <= last
  <2>1. abort # None /\ abort[1] = "stage"
    <3>1. <<"stage", "noSuccess">> \in Reasons
      BY DEF Reasons
    <3> QED BY <3>1, <1>3, <1>7
  <2>2. n \in 1..n /\ abort = StageReason(n)
    BY <2>1, <1>5
  <2>3. IsStage(stages[n], n) /\ n \in 1..Len(options.stages) /\ TypeOK
    BY <1>1, <2>2, LadderFacts DEF IInv
  <2> DEFINE k == stages[n].summary.attempted
             m == stages[n].summary.succeeded
  <2>4. k \in Nat /\ m \in 0..k /\ options.abortError \in Nat /\ "stage" \in {"warmup", "stage"}
    <3>0. /\ stages[n].summary.attempted = Len(stages[n].attempts)
          /\ Len(stages[n].attempts) \in Nat \ {0}
          /\ stages[n].summary.succeeded \in 0..stages[n].summary.attempted
      BY Zenon, <1>1, <2>3, StageFacts
    <3>1. k \in Nat \ {0} /\ m \in 0..k
      BY Zenon, <3>0
    <3> QED BY <3>1, <2>3, OptionFacts
  <2>5. AbortReason("stage", m, k, options.abortError) = <<"stage", "noSuccess">>
    BY <2>2, <1>7 DEF StageReason
  <2>6. m = 0
    <3>1. None # <<"stage", "noSuccess">> /\ <<"stage", "errorRate">> # <<"stage", "noSuccess">>
      BY <1>3 DEF Reasons
    <3> HIDE DEF m, k
    <3> QED BY <2>5, <3>1 DEF AbortReason
  <2>7. stages[Len(stages)].summary.succeeded = 0 /\ Len(stages) >= 2
    BY <2>6, <1>7
  <2> QED BY <1>1, <1>2, <2>7, NoSuccessIsSignal
<1>8. ASSUME options.verify # None, ExitCode(report) = 0
      PROVE  /\ n = Len(options.stages)
             /\ report.assessment.highest # None
             /\ report.assessment.highest >= options.verify
             /\ \A i \in 1..n :
                  stages[i].concurrency = options.verify =>
                    /\ options.maxP95 # None => stages[i].summary.succeeded >= MinimumSamples
                    /\ options.minGoodput # None => stages[i].summary.usageComplete
  <2>1. abort = None /\ report.verification \notin {"fail", "notEvaluable"}
    BY <1>2, <1>8 DEF ExitCode
  <2>2. n = Len(options.stages)
    BY <1>1, <2>1 DEF IInv, OrderInv
  <2> DEFINE found == CHOOSE i \in DOMAIN stages : stages[i].concurrency = options.verify
  <2>3. ~ \A i \in DOMAIN stages : stages[i].concurrency # options.verify
    BY <1>2, <1>8, <2>1 DEF Verify
  <2>4. found \in 1..n /\ stages[found].concurrency = options.verify
    BY <1>4, <2>3
  <2>5. report.verification
          = IF "fail" \in Statuses(stages[found]) THEN "fail"
            ELSE IF "notEvaluable" \in Statuses(stages[found]) THEN "notEvaluable" ELSE "pass"
    BY <1>2, <1>8, <2>3 DEF Verify
  <2> HIDE DEF found
  <2>6. "fail" \notin Statuses(stages[found]) /\ "notEvaluable" \notin Statuses(stages[found])
    BY <2>1, <2>5
  <2> DEFINE s == stages[found].summary
  <2>7. IsStage(stages[found], found) /\ found \in 1..Len(options.stages) /\ TypeOK
    BY <1>1, <2>4, LadderFacts DEF IInv
  <2>8. stages[found].gates = Gates(s, options) /\ s.succeeded \in Nat
    <3>0. /\ stages[found].summary.attempted = Len(stages[found].attempts)
          /\ Len(stages[found].attempts) \in Nat \ {0}
          /\ stages[found].summary.succeeded \in 0..stages[found].summary.attempted
          /\ stages[found].gates = Gates(stages[found].summary, options)
      BY Zenon, <1>1, <2>7, StageFacts
    <3>1. s.succeeded \in 0..s.attempted /\ s.attempted \in Nat
          /\ stages[found].gates = Gates(s, options)
      BY <3>0
    <3> HIDE DEF s
    <3> QED BY <3>1 DEF s
  <2>9. /\ stages[found].gates.successful \in Statuses(stages[found])
        /\ stages[found].gates.p95 \in Statuses(stages[found])
        /\ stages[found].gates.goodput \in Statuses(stages[found])
        /\ Statuses(stages[found]) \subseteq {"pass", "fail", "notEvaluable"}
    BY <2>8, GateFacts
  <2>10. Passes(stages[found])
    BY <2>6, <2>9 DEF Passes
  <2>11. report.assessment.highest # None /\ options.verify <= report.assessment.highest
    BY <1>1, <1>2, <2>4, <2>10, HighestFacts
  <2>12. options.verify \in Nat
    BY <1>3, <1>8
  <2>13. report.assessment.highest \in Nat
    <3>1. PICK i \in 1..n : report.assessment.highest = stages[i].concurrency
      BY <1>1, <1>2, <2>11, HighestFacts
    <3> QED BY <3>1, <1>1, LadderFacts
  <2>14. options.maxP95 # None => s.succeeded >= MinimumSamples
    <3> SUFFICES ASSUME options.maxP95 # None, ~(s.succeeded >= MinimumSamples)
                 PROVE  FALSE
      OBVIOUS
    <3>1. s.succeeded < MinimumSamples
      BY <1>3, <2>8
    <3>2. stages[found].gates.p95 = "notEvaluable"
      BY <2>8, <3>1 DEF Gates
    <3> QED BY <3>2, <2>6, <2>9
  <2>15. options.minGoodput # None => s.usageComplete
    <3> SUFFICES ASSUME options.minGoodput # None, ~s.usageComplete
                 PROVE  FALSE
      OBVIOUS
    <3>1. stages[found].gates.goodput = "notEvaluable"
      BY <2>8 DEF Gates
    <3> QED BY <3>1, <2>6, <2>9
  <2>16. \A i \in 1..n : stages[i].concurrency = options.verify => i = found
    <3> SUFFICES ASSUME NEW i \in 1..n, i # found
                 PROVE  stages[i].concurrency # stages[found].concurrency
      BY <2>4
    <3>1. i < found \/ found < i
      BY <1>4, <2>4
    <3>2. stages[i].concurrency \in Nat /\ stages[found].concurrency \in Nat
          /\ (\/ stages[i].concurrency < stages[found].concurrency
              \/ stages[found].concurrency < stages[i].concurrency)
      BY <1>1, <2>4, <3>1, LadderFacts
    <3> QED BY <3>2
  <2> QED BY <2>2, <2>11, <2>12, <2>13, <2>14, <2>15, <2>16
<1> QED BY <1>2, <1>4, <1>6, <1>7, <1>8 DEF VerdictEarned

\* The verdict of every run is earned.
THEOREM VerdictIsEarned ==
  ASSUME SaturationAssumption
  PROVE  Spec => []VerdictEarned
<1>1. IInv => VerdictEarned
  BY VerdictFacts
<1> QED BY <1>1, SaturationInvariant, PTL

-----------------------------------------------------------------------------
(* The saved report.                                                       *)

\* What is read back is the report or a damaged one.
SavedInv ==
  IF pc = "saved"
  THEN \E r \in {report} \cup Damages(report) : saved = ReadBack(r)
  ELSE saved = None

\* Only the report is ever damaged.
LEMMA SavedStep ==
  ASSUME IInv, SavedInv, [Next]_vars
  PROVE  SavedInv'
<1>1. CASE Refuse \/ Admit \/ BatchFails
  BY <1>1 DEF Refuse, Admit, BatchFails, SavedInv
<1>2. CASE Report
  BY <1>2 DEF Report, SavedInv
<1>3. CASE Damage
  <2>1. UNCHANGED <<pc, report>> /\ pc = "saved"
        /\ \E r \in Damages(report) : saved' = ReadBack(r)
    BY <1>3 DEF Damage
  <2>2. \A r : ReadBack(r)' = ReadBack(r) /\ Damages(report)' = Damages(report)
    BY <2>1 DEF ReadBack
  <2> QED BY <2>1, <2>2 DEF SavedInv
<1>4. CASE Ended \/ UNCHANGED vars
  <2>1. UNCHANGED <<pc, report, saved>>
    BY <1>4 DEF Ended, vars
  <2> QED BY <2>1 DEF SavedInv
<1>5. ASSUME NEW succeeded \in 0..(Concurrency * options.warmup),
             NEW duration \in 1..(options.warmup * Timeout), Warmup(succeeded, duration)
      PROVE  SavedInv'
  BY <1>5 DEF Warmup, AfterWarmup, SavedInv
<1>6. ASSUME NEW attempts \in Attempts(Concurrency * options.requests), Measure(attempts)
      PROVE  SavedInv'
  BY <1>6 DEF Measure, SavedInv
<1> QED BY <1>1, <1>2, <1>3, <1>4, <1>5, <1>6 DEF Next

\* How the run ended.
LEMMA RunEnded ==
  ASSUME SaturationAssumption, IInv, pc = "saved"
  PROVE  /\ Valid(options) /\ TypeOK /\ report = Written
         /\ Len(warmups) \in Nat /\ DOMAIN warmups = 1..Len(warmups)
         /\ Len(stages) \in Nat /\ DOMAIN stages = 1..Len(stages)
         /\ Len(options.stages) \in Nat
         /\ Len(warmups) <= Len(options.stages) /\ Len(stages) <= Len(options.stages)
         /\ \A i \in 1..Len(warmups) : IsWarmup(warmups[i], i)
         /\ \/ /\ Len(warmups) = Len(stages) + 1
               /\ abort = WarmupReason(Len(warmups)) /\ abort # None
               /\ Clean(Len(stages), Len(stages))
            \/ /\ Len(warmups) = Len(stages) /\ Len(stages) > 0
               /\ abort = StageReason(Len(stages))
               /\ Clean(Len(warmups), Len(stages) - 1)
               /\ abort = None => Len(stages) = Len(options.stages)
<1>1. TypeOK /\ PhaseInv /\ OrderInv /\ ReportInv
  BY DEF IInv
<1>2. Valid(options) /\ report = Written
  BY <1>1 DEF OrderInv, ReportInv
<1>3. /\ Len(warmups) \in Nat /\ DOMAIN warmups = 1..Len(warmups)
      /\ Len(stages) \in Nat /\ DOMAIN stages = 1..Len(stages)
  BY <1>1 DEF TypeOK
<1>4. Len(options.stages) \in Nat
  BY <1>1, OptionFacts
<1>5. /\ Len(warmups) <= Len(options.stages) /\ Len(stages) <= Len(options.stages)
      /\ \A i \in 1..Len(warmups) : IsWarmup(warmups[i], i)
  BY <1>1, <1>3 DEF PhaseInv
<1> QED BY <1>1, <1>2, <1>3, <1>4, <1>5 DEF OrderInv

\* The phases determine how the run ended.
LEMMA EndsFollow ==
  ASSUME SaturationAssumption, IInv, pc = "saved",
         NEW r, r.warmups = warmups, r.stages = stages
  PROVE  ReachedPrefix(r) <=> /\ r.abort = abort
                             /\ r.status = IF abort = None THEN "complete" ELSE "aborted"
<1> DEFINE W == Len(warmups)
           n == Len(stages)
           N == Len(options.stages)
           badWarmups == {j \in DOMAIN r.warmups : WarmupReason(j) # None}
           badStages == {j \in DOMAIN r.stages : StageReason(j) # None}
           ends(w, s, reason) ==
             /\ Len(r.warmups) = w /\ Len(r.stages) = s /\ r.abort = reason
             /\ r.status = IF reason = None THEN "complete" ELSE "aborted"
<1>1. W \in Nat /\ n \in Nat /\ N \in Nat /\ W <= N /\ n <= N
      /\ DOMAIN r.warmups = 1..W /\ DOMAIN r.stages = 1..n
  BY RunEnded
<1>2. \A i \in DOMAIN r.warmups : r.warmups[i].aborted <=> WarmupReason(i) # None
  <2>1. \A i \in 1..W : IsWarmup(warmups[i], i)
    BY RunEnded
  <2> QED BY <1>1, <2>1 DEF IsWarmup, WarmupReason
<1>3. ReachedPrefix(r)
        <=> /\ W \in {n, n + 1} /\ W \in 1..N
            /\ IF badWarmups # {} THEN ends(Min(badWarmups), Min(badWarmups) - 1,
                                           WarmupReason(Min(badWarmups)))
               ELSE IF badStages # {} THEN ends(Min(badStages), Min(badStages),
                                                StageReason(Min(badStages)))
               ELSE ends(N, N, None)
  <2> DEFINE wr(j) == AbortReason("warmup", r.warmups[j].succeeded, r.warmups[j].attempted,
                                  options.abortError)
             sr(j) == AbortReason("stage", r.stages[j].summary.succeeded,
                                  r.stages[j].summary.attempted, options.abortError)
             bw == {j \in DOMAIN r.warmups : wr(j) # None}
             bs == {j \in DOMAIN r.stages : sr(j) # None}
  <2>1. /\ \A j : wr(j) = WarmupReason(j) /\ sr(j) = StageReason(j)
        /\ Len(r.warmups) = W /\ Len(r.stages) = n
    BY DEF WarmupReason, StageReason
  <2>2. ReachedPrefix(r)
          <=> /\ W \in {n, n + 1} /\ W \in 1..N
              /\ \A i \in DOMAIN r.warmups : r.warmups[i].aborted <=> wr(i) # None
              /\ IF bw # {} THEN ends(Min(bw), Min(bw) - 1, wr(Min(bw)))
                 ELSE IF bs # {} THEN ends(Min(bs), Min(bs), sr(Min(bs)))
                 ELSE ends(N, N, None)
    <3>1. /\ bw # {} <=> \E i \in DOMAIN r.warmups : wr(i) # None
          /\ bs # {} <=> \E i \in DOMAIN r.stages : sr(i) # None
      OBVIOUS
    <3> QED BY <2>1, <3>1 DEF ReachedPrefix
  <2> HIDE DEF wr, sr
  <2>3. bw = badWarmups /\ bs = badStages
    BY <2>1
  <2>4. \A i \in DOMAIN r.warmups : r.warmups[i].aborted <=> wr(i) # None
    BY <1>2, <2>1
  <2> HIDE DEF ends, bw, bs, badWarmups, badStages, W, n, N
  <2> QED BY <2>1, <2>2, <2>3, <2>4
<1>w. W = Len(warmups) /\ n = Len(stages)
  OBVIOUS
<1> HIDE DEF W, n, N
<1>4. CASE W = n + 1 /\ abort = WarmupReason(W) /\ abort # None /\ Clean(n, n)
  <2>1. badWarmups = {W}
    <3>1. \A i \in 1..W : i = W \/ i \in 1..n
      BY <1>1, <1>4
    <3>2. W \in 1..W
      BY <1>1, <1>4
    <3> QED BY <3>1, <3>2, <1>1, <1>4 DEF Clean
  <2>2. Min({W}) = W
    <3>1. {W} \in SUBSET Nat /\ {W} # {}
      BY <1>1
    <3> QED BY <3>1, SmallestOf
  <2>3. W - 1 = n /\ W \in {n, n + 1} /\ W \in 1..N
    BY <1>1, <1>4
  <2> HIDE DEF badWarmups, badStages
  <2> QED BY <1>3, <1>4, <2>1, <2>2, <2>3, <1>w
<1>5. CASE /\ W = n /\ n > 0 /\ abort = StageReason(n) /\ Clean(W, n - 1)
           /\ abort = None => n = N
  <2>1. badWarmups = {} /\ W \in {n, n + 1} /\ W \in 1..N
    BY <1>1, <1>5 DEF Clean
  <2>2. CASE abort = None
    <3>1. badStages = {}
      <4>1. \A i \in 1..n : i = n \/ i \in 1..(n - 1)
        BY <1>1, <1>5
      <4> QED BY <4>1, <1>1, <1>5, <2>2 DEF Clean
    <3> HIDE DEF badWarmups, badStages
    <3> QED BY <1>3, <1>5, <2>1, <2>2, <3>1, <1>w
  <2>3. CASE abort # None
    <3>1. badStages = {n}
      <4>1. \A i \in 1..n : i = n \/ i \in 1..(n - 1)
        BY <1>1, <1>5
      <4>2. n \in 1..n
        BY <1>1, <1>5
      <4> QED BY <4>1, <4>2, <1>1, <1>5, <2>3 DEF Clean
    <3>2. Min({n}) = n
      <4>1. {n} \in SUBSET Nat /\ {n} # {}
        BY <1>1
      <4> QED BY <4>1, SmallestOf
    <3> HIDE DEF badWarmups, badStages
    <3> QED BY <1>3, <1>5, <2>1, <2>3, <3>1, <3>2, <1>w
  <2> QED BY <2>2, <2>3
<1> QED BY <1>4, <1>5, RunEnded DEF W, n, N

\* What is left without the last element.
LEMMA FrontFacts ==
  ASSUME NEW R, NEW s \in Seq(R), NEW n \in Nat, n > 0, Len(s) = n
  PROVE  /\ Len(Front(s)) = n - 1 /\ DOMAIN Front(s) = 1..(n - 1)
         /\ \A i \in 1..(n - 1) : Front(s)[i] = s[i]
<1>1. Front(s) = SubSeq(s, 1, n - 1)
  BY DEF Front
<1>2. n - 1 \in 0..n /\ n - 1 \in Nat
  OBVIOUS
<1> DEFINE m == n - 1
<1>3. m \in Nat /\ m \in 0..n /\ m - 1 + 1 = m
  BY <1>2
<1> HIDE DEF m
<1>4. Len(SubSeq(s, 1, m)) = m /\ \A i \in 1..m : SubSeq(s, 1, m)[i] = s[i]
  BY <1>3
<1>5. SubSeq(s, 1, m) \in Seq(R)
  <2>1. \A i \in 1..m : s[i] \in R
    <3>1. \A i \in 1..m : i \in 1..Len(s)
      BY <1>3
    <3> QED BY <3>1, ElementOfSeq
  <2> QED BY <1>3, <2>1
<1>6. DOMAIN SubSeq(s, 1, m) = 1..m
  BY <1>4, <1>5
<1> QED BY <1>1, <1>4, <1>6 DEF m

\* A report that lost its end does not reach where the plan ends.
LEMMA LostEnd ==
  ASSUME SaturationAssumption, IInv, pc = "saved", Len(stages) > 0,
         NEW r, r.stages = Front(stages),
         r.warmups = warmups \/ r.warmups = Front(warmups)
  PROVE  ~ReachedPrefix(r)
<1> DEFINE W == Len(warmups)
           n == Len(stages)
           N == Len(options.stages)
<1>1. W \in Nat /\ n \in Nat /\ N \in Nat /\ n <= N /\ n > 0 /\ W \in {n, n + 1}
  BY RunEnded
<1>d. DOMAIN warmups = 1..W /\ DOMAIN stages = 1..n
  BY RunEnded
<1>w. W = Len(warmups) /\ n = Len(stages) /\ N = Len(options.stages)
  OBVIOUS
<1> HIDE DEF W, n, N
<1>2. Len(r.stages) = n - 1 /\ DOMAIN r.stages = 1..(n - 1)
      /\ \A i \in 1..(n - 1) : r.stages[i] = stages[i]
  <2> DEFINE S == Range(stages)
  <2>1. stages \in Seq(S)
    BY DEF IInv, TypeOK
  <2> HIDE DEF S
  <2>2. Len(Front(stages)) = n - 1 /\ DOMAIN Front(stages) = 1..(n - 1)
        /\ \A i \in 1..(n - 1) : Front(stages)[i] = stages[i]
    <3>1. n \in Nat /\ n > 0 /\ Len(stages) = n
      BY <1>1, <1>w
    <3> QED BY ONLY <2>1, <3>1, FrontFacts
  <2> QED BY <2>2
<1>3. Len(Front(warmups)) = W - 1 /\ DOMAIN Front(warmups) = 1..(W - 1)
      /\ \A i \in 1..(W - 1) : Front(warmups)[i] = warmups[i]
  <2> DEFINE S == Range(warmups)
  <2>1. warmups \in Seq(S)
    BY DEF IInv, TypeOK
  <2> HIDE DEF S
  <2>2. W \in Nat /\ W > 0 /\ Len(warmups) = W
    BY <1>1, <1>w
  <2> QED BY ONLY <2>1, <2>2, FrontFacts
<1> SUFFICES ASSUME ReachedPrefix(r)
             PROVE  FALSE
  OBVIOUS
<1>4. Len(r.warmups) \in {n - 1, n}
  <2>1. Len(r.warmups) \in {Len(r.stages), Len(r.stages) + 1}
    BY DEF ReachedPrefix
  <2> QED BY <1>1, <1>2, <2>1
<1>5. /\ \A i \in 1..(n - 1) : StageReason(i) = None
      /\ \A i \in 1..n : WarmupReason(i) = None
  <2>0. \A i \in 1..(n - 1) : i \in 1..n
    BY <1>1
  <2>1. CASE Clean(n, n)
    BY <2>0, <2>1 DEF Clean
  <2>2. CASE Clean(n, n - 1)
    BY <2>2 DEF Clean
  <2> QED BY <2>1, <2>2, <1>w, RunEnded
<1>6. \A i \in DOMAIN r.warmups : r.warmups[i] = warmups[i] /\ i \in 1..n
  <2>1. CASE r.warmups = warmups
    <3>1. W \in {n - 1, n}
      BY <1>4, <1>w, <2>1
    <3>2. W = n
      BY <1>1, <3>1
    <3> QED BY <3>2, <1>d, <2>1
  <2>2. CASE r.warmups = Front(warmups)
    <3>1. \A i \in 1..(W - 1) : i \in 1..n
      BY <1>1
    <3> QED BY <3>1, <1>3, <2>2
  <2> QED BY <2>1, <2>2
<1>7. \A i \in DOMAIN r.warmups :
        AbortReason("warmup", r.warmups[i].succeeded, r.warmups[i].attempted,
                    options.abortError) = None
  BY <1>5, <1>6 DEF WarmupReason
<1>8. \A i \in DOMAIN r.stages :
        AbortReason("stage", r.stages[i].summary.succeeded, r.stages[i].summary.attempted,
                    options.abortError) = None
  BY <1>2, <1>5 DEF StageReason
<1>9. Len(r.stages) = N
  BY <1>7, <1>8, <1>w DEF ReachedPrefix
<1> QED BY <1>1, <1>2, <1>9

\* A measured stage is canonical unless one of its responses broke off.
LEMMA CanonicalStage ==
  ASSUME SaturationAssumption, TypeOK, Valid(options),
         NEW i \in 1..Len(options.stages), NEW s, IsStage(s, i)
  PROVE  StageCanonical(s, i) <=> \A k \in DOMAIN s.attempts : ~s.attempts[k].cut
<1>1. /\ s.concurrency = options.stages[i]
      /\ Len(s.attempts) = options.stages[i] * options.requests
      /\ s.summary.duration \in Nat
  BY StageFacts
<1>2. s = StageOf(options.stages[i], s.attempts, LongestWorker(s.attempts), options)
  BY DEF IsStage
<1>3. s.summary.duration = LongestWorker(s.attempts)
  BY <1>2 DEF StageOf, Summary
<1>4. LowerBound(s.attempts) <= s.summary.duration
  BY <1>1, <1>3 DEF LowerBound
<1> QED BY <1>1, <1>2, <1>3, <1>4 DEF StageCanonical

\* The summary of a canonical stage is that of its attempts.
LEMMA CanonicalSummary ==
  ASSUME NEW s, NEW i, StageCanonical(s, i)
  PROVE  /\ s.summary.attempted = Len(s.attempts)
         /\ s.summary.succeeded = Succeeded(s.attempts)
         /\ Len(s.attempts) = options.stages[i] * options.requests
BY DEF StageCanonical, StageOf, Summary

\* A failed attempt made a success, or the reverse, changes their number.
LEMMA FlipDiffers ==
  ASSUME SaturationAssumption, NEW n \in Nat, NEW attempts \in [1..n -> Outcomes],
         NEW i \in 1..n
  PROVE  Succeeded([attempts EXCEPT ![i].ok = ~@]) # Succeeded(attempts)
<1> DEFINE other == [attempts EXCEPT ![i].ok = ~@]
           S == {j \in 1..n : attempts[j].ok}
           T == {j \in 1..n : other[j].ok}
<1>1. Succeeded(attempts) = Cardinality(S)
  BY DEF Succeeded
<1>2. Succeeded(other) = Cardinality(T)
  BY DEF Succeeded
<1>3. \A j \in 1..n : attempts[j] \in [ok : BOOLEAN, time : 1..Timeout,
                                       tokens : Nat \cup {None}, cut : BOOLEAN]
  BY DEF SaturationAssumption
<1>4. \A j \in 1..n : j # i => other[j] = attempts[j]
  OBVIOUS
<1>5. other[i].ok <=> ~attempts[i].ok
  BY <1>3
<1>6. IsFiniteSet(S) /\ IsFiniteSet(T)
  BY FS_Interval, FS_Subset, 1 \in Int, n \in Int
<1>7. Cardinality(S) \in Nat /\ Cardinality(T) \in Nat
  BY <1>6, FS_CardinalityType
<1>8. CASE attempts[i].ok
  <2>1. i \in S /\ T = S \ {i}
    BY <1>4, <1>5, <1>8
  <2> HIDE DEF S, T, other
  <2>2. Cardinality(T) = Cardinality(S) - 1
    BY <2>1, <1>6, FS_RemoveElement
  <2> QED BY <2>2, <1>1, <1>2, <1>7 DEF other
<1>9. CASE ~attempts[i].ok
  <2>1. i \in T /\ S = T \ {i}
    BY <1>4, <1>5, <1>9
  <2> HIDE DEF S, T, other
  <2>2. Cardinality(S) = Cardinality(T) - 1
    BY <2>1, <1>6, FS_RemoveElement
  <2> QED BY <2>2, <1>1, <1>2, <1>7 DEF other
<1> QED BY <1>8, <1>9

\* Two stages do not have the same number of attempts.
LEMMA SizesDiffer ==
  ASSUME SaturationAssumption, TypeOK, Valid(options),
         NEW i \in 1..Len(options.stages), NEW j \in 1..Len(options.stages), i # j
  PROVE  options.stages[i] * options.requests # options.stages[j] * options.requests
<1> DEFINE a == options.stages[i]
           b == options.stages[j]
           r == options.requests
<1>1. a \in Nat /\ b \in Nat /\ r \in Nat /\ r > 0
  BY OptionFacts
<1>2. Len(options.stages) \in Nat /\ DOMAIN options.stages = 1..Len(options.stages)
  BY OptionFacts
<1>3. i < j \/ j < i
  BY <1>2
<1>4. a < b \/ b < a
  BY <1>2, <1>3 DEF Valid, ValidSchedule
<1> HIDE DEF a, b, r
<1>5. \A x, y \in Nat : x < y => x * r # y * r
  <2> SUFFICES ASSUME NEW x \in Nat, NEW y \in Nat, x < y
               PROVE  x * r < y * r
    BY <1>1
  <2>1. (x + 1) * r <= y * r /\ x * r \in Nat
    BY <1>1, TimesMonotone
  <2>2. (x + 1) * r = x * r + r
    BY <1>1
  <2> QED BY <1>1, <2>1, <2>2
<1>6. a * r # b * r
  BY <1>1, <1>4, <1>5
<1> QED BY <1>6 DEF a, b, r

\* The report the benchmark wrote is accepted unless a response broke off.
LEMMA WrittenAccepted ==
  ASSUME SaturationAssumption, IInv, pc = "saved"
  PROVE  Accepts(report) <=> ~BrokeOff(report)
<1>1. /\ Valid(options) /\ TypeOK /\ report = Written
      /\ DOMAIN warmups = 1..Len(warmups) /\ DOMAIN stages = 1..Len(stages)
      /\ Len(warmups) <= Len(options.stages) /\ Len(stages) <= Len(options.stages)
      /\ Len(warmups) \in Nat /\ Len(stages) \in Nat /\ Len(options.stages) \in Nat
      /\ \A i \in 1..Len(warmups) : IsWarmup(warmups[i], i)
  BY RunEnded
<1>2. /\ report.warmups = warmups /\ report.stages = stages /\ report.abort = abort
      /\ report.status = IF abort = None THEN "complete" ELSE "aborted"
      /\ report.assessment = Assess(stages, options)
      /\ report.verification = Verify(options.verify, stages)
  BY <1>1 DEF Written
<1>3. ReachedPrefix(report)
  BY <1>2, EndsFollow
<1>4. \A i \in DOMAIN warmups : WarmupCanonical(warmups[i], i)
  <2> SUFFICES ASSUME NEW i \in DOMAIN warmups
               PROVE  WarmupCanonical(warmups[i], i)
    OBVIOUS
  <2> DEFINE w == warmups[i]
  <2>1. IsWarmup(w, i) /\ i \in 1..Len(options.stages)
    BY <1>1
  <2>2. w.concurrency = options.stages[i] /\ w.attempted = options.stages[i] * options.warmup
        /\ w.succeeded \in 0..w.attempted
    BY <2>1 DEF IsWarmup
  <2>3. options.stages[i] * options.warmup \in Nat
    <3>1. options.stages[i] \in Nat /\ options.warmup \in Nat
      BY <1>1, <2>1, OptionFacts
    <3> QED BY <3>1
  <2> HIDE DEF w
  <2>4. w.succeeded <= w.attempted
    BY <2>2, <2>3
  <2>5. w.exact
    BY <2>1 DEF IsWarmup
  <2> QED BY <2>2, <2>4, <2>5 DEF w, WarmupCanonical
<1>5. \A i \in DOMAIN stages :
        StageCanonical(stages[i], i)
          <=> \A k \in DOMAIN stages[i].attempts : ~stages[i].attempts[k].cut
  <2> SUFFICES ASSUME NEW i \in DOMAIN stages
               PROVE  StageCanonical(stages[i], i)
                        <=> \A k \in DOMAIN stages[i].attempts : ~stages[i].attempts[k].cut
    OBVIOUS
  <2>1. IsStage(stages[i], i) /\ i \in 1..Len(options.stages)
    BY <1>1 DEF IInv, PhaseInv
  <2> QED BY <1>1, <2>1, CanonicalStage
<1> QED BY <1>1, <1>2, <1>3, <1>4, <1>5 DEF Accepts, BrokeOff

\* A report with the written phases is accepted only with their end.
LEMMA EndAccepted ==
  ASSUME SaturationAssumption, IInv, pc = "saved",
         NEW r, r.warmups = warmups, r.stages = stages, Accepts(r)
  PROVE  r.abort = report.abort /\ r.status = report.status
<1>1. report.abort = abort
      /\ report.status = IF abort = None THEN "complete" ELSE "aborted"
  BY RunEnded DEF Written
<1>2. ReachedPrefix(r)
  BY DEF Accepts
<1> QED BY <1>1, <1>2, EndsFollow

\* No damaged report is accepted.
LEMMA DamageRefused ==
  ASSUME SaturationAssumption, IInv, pc = "saved", NEW r \in Damages(report)
  PROVE  ~Accepts(r)
<1> DEFINE n == Len(stages)
<1>1. /\ Valid(options) /\ TypeOK /\ report = Written
      /\ n \in Nat /\ DOMAIN stages = 1..n
      /\ n <= Len(options.stages) /\ Len(options.stages) \in Nat
  BY RunEnded
<1>2. PICK status, reason, duration, assessment, verification :
        report = [status |-> status, abort |-> reason, duration |-> duration,
                  warmups |-> warmups, stages |-> stages,
                  assessment |-> assessment, verification |-> verification]
  BY <1>1 DEF Written
<1>3. \A i \in 1..n : i \in 1..Len(options.stages) /\ IsStage(stages[i], i)
  BY <1>1 DEF IInv, PhaseInv
<1>4. r # report
  BY DEF Damages
<1> SUFFICES ASSUME Accepts(r)
             PROVE  FALSE
  OBVIOUS
<1>5. ReachedPrefix(r) /\ \A i \in DOMAIN r.stages : StageCanonical(r.stages[i], i)
  BY DEF Accepts
<1>6. CASE n > 0 /\ r \in {LostStage(report), LostLevel(report)}
  <2>1. r.stages = Front(stages) /\ (r.warmups = warmups \/ r.warmups = Front(warmups))
    BY <1>2, <1>6 DEF LostStage, LostLevel
  <2> QED BY <1>5, <1>6, <2>1, LostEnd
<1>7. ASSUME n > 0, NEW k \in DOMAIN report.stages[n].attempts,
             r = Flipped(report, k)
      PROVE  FALSE
  <2> DEFINE attempts == stages[n].attempts
             other == [attempts EXCEPT ![k].ok = ~@]
             m == options.stages[n] * options.requests
  <2>1. n \in 1..n /\ report.stages = stages /\ IsStage(stages[n], n) /\ n \in 1..Len(options.stages)
    BY <1>1, <1>2, <1>3, <1>7
  <2>2. attempts \in [1..m -> Outcomes] /\ stages[n].summary.succeeded = Succeeded(attempts)
        /\ m \in Nat /\ k \in 1..m
    <3>1. stages[n].attempts \in [1..m -> Outcomes]
      BY <2>1 DEF IsStage, Attempts
    <3>2. /\ stages[n].summary.succeeded = Succeeded(stages[n].attempts)
          /\ Len(stages[n].attempts) = m /\ Len(stages[n].attempts) \in Nat
      BY <1>1, <2>1, StageFacts
    <3> QED BY <1>7, <2>1, <3>1, <3>2
  <2>3. r.stages[n].attempts = other /\ r.stages[n].summary = stages[n].summary
        /\ n \in DOMAIN r.stages
    <3>1. r.stages = [stages EXCEPT ![n].attempts[k].ok = ~@]
      BY <1>2, <1>7 DEF Flipped
    <3>2. n \in DOMAIN stages
      BY <1>1, <2>1
    <3>3. DOMAIN r.stages = DOMAIN stages
          /\ r.stages[n] = [stages[n] EXCEPT !.attempts[k].ok = ~@]
      BY <3>1, <3>2
    <3>4. stages[n] = [concurrency |-> stages[n].concurrency, attempts |-> attempts,
                       summary |-> stages[n].summary, gates |-> stages[n].gates]
      BY <2>1 DEF IsStage, StageOf
    <3> HIDE DEF n
    <3>5. r.stages[n].attempts = other /\ r.stages[n].summary = stages[n].summary
      BY <3>3, <3>4
    <3> QED BY <3>2, <3>3, <3>5
  <2>4. r.stages[n].summary.succeeded = Succeeded(r.stages[n].attempts)
    BY <1>5, <2>3, CanonicalSummary
  <2>5. Succeeded(other) # Succeeded(attempts)
    <3> HIDE DEF attempts, m
    <3> QED BY <2>2, FlipDiffers
  <2> HIDE DEF attempts, other
  <2> QED BY <2>2, <2>3, <2>4, <2>5
<1>8. ASSUME NEW i \in 1..n, NEW j \in 1..n, r = Stale(report, i, j)
      PROVE  FALSE
  <2>1. r.stages = [stages EXCEPT ![i].summary = stages[j].summary]
    BY <1>2, <1>8 DEF Stale
  <2>2. i \in DOMAIN stages /\ j \in DOMAIN stages
    BY <1>1
  <2>3. IsStage(stages[i], i) /\ IsStage(stages[j], j)
        /\ i \in 1..Len(options.stages) /\ j \in 1..Len(options.stages)
    BY <1>3
  <2>4. stages[i] = [concurrency |-> stages[i].concurrency, attempts |-> stages[i].attempts,
                     summary |-> stages[i].summary, gates |-> stages[i].gates]
    BY <2>3 DEF IsStage, StageOf
  <2>5. r.stages[i] = [stages[i] EXCEPT !.summary = stages[j].summary] /\ i \in DOMAIN r.stages
    BY <2>1, <2>2
  <2>6. r.stages[i].summary = stages[j].summary /\ r.stages[i].attempts = stages[i].attempts
    BY <2>4, <2>5
  <2>7. i # j
    <3> SUFFICES ASSUME i = j
                 PROVE  FALSE
      OBVIOUS
    <3>1. r.stages[i] = stages[i]
      BY <2>4, <2>5
    <3>2. r = report
      <4>1. [stages[i] EXCEPT !.summary = stages[i].summary] = stages[i]
        BY <2>4
      <4>2. [stages EXCEPT ![i].summary = stages[i].summary] = stages
        <5>1. stages \in Seq(Range(stages))
          BY <1>1 DEF TypeOK
        <5> QED BY <5>1, <2>2, <4>1
      <4>3. [report EXCEPT !.stages = stages] = report
        BY <1>2
      <4>4. r = [report EXCEPT !.stages = [stages EXCEPT ![i].summary = stages[j].summary]]
        BY <1>2, <1>8 DEF Stale
      <4> QED BY <3>1, <4>2, <4>3, <4>4
    <3> QED BY <1>4, <3>2
  <2>8. stages[j].summary.attempted = options.stages[j] * options.requests
    BY <1>1, <2>3, StageFacts
  <2>9. r.stages[i].summary.attempted = options.stages[i] * options.requests
    BY <1>5, <2>5, CanonicalSummary
  <2> QED BY <1>1, <2>3, <2>6, <2>7, <2>8, <2>9, SizesDiffer
<1>9. ASSUME NEW x, NEW y, r = EndsAs(report, x, y)
      PROVE  FALSE
  <2>1. r.warmups = warmups /\ r.stages = stages /\ r.status = x /\ r.abort = y
    BY <1>2, <1>9 DEF EndsAs
  <2>2. y = report.abort /\ x = report.status
    BY <2>1, EndAccepted
  <2>3. r = report
    BY <1>2, <1>9, <2>2 DEF EndsAs
  <2> QED BY <1>4, <2>3
<1>10. \/ n # 0 /\ r \in {LostStage(report), LostLevel(report)}
       \/ n # 0 /\ \E k \in DOMAIN report.stages[n].attempts : r = Flipped(report, k)
       \/ \E i, j \in 1..n : r = Stale(report, i, j)
       \/ \E x, y : r = EndsAs(report, x, y)
  <2>1. n = Len(report.stages)
    BY <1>2
  <2> HIDE DEF n
  <2> QED BY <2>1 DEF Damages
<1>11. n # 0 => n > 0
  BY <1>1
<1> HIDE DEF n
<1> QED BY <1>6, <1>7, <1>8, <1>9, <1>10, <1>11

\* The fields of the phases and of the report, as they are written.
WarmupShape(w) ==
  \E c, a, s, b : w = [concurrency |-> c, attempted |-> a, succeeded |-> s, exact |-> TRUE,
                       aborted |-> b]
SummaryShape(m) ==
  \E a, s, d, p, u, t : m = [attempted |-> a, succeeded |-> s, duration |-> d, exact |-> TRUE,
                             p95 |-> p, usageComplete |-> u, tokens |-> t]
StageShape(x) ==
  \E c, a, m, g : SummaryShape(m) /\ x = [concurrency |-> c, attempts |-> a, summary |-> m,
                                         gates |-> g]
ReportShape(r) ==
  /\ \E a, b, c, d, e, f, g : r = [status |-> a, abort |-> b, duration |-> c, warmups |-> d,
                                   stages |-> e, assessment |-> f, verification |-> g]
  /\ r.warmups = [i \in DOMAIN r.warmups |-> r.warmups[i]]
  /\ r.stages = [i \in DOMAIN r.stages |-> r.stages[i]]
  /\ \A i \in DOMAIN r.warmups : WarmupShape(r.warmups[i])
  /\ \A i \in DOMAIN r.stages : StageShape(r.stages[i])

\* A report without an ambiguous percentage is read back as it is.
LEMMA ReadIntact ==
  ASSUME NEW r, ReportShape(r), ~Distorted(r)
  PROVE  ReadBack(r) = r
<1>1. \A i \in DOMAIN r.warmups : ReadWarmup(r.warmups[i]) = r.warmups[i]
  BY DEF Distorted, ReadWarmup
<1>2. \A i \in DOMAIN r.stages : ReadStage(r.stages[i]) = r.stages[i]
  BY DEF Distorted, ReadStage
<1>3. [i \in DOMAIN r.warmups |-> ReadWarmup(r.warmups[i])] = r.warmups
  BY <1>1 DEF ReportShape
<1>4. [i \in DOMAIN r.stages |-> ReadStage(r.stages[i])] = r.stages
  BY <1>2 DEF ReportShape
<1>5. [r EXCEPT !.warmups = r.warmups, !.stages = r.stages] = r
  BY DEF ReportShape
<1> QED BY <1>3, <1>4, <1>5 DEF ReadBack

\* Whatever report is accepted was read back as it is.
LEMMA AcceptedIntact ==
  ASSUME NEW r, ReportShape(r), Accepts(ReadBack(r))
  PROVE  ~Distorted(r)
<1> DEFINE x == ReadBack(r)
<1>1. /\ x.warmups = [i \in DOMAIN r.warmups |-> ReadWarmup(r.warmups[i])]
      /\ x.stages = [i \in DOMAIN r.stages |-> ReadStage(r.stages[i])]
  BY DEF ReportShape, ReadBack
<1>2. /\ \A i \in DOMAIN x.warmups : WarmupCanonical(x.warmups[i], i)
      /\ \A i \in DOMAIN x.stages : StageCanonical(x.stages[i], i)
  BY DEF Accepts
<1> HIDE DEF x
<1>3. ASSUME NEW i \in DOMAIN r.warmups, ParsedOff(r.warmups[i])
      PROVE  FALSE
  <2>1. x.warmups[i] = [r.warmups[i] EXCEPT !.exact = FALSE]
    BY <1>1, <1>3 DEF ReadWarmup
  <2>2. WarmupShape(r.warmups[i])
    BY DEF ReportShape
  <2>3. x.warmups[i].exact = FALSE
    BY <2>1, <2>2 DEF WarmupShape
  <2>4. x.warmups[i].exact
    BY <1>1, <1>2 DEF WarmupCanonical
  <2> QED BY <2>3, <2>4
<1>4. ASSUME NEW i \in DOMAIN r.stages, ParsedOff(r.stages[i].summary)
      PROVE  FALSE
  <2>1. x.stages[i] = [r.stages[i] EXCEPT !.summary.exact = FALSE]
    BY <1>1, <1>4 DEF ReadStage
  <2>2. StageShape(r.stages[i])
    BY DEF ReportShape
  <2>3. x.stages[i].summary.exact = FALSE
    BY <2>1, <2>2 DEF StageShape, SummaryShape
  <2>4. StageCanonical(x.stages[i], i)
    BY <1>1, <1>2
  <2>5. x.stages[i].summary.exact = TRUE
    BY <2>4 DEF StageCanonical, StageOf, Summary
  <2> QED BY <2>3, <2>5
<1> QED BY <1>3, <1>4 DEF Distorted

\* The report and the damaged ones have the fields of a report.
LEMMA DamageShapes ==
  ASSUME SaturationAssumption, IInv, pc = "saved", NEW r \in {report} \cup Damages(report)
  PROVE  ReportShape(r)
<1> DEFINE n == Len(stages)
           sound(s) == s = [i \in DOMAIN s |-> s[i]] /\ \A i \in DOMAIN s : StageShape(s[i])
           ready(w) == w = [i \in DOMAIN w |-> w[i]] /\ \A i \in DOMAIN w : WarmupShape(w[i])
<1>1. /\ TypeOK /\ report = Written
      /\ n \in Nat /\ DOMAIN stages = 1..n
      /\ Len(warmups) \in Nat /\ DOMAIN warmups = 1..Len(warmups)
      /\ \A i \in 1..Len(warmups) : IsWarmup(warmups[i], i)
  BY RunEnded
<1>2. PICK a, b, c, d, e :
        report = [status |-> a, abort |-> b, duration |-> c, warmups |-> warmups,
                  stages |-> stages, assessment |-> d, verification |-> e]
  BY <1>1 DEF Written
<1>3. \A i \in 1..n : IsStage(stages[i], i)
  BY <1>1 DEF IInv, PhaseInv
<1>4. ready(warmups)
  <2>1. \A i \in DOMAIN warmups : WarmupShape(warmups[i])
    BY <1>1 DEF IsWarmup, WarmupShape
  <2>2. warmups = [i \in DOMAIN warmups |-> warmups[i]]
    BY <1>1 DEF TypeOK
  <2> QED BY <2>1, <2>2
<1>5. sound(stages)
  <2>1. \A x, y : SummaryShape(Summary(x, y))
    BY DEF Summary, SummaryShape
  <2>2. \A i \in DOMAIN stages : StageShape(stages[i])
    BY <1>1, <1>3, <2>1 DEF IsStage, StageOf, StageShape
  <2>3. stages = [i \in DOMAIN stages |-> stages[i]]
    BY <1>1 DEF TypeOK
  <2> QED BY <2>2, <2>3
<1>6. \A s, w : s = stages /\ w = warmups => sound(s) /\ ready(w)
  BY <1>4, <1>5
<1>7. CASE n > 0 /\ r \in {LostStage(report), LostLevel(report)}
  <2>1. /\ Len(Front(stages)) = n - 1 /\ DOMAIN Front(stages) = 1..(n - 1)
        /\ \A i \in 1..(n - 1) : Front(stages)[i] = stages[i]
    BY <1>1, <1>7, FrontFacts DEF TypeOK
  <2>2. sound(Front(stages))
    <3>1. Front(stages) = [i \in DOMAIN Front(stages) |-> Front(stages)[i]]
      BY DEF Front
    <3>2. \A i \in 1..(n - 1) : i \in DOMAIN stages
      BY <1>1
    <3> QED BY <1>5, <2>1, <3>1, <3>2
  <2>3. CASE r = LostStage(report)
    <3>1. r = [status |-> a, abort |-> b, duration |-> c, warmups |-> warmups,
               stages |-> Front(stages), assessment |-> d, verification |-> e]
      BY <1>2, <2>3 DEF LostStage
    <3> QED BY <1>4, <2>2, <3>1 DEF ReportShape
  <2>4. CASE r = LostLevel(report)
    <3>1. r = [status |-> a, abort |-> b, duration |-> c, warmups |-> Front(warmups),
               stages |-> Front(stages), assessment |-> d, verification |-> e]
      BY <1>2, <2>4 DEF LostLevel
    <3>2. Len(warmups) > 0
      BY <1>7, RunEnded
    <3>3. /\ DOMAIN Front(warmups) = 1..(Len(warmups) - 1)
          /\ \A i \in 1..(Len(warmups) - 1) : Front(warmups)[i] = warmups[i]
      BY <1>1, <3>2, FrontFacts DEF TypeOK
    <3>4. ready(Front(warmups))
      <4>1. Front(warmups) = [i \in DOMAIN Front(warmups) |-> Front(warmups)[i]]
        BY DEF Front
      <4>2. \A i \in 1..(Len(warmups) - 1) : i \in DOMAIN warmups
        BY <1>1
      <4> QED BY <1>4, <3>3, <4>1, <4>2
    <3> QED BY <2>2, <3>1, <3>4 DEF ReportShape
  <2> QED BY <1>7, <2>3, <2>4
<1>8. ASSUME n > 0, NEW k, r = Flipped(report, k)
      PROVE  ReportShape(r)
  <2> DEFINE s == [stages EXCEPT ![n].attempts[k].ok = ~@]
  <2>1. r = [status |-> a, abort |-> b, duration |-> c, warmups |-> warmups,
             stages |-> s, assessment |-> d, verification |-> e]
    BY <1>2, <1>8 DEF Flipped
  <2>2. \A i \in DOMAIN stages : i # n => s[i] = stages[i]
    OBVIOUS
  <2>3. n \in DOMAIN stages
    BY <1>1, <1>8
  <2>4. StageShape(s[n])
    <3>1. StageShape(stages[n])
      BY <1>5, <2>3
    <3>2. PICK x, y, m, g : SummaryShape(m) /\ stages[n] = [concurrency |-> x, attempts |-> y,
                                                           summary |-> m, gates |-> g]
      BY <3>1 DEF StageShape
    <3>3. s[n] = [concurrency |-> x, attempts |-> [y EXCEPT ![k].ok = ~@], summary |-> m,
                  gates |-> g]
      BY <2>3, <3>2
    <3> QED BY <3>2, <3>3 DEF StageShape
  <2>5. sound(s)
    BY <1>5, <2>2, <2>3, <2>4
  <2> HIDE DEF s
  <2> QED BY <1>4, <2>1, <2>5 DEF ReportShape
<1>9. ASSUME NEW i \in 1..n, NEW j \in 1..n, r = Stale(report, i, j)
      PROVE  ReportShape(r)
  <2> DEFINE s == [stages EXCEPT ![i].summary = stages[j].summary]
  <2>1. r = [status |-> a, abort |-> b, duration |-> c, warmups |-> warmups,
             stages |-> s, assessment |-> d, verification |-> e]
    BY <1>2, <1>9 DEF Stale
  <2>2. \A k \in DOMAIN stages : k # i => s[k] = stages[k]
    OBVIOUS
  <2>3. i \in DOMAIN stages /\ j \in DOMAIN stages
    BY <1>1
  <2>4. StageShape(s[i])
    <3>1. StageShape(stages[i]) /\ StageShape(stages[j])
      BY <1>5, <2>3
    <3>2. PICK x, y, m, g : stages[i] = [concurrency |-> x, attempts |-> y, summary |-> m,
                                         gates |-> g]
      BY <3>1 DEF StageShape
    <3>3. SummaryShape(stages[j].summary)
      BY <3>1 DEF StageShape
    <3>4. s[i] = [concurrency |-> x, attempts |-> y, summary |-> stages[j].summary, gates |-> g]
      BY <2>3, <3>2
    <3> QED BY <3>3, <3>4 DEF StageShape
  <2>5. sound(s)
    BY <1>5, <2>2, <2>3, <2>4
  <2> HIDE DEF s
  <2> QED BY <1>4, <2>1, <2>5 DEF ReportShape
<1>10. ASSUME NEW x, NEW y, r = EndsAs(report, x, y)
       PROVE  ReportShape(r)
  <2>1. r = [status |-> x, abort |-> y, duration |-> c, warmups |-> warmups,
             stages |-> stages, assessment |-> d, verification |-> e]
    BY <1>2, <1>10 DEF EndsAs
  <2> QED BY <1>4, <1>5, <2>1 DEF ReportShape
<1>11. CASE r = report
  BY <1>2, <1>4, <1>5, <1>11 DEF ReportShape
<1>12. \/ r = report
       \/ n > 0 /\ r \in {LostStage(report), LostLevel(report)}
       \/ n > 0 /\ \E k : r = Flipped(report, k)
       \/ \E i, j \in 1..n : r = Stale(report, i, j)
       \/ \E x, y : r = EndsAs(report, x, y)
  <2>1. n = Len(report.stages) /\ (n # 0 => n > 0)
    BY <1>1, <1>2
  <2> HIDE DEF n
  <2> QED BY <2>1 DEF Damages
<1> HIDE DEF n
<1> QED BY <1>7, <1>8, <1>9, <1>10, <1>11, <1>12

\* What is accepted is the report, every percentage of it as it was written.
LEMMA AcceptedSaved ==
  ASSUME SaturationAssumption, IInv, SavedInv, pc = "saved", Accepts(saved)
  PROVE  saved = report /\ ~Distorted(report)
<1>1. PICK r \in {report} \cup Damages(report) : saved = ReadBack(r)
  BY DEF SavedInv
<1>2. ReportShape(r) /\ ~Distorted(r)
  BY <1>1, DamageShapes, AcceptedIntact
<1>3. saved = r
  BY <1>1, <1>2, ReadIntact
<1>4. r = report
  BY <1>3, DamageRefused
<1> QED BY <1>2, <1>3, <1>4

\* What is read back is judged exactly.
LEMMA SavedFacts ==
  ASSUME SaturationAssumption, IInv, SavedInv
  PROVE  ReconstructionExact
<1> SUFFICES ASSUME saved # None
             PROVE  Accepts(saved) <=> /\ saved = ReadBack(report)
                                       /\ ~BrokeOff(report) /\ ~Distorted(report)
  BY DEF ReconstructionExact
<1>1. pc = "saved"
  BY DEF SavedInv
<1>2. ReportShape(report)
  BY <1>1, DamageShapes
<1>3. ~Distorted(report) => ReadBack(report) = report
  BY <1>2, ReadIntact
<1>4. ASSUME Accepts(saved)
      PROVE  saved = ReadBack(report) /\ ~BrokeOff(report) /\ ~Distorted(report)
  <2>1. saved = report /\ ~Distorted(report)
    BY <1>1, <1>4, AcceptedSaved
  <2> QED BY <1>1, <1>3, <1>4, <2>1, WrittenAccepted
<1>5. ASSUME saved = ReadBack(report), ~BrokeOff(report), ~Distorted(report)
      PROVE  Accepts(saved)
  BY <1>1, <1>3, <1>5, WrittenAccepted
<1> QED BY <1>4, <1>5

\* The offline rules accept exactly the report that was written, as long as no
\* measured response broke off and its error percentages are parsed as they
\* were printed.
THEOREM ReconstructionIsExact ==
  ASSUME SaturationAssumption
  PROVE  Spec => []ReconstructionExact
<1>1. Init => SavedInv
  BY DEF Init, SavedInv
<1>2. IInv /\ SavedInv /\ [Next]_vars => SavedInv'
  BY SavedStep
<1>3. IInv /\ SavedInv => ReconstructionExact
  BY SavedFacts
<1>4. Spec => []IInv
  BY SaturationInvariant
<1> QED BY <1>1, <1>2, <1>3, <1>4, PTL DEF Spec

-----------------------------------------------------------------------------
(* Percentiles.                                                            *)

\* At least 95 % of D are in S; those of D whose value is at most t.
Most(S, D) == 100 * Cardinality(S) >= 95 * Cardinality(D)
UpTo(D, v, t) == {i \in D : v[i] <= t}
\* The least of the values that at least 95 % of them reach up to, see P95.
Rank(D, v) ==
  Min({t \in {v[i] : i \in D} :
         Cardinality(UpTo(D, v, t)) >= (95 * Cardinality(D) + 99) \div 100})

\* Some of the first n are measured, none longer than b.
Timed(n, b, D, v) == n \in Nat /\ b \in Nat /\ D \in SUBSET (1..n) /\ D # {} /\ v \in [D -> 0..b]

\* The sizes of what is measured.
LEMMA TimedSizes ==
  ASSUME NEW n, NEW b, NEW D, NEW v, Timed(n, b, D, v)
  PROVE  /\ IsFiniteSet(D) /\ Cardinality(D) \in Nat \ {0}
         /\ \A S \in SUBSET D : \A T \in SUBSET S : Cardinality(T) <= Cardinality(S)
         /\ \A S \in SUBSET D : Cardinality(S) \in Nat
<1>1. n \in Nat /\ D \in SUBSET (1..n) /\ D # {}
  BY DEF Timed
<1>2. IsFiniteSet(1..n)
  BY <1>1, FS_Interval
<1>3. IsFiniteSet(D)
  <2> DEFINE N == 1..n
  <2>1. IsFiniteSet(N) /\ D \in SUBSET N
    BY <1>1, <1>2
  <2> HIDE DEF N
  <2> QED BY <2>1, FS_Subset
<1>4. \A S \in SUBSET D : IsFiniteSet(S) /\ Cardinality(S) \in Nat
  BY <1>3, FS_Subset, FS_CardinalityType
<1>5. \A S \in SUBSET D : \A T \in SUBSET S : Cardinality(T) <= Cardinality(S)
  BY <1>4, FS_Subset
<1>6. Cardinality(D) # 0
  BY <1>1, <1>3, FS_EmptySet
<1> QED BY <1>3, <1>4, <1>5, <1>6

\* What contains most contains most.
LEMMA MostGrows ==
  ASSUME NEW n, NEW b, NEW D, NEW v, Timed(n, b, D, v),
         NEW T \in SUBSET D, NEW S \in SUBSET T, Most(S, D)
  PROVE  Most(T, D)
<1>1. /\ Cardinality(S) \in Nat /\ Cardinality(T) \in Nat /\ Cardinality(D) \in Nat
      /\ Cardinality(S) <= Cardinality(T)
  <2>1. S \in SUBSET D
    OBVIOUS
  <2> QED BY <2>1, TimedSizes
<1> QED BY <1>1 DEF Most

\* Rounding the rank up loses nothing.
LEMMA RankRounds ==
  ASSUME NEW m \in Nat, NEW k \in Nat
  PROVE  m >= (95 * k + 99) \div 100 <=> 100 * m >= 95 * k
OBVIOUS

\* Most values reach up to the rank, which is one of them, and to no smaller one.
LEMMA RankFacts ==
  ASSUME NEW n, NEW b, NEW D, NEW v, Timed(n, b, D, v)
  PROVE  /\ Rank(D, v) \in Nat /\ \E i \in D : v[i] = Rank(D, v)
         /\ Most(UpTo(D, v, Rank(D, v)), D)
         /\ \A i \in D : Most(UpTo(D, v, v[i]), D) => Rank(D, v) <= v[i]
<1> DEFINE V == {v[i] : i \in D}
           T == {t \in V : Cardinality(UpTo(D, v, t)) >= (95 * Cardinality(D) + 99) \div 100}
<1>1. b \in Nat /\ D # {} /\ \A i \in D : v[i] \in 0..b
  BY DEF Timed
<1>2. \A t : Cardinality(UpTo(D, v, t)) >= (95 * Cardinality(D) + 99) \div 100
               <=> Most(UpTo(D, v, t), D)
  <2> TAKE t
  <2>1. UpTo(D, v, t) \in SUBSET D
    BY DEF UpTo
  <2>2. Cardinality(UpTo(D, v, t)) \in Nat /\ Cardinality(D) \in Nat
    BY <2>1, TimedSizes
  <2> QED BY <2>2, RankRounds DEF Most
<1>3. V \in SUBSET (0..b) /\ V # {} /\ V \in SUBSET Nat
  BY <1>1
<1>4. PICK i \in D : \A j \in D : v[j] <= v[i]
  <2>1. Max(V) \in V /\ \A x \in V : x <= Max(V)
    <3> HIDE DEF V
    <3> QED BY <1>1, <1>3, LargestOf
  <2>2. PICK i \in D : v[i] = Max(V)
    BY <2>1
  <2>3. \A j \in D : v[j] \in V
    OBVIOUS
  <2> HIDE DEF V
  <2> QED BY <2>1, <2>2, <2>3
<1>5. Most(UpTo(D, v, v[i]), D)
  <2>1. UpTo(D, v, v[i]) = D
    BY <1>4 DEF UpTo
  <2>2. Cardinality(D) \in Nat
    BY TimedSizes
  <2> QED BY <2>1, <2>2 DEF Most
<1>6. T # {} /\ T \in SUBSET Nat
  BY <1>2, <1>3, <1>5
<1>7. Min(T) \in T /\ \A x \in T : Min(T) <= x
  <2> HIDE DEF T
  <2> QED BY <1>6, SmallestOf
<1>8. Rank(D, v) = Min(T)
  BY DEF Rank
<1>9. \A t : t \in T <=> t \in V /\ Most(UpTo(D, v, t), D)
  BY <1>2
<1>10. \A j \in D : v[j] \in V
  OBVIOUS
<1>11. \A t \in V : t \in Nat /\ \E j \in D : v[j] = t
  BY <1>3
<1> HIDE DEF T, V
<1> QED BY <1>7, <1>8, <1>9, <1>10, <1>11

\* Among most of the measured there is one that the rank does not exceed.
LEMMA RankReached ==
  ASSUME NEW n, NEW b, NEW D, NEW v, Timed(n, b, D, v), NEW S \in SUBSET D, Most(S, D)
  PROVE  \E m \in S : Rank(D, v) <= v[m]
<1>1. S # {}
  <2> SUFFICES ASSUME S = {}
               PROVE  FALSE
    OBVIOUS
  <2>1. Cardinality(S) = 0
    BY FS_EmptySet
  <2>2. Cardinality(D) \in Nat \ {0}
    BY TimedSizes
  <2> QED BY <2>1, <2>2 DEF Most
<1> DEFINE V == {v[i] : i \in S}
<1>2. b \in Nat /\ V \in SUBSET (0..b) /\ V # {}
  BY <1>1 DEF Timed
<1>3. PICK m \in S : \A j \in S : v[j] <= v[m]
  <2>1. Max(V) \in V /\ \A x \in V : x <= Max(V)
    <3> HIDE DEF V
    <3> QED BY <1>2, LargestOf
  <2>2. PICK m \in S : v[m] = Max(V)
    BY <2>1
  <2>3. \A j \in S : v[j] \in V
    OBVIOUS
  <2> HIDE DEF V
  <2> QED BY <2>1, <2>2, <2>3
<1>4. S \in SUBSET UpTo(D, v, v[m]) /\ UpTo(D, v, v[m]) \in SUBSET D
  BY <1>3 DEF UpTo
<1>5. Most(UpTo(D, v, v[m]), D)
  BY <1>4, MostGrows
<1>6. m \in D
  OBVIOUS
<1> QED BY <1>5, <1>6, RankFacts

\* Most of w lie within the percentage of any value most of v lie within.
AllWithin(D, v, E, w, t) ==
  \A i \in D : Most(UpTo(D, v, v[i]), D) =>
    Most({j \in E : 100 * w[j] <= (100 + t) * v[i]}, E)

\* The two ranks are within the percentage exactly when AllWithin says so.
LEMMA WithinFacts ==
  ASSUME NEW n, NEW b, NEW D, NEW v, Timed(n, b, D, v),
         NEW k, NEW c, NEW E, NEW w, Timed(k, c, E, w), NEW t \in Nat
  PROVE  100 * (Rank(E, w) - Rank(D, v)) <= t * Rank(D, v) <=> AllWithin(D, v, E, w, t)
<1> DEFINE x == Rank(D, v)
           y == Rank(E, w)
           Under(z) == {j \in E : 100 * w[j] <= (100 + t) * z}
<1>1. /\ x \in Nat /\ \E i \in D : v[i] = x
      /\ Most(UpTo(D, v, x), D)
      /\ \A i \in D : Most(UpTo(D, v, v[i]), D) => x <= v[i]
  BY RankFacts
<1>2. y \in Nat /\ Most(UpTo(E, w, y), E)
  BY RankFacts
<1>3. (\A i \in D : v[i] \in Nat) /\ (\A j \in E : w[j] \in Nat)
  BY DEF Timed
<1>4. \A S \in SUBSET E : Most(S, E) => \E m \in S : y <= w[m]
  BY RankReached
<1>5. \A T \in SUBSET E : \A S \in SUBSET T : Most(S, E) => Most(T, E)
  BY MostGrows
<1> HIDE DEF x, y
<1>6. ASSUME NEW z \in Nat
      PROVE  /\ (100 + t) * z \in Nat
             /\ (100 * (y - z) <= t * z <=> 100 * y <= (100 + t) * z)
  <2>1. t * z \in Nat
    BY <1>6, t <= t, TimesMonotone
  <2>2. (100 + t) * z = 100 * z + t * z
    BY <1>6
  <2> QED BY <1>2, <1>6, <2>1, <2>2
<1>7. ASSUME 100 * (y - x) <= t * x, NEW i \in D, Most(UpTo(D, v, v[i]), D)
      PROVE  Most(Under(v[i]), E)
  <2>1. x <= v[i] /\ v[i] \in Nat
    BY <1>1, <1>3, <1>7
  <2>2. (100 + t) * x <= (100 + t) * v[i]
    <3>1. x * (100 + t) <= v[i] * (100 + t)
      BY <1>1, <2>1, 100 + t \in Nat, TimesMonotone
    <3>2. x * (100 + t) = (100 + t) * x /\ v[i] * (100 + t) = (100 + t) * v[i]
      BY <1>1, <2>1
    <3> QED BY <3>1, <3>2
  <2>3. 100 * y <= (100 + t) * v[i]
    <3>1. 100 * y <= (100 + t) * x /\ (100 + t) * x \in Nat
      BY <1>1, <1>6, <1>7
    <3>2. (100 + t) * v[i] \in Nat
      BY <1>6, <2>1
    <3> QED BY <1>2, <2>2, <3>1, <3>2
  <2>4. UpTo(E, w, y) \in SUBSET Under(v[i]) /\ Under(v[i]) \in SUBSET E
    <3> SUFFICES ASSUME NEW j \in E, w[j] <= y
                 PROVE  100 * w[j] <= (100 + t) * v[i]
      BY DEF UpTo
    <3>1. w[j] \in Nat /\ (100 + t) * v[i] \in Nat
      BY <1>3, <1>6, <2>1
    <3> QED BY <1>2, <2>3, <3>1
  <2> HIDE DEF Under
  <2> QED BY <1>2, <1>5, <2>4
<1>8. ASSUME \A i \in D : Most(UpTo(D, v, v[i]), D) => Most(Under(v[i]), E)
      PROVE  100 * (y - x) <= t * x
  <2>1. Most(Under(x), E)
    <3>1. PICK i \in D : v[i] = x
      BY <1>1
    <3> HIDE DEF Under
    <3> QED BY <1>1, <1>8, <3>1
  <2>2. PICK m \in Under(x) : y <= w[m]
    <3>1. Under(x) \in SUBSET E
      OBVIOUS
    <3> HIDE DEF Under
    <3> QED BY <1>4, <2>1, <3>1
  <2>3. w[m] \in Nat /\ 100 * w[m] <= (100 + t) * x
    BY <1>3
  <2>4. 100 * y <= (100 + t) * x
    BY <1>1, <1>2, <1>6, <2>2, <2>3
  <2> QED BY <1>1, <1>6, <2>4
<1> HIDE DEF Under
<1>9. 100 * (y - x) <= t * x
        <=> \A i \in D : Most(UpTo(D, v, v[i]), D) => Most(Under(v[i]), E)
  BY <1>7, <1>8
<1> QED BY <1>9 DEF x, y, Under, AllWithin

-----------------------------------------------------------------------------
(* The comparison.                                                         *)

\* The numbers and gates of a stage are those of its attempts.
SoundStage(s, o) ==
  /\ \E n \in Nat \ {0} : s.attempts \in [1..n -> Outcomes]
  /\ s.summary.duration \in Nat
  /\ s = StageOf(s.concurrency, s.attempts, s.summary.duration, o)
\* A side that is accepted as complete has a sound stage for each of the plan.
SoundSide(x) ==
  x.intact /\ x.report.status = "complete" =>
    /\ x.options \in Options
    /\ DOMAIN x.report.stages = DOMAIN x.options.stages
    /\ \A i \in DOMAIN x.options.stages : SoundStage(x.report.stages[i], x.options)

\* What the saved report makes of a side is sound: only the written report is
\* accepted, and it is complete only if no phase ended the run.
LEMMA SavedSide ==
  ASSUME SaturationAssumption, IInv, SavedInv, pc = "saved", NEW started
  PROVE  SoundSide(Side(started))
<1> SUFFICES ASSUME Accepts(saved), saved.status = "complete"
             PROVE  /\ options \in Options
                    /\ DOMAIN saved.stages = DOMAIN options.stages
                    /\ \A i \in DOMAIN options.stages : SoundStage(saved.stages[i], options)
  BY DEF SoundSide, Side
<1>1. saved = report
  BY AcceptedSaved
<1>2. /\ Valid(options) /\ TypeOK /\ report = Written
      /\ Len(stages) \in Nat /\ DOMAIN stages = 1..Len(stages)
      /\ \/ Len(warmups) = Len(stages) + 1 /\ abort # None
         \/ abort = None => Len(stages) = Len(options.stages)
  BY RunEnded
<1>3. saved.stages = stages /\ abort = None
  BY <1>1, <1>2 DEF Written
<1>4. Len(stages) = Len(options.stages) /\ DOMAIN stages = DOMAIN options.stages
  <2>1. DOMAIN options.stages = 1..Len(options.stages)
    BY <1>2, OptionFacts
  <2> QED BY <1>2, <1>3, <2>1
<1>5. ASSUME NEW i \in DOMAIN options.stages
      PROVE  SoundStage(stages[i], options)
  <2> DEFINE s == stages[i]
             n == options.stages[i] * options.requests
  <2>1. IsStage(s, i) /\ i \in 1..Len(options.stages)
    BY <1>2, <1>4, <1>5 DEF IInv, PhaseInv
  <2>2. s.attempts \in [1..n -> Outcomes]
        /\ s = StageOf(options.stages[i], s.attempts, LongestWorker(s.attempts), options)
    BY <2>1 DEF IsStage, Attempts
  <2>3. /\ s.concurrency = options.stages[i] /\ s.summary.duration \in Nat
        /\ Len(s.attempts) = n /\ Len(s.attempts) \in Nat \ {0}
    BY <1>2, <2>1, StageFacts
  <2>4. s.summary.duration = LongestWorker(s.attempts)
    BY <2>2 DEF StageOf, Summary
  <2> HIDE DEF s, n
  <2> QED BY <2>2, <2>3, <2>4 DEF SoundStage, s
<1>6. options \in Options
  BY <1>2 DEF TypeOK
<1> QED BY <1>3, <1>4, <1>5, <1>6

\* The numbers of a sound stage, in terms of its attempts.
LEMMA SoundNumbers ==
  ASSUME SaturationAssumption, NEW s, NEW o, SoundStage(s, o)
  PROVE  /\ s.summary.attempted = Len(s.attempts)
         /\ s.summary.succeeded = Cardinality(Ok(s))
         /\ s.summary.attempted - s.summary.succeeded = Failed(s.attempts)
         /\ s.summary.usageComplete => Measured(s)
         /\ Measured(s) => s.summary.tokens = Generated(s)
         /\ s.gates = Gates(s.summary, o)
         /\ Cardinality(Ok(s)) \in Nat
<1>1. s.summary = Summary(s.attempts, s.summary.duration) /\ s.gates = Gates(s.summary, o)
  BY DEF SoundStage, StageOf
<1>2. /\ s.summary.attempted = Len(s.attempts)
      /\ s.summary.succeeded = Succeeded(s.attempts)
      /\ s.summary.usageComplete = UsageComplete(s.attempts)
      /\ s.summary.tokens = TokensOf(s.attempts)
  BY <1>1 DEF Summary
<1>3. Succeeded(s.attempts) = Cardinality(Ok(s))
  BY DEF Succeeded, Ok
<1>4. UsageComplete(s.attempts) => Measured(s)
  BY DEF UsageComplete, Measured, Ok
<1>5. Measured(s) => TokensOf(s.attempts) = Generated(s)
  <2> DEFINE f == [i \in DOMAIN s.attempts |->
                     IF s.attempts[i].ok /\ s.attempts[i].tokens # None
                     THEN s.attempts[i].tokens ELSE 0]
             g == [i \in DOMAIN s.attempts |->
                     IF s.attempts[i].ok THEN s.attempts[i].tokens ELSE 0]
  <2>1. Measured(s) => f = g
    BY DEF Measured, Ok
  <2> HIDE DEF f, g
  <2> QED BY <2>1 DEF TokensOf, Generated, f, g
<1>6. Succeeded(s.attempts) \in Nat
  <2>1. PICK n \in Nat \ {0} : s.attempts \in [1..n -> Outcomes]
    BY DEF SoundStage
  <2>2. Succeeded(s.attempts) \in 0..n
    BY <2>1, CountFacts
  <2> QED BY <2>2
<1> QED BY <1>1, <1>2, <1>3, <1>4, <1>5, <1>6 DEF Failed

\* The times of the successes.
OkTimes(s) == [i \in Ok(s) |-> s.attempts[i].time]

\* The percentile of a stage that has a success is the rank of their times.
LEMMA SoundTimes ==
  ASSUME SaturationAssumption, NEW s, NEW o, SoundStage(s, o), Cardinality(Ok(s)) > 0
  PROVE  /\ \E n : Timed(n, Timeout, Ok(s), OkTimes(s))
         /\ s.summary.p95 = Rank(Ok(s), OkTimes(s))
<1> DEFINE D == Ok(s)
           v == OkTimes(s)
<1>1. PICK n \in Nat \ {0} : s.attempts \in [1..n -> Outcomes]
  BY DEF SoundStage
<1>2. D # {}
  BY FS_EmptySet
<1>3. v \in [D -> 0..Timeout] /\ Timeout \in Nat
  <2>1. \A i \in 1..n : s.attempts[i].time \in 1..Timeout
    BY <1>1 DEF SaturationAssumption
  <2>2. \A i \in D : i \in 1..n
    BY <1>1 DEF Ok
  <2>3. Timeout \in Nat /\ \A t \in 1..Timeout : t \in 0..Timeout
    BY DEF SaturationAssumption
  <2>4. v = [i \in D |-> s.attempts[i].time]
    BY DEF OkTimes
  <2> HIDE DEF D, v
  <2> QED BY <2>1, <2>2, <2>3, <2>4
<1>4. D \in SUBSET (1..n)
  BY <1>1 DEF Ok
<1>5. Timed(n, Timeout, D, v)
  BY <1>2, <1>3, <1>4 DEF Timed
<1>6. P95(s.attempts) = Rank(D, v)
  <2>1. Succeeded(s.attempts) = Cardinality(D)
    BY DEF Succeeded, Ok
  <2>2. Times(s.attempts) = {v[i] : i \in D}
    BY DEF Times, Ok, OkTimes
  <2>3. \A t : {i \in DOMAIN s.attempts : s.attempts[i].ok /\ s.attempts[i].time <= t}
                 = UpTo(D, v, t)
    BY DEF UpTo, Ok, OkTimes
  <2> HIDE DEF D, v
  <2> QED BY <2>1, <2>2, <2>3 DEF P95, Rank
<1>7. s.summary.p95 = P95(s.attempts)
  <2>1. s.summary = Summary(s.attempts, s.summary.duration)
    BY DEF SoundStage, StageOf
  <2>2. Succeeded(s.attempts) # 0
    BY DEF Succeeded, Ok
  <2> QED BY <2>1, <2>2 DEF Summary
<1> QED BY <1>5, <1>6, <1>7

\* A gate that can be evaluated lacks nothing it needs.
LEMMA NothingLacks ==
  ASSUME ComparisonAssumption, NEW n \in Nat, NEW needs, NEW b, NEW c, DOMAIN needs = 1..n,
         \A i \in 1..n : needs[i] \in {"baseline", "candidate"} \X Evidence,
         Reason(needs, b, c) = None
  PROVE  \A i \in 1..n : ~Lacks(IF needs[i][1] = "baseline" THEN b ELSE c, needs[i][2])
<1> DEFINE of(side) == IF side = "baseline" THEN b ELSE c
           missing == {i \in DOMAIN needs : Lacks(of(needs[i][1]), needs[i][2])}
<1>1. missing \in SUBSET (1..n)
  OBVIOUS
<1>2. Reason(needs, b, c) = IF missing = {} THEN None ELSE needs[Min(missing)]
  BY DEF Reason
<1>3. missing # {} => Min(missing) \in 1..n
  <2>1. missing \in SUBSET Nat
    BY <1>1
  <2> HIDE DEF missing
  <2> QED BY <1>1, <2>1, SmallestOf
<1>4. missing = {}
  <2> HIDE DEF missing
  <2> QED BY <1>2, <1>3 DEF ComparisonAssumption
<1> QED BY <1>4

\* The latencies need successes on both sides, as many as the samples.
LEMMA LatencyNeeded ==
  ASSUME ComparisonAssumption, NEW b, NEW c, Reason(LatencyNeeds, b, c) = None
  PROVE  /\ ~(b.succeeded = 0) /\ ~(c.succeeded = 0)
         /\ ~(b.succeeded < ComparisonSamples) /\ ~(c.succeeded < ComparisonSamples)
<1>1. /\ DOMAIN LatencyNeeds = 1..5
      /\ \A i \in 1..5 : LatencyNeeds[i] \in {"baseline", "candidate"} \X Evidence
  BY DEF LatencyNeeds, Evidence
<1>2. \A i \in 1..5 :
        ~Lacks(IF LatencyNeeds[i][1] = "baseline" THEN b ELSE c, LatencyNeeds[i][2])
  BY <1>1, NothingLacks
<1>3. /\ LatencyNeeds[1] = <<"baseline", "success">> /\ LatencyNeeds[2] = <<"candidate", "success">>
      /\ LatencyNeeds[3] = <<"baseline", "samples">> /\ LatencyNeeds[4] = <<"candidate", "samples">>
  BY DEF LatencyNeeds
<1>4. /\ ~Lacks(b, "success") /\ ~Lacks(c, "success")
      /\ ~Lacks(b, "samples") /\ ~Lacks(c, "samples")
  BY <1>2, <1>3
<1> QED BY <1>4 DEF Lacks

\* The rates of requests need attempts on both sides.
LEMMA RpsNeeded ==
  ASSUME ComparisonAssumption, NEW b, NEW c, Reason(RpsNeeds, b, c) = None
  PROVE  ~(b.attempted < ComparisonSamples) /\ ~(c.attempted < ComparisonSamples)
<1>1. /\ DOMAIN RpsNeeds = 1..3
      /\ \A i \in 1..3 : RpsNeeds[i] \in {"baseline", "candidate"} \X Evidence
  BY DEF RpsNeeds, Evidence
<1>2. \A i \in 1..3 : ~Lacks(IF RpsNeeds[i][1] = "baseline" THEN b ELSE c, RpsNeeds[i][2])
  BY <1>1, NothingLacks
<1>3. RpsNeeds[1] = <<"baseline", "attempts">> /\ RpsNeeds[2] = <<"candidate", "attempts">>
  BY DEF RpsNeeds
<1>4. ~Lacks(b, "attempts") /\ ~Lacks(c, "attempts")
  BY <1>2, <1>3
<1> QED BY <1>4 DEF Lacks

\* The rates of tokens need complete usage and samples on both sides.
LEMMA GoodputNeeded ==
  ASSUME ComparisonAssumption, NEW b, NEW c, Reason(GoodputNeeds, b, c) = None
  PROVE  /\ b.usageComplete /\ c.usageComplete
         /\ ~(b.succeeded < ComparisonSamples) /\ ~(c.succeeded < ComparisonSamples)
<1>1. /\ DOMAIN GoodputNeeds = 1..7
      /\ \A i \in 1..7 : GoodputNeeds[i] \in {"baseline", "candidate"} \X Evidence
  BY DEF GoodputNeeds, Evidence
<1>2. \A i \in 1..7 :
        ~Lacks(IF GoodputNeeds[i][1] = "baseline" THEN b ELSE c, GoodputNeeds[i][2])
  BY <1>1, NothingLacks
<1>3. /\ GoodputNeeds[3] = <<"baseline", "usage">> /\ GoodputNeeds[4] = <<"candidate", "usage">>
      /\ GoodputNeeds[5] = <<"baseline", "samples">> /\ GoodputNeeds[6] = <<"candidate", "samples">>
  BY DEF GoodputNeeds
<1>4. /\ ~Lacks(b, "usage") /\ ~Lacks(c, "usage")
      /\ ~Lacks(b, "samples") /\ ~Lacks(c, "samples")
  BY <1>2, <1>3
<1> QED BY <1>4 DEF Lacks

\* The error percentages need attempts on both sides.
LEMMA ErrorsNeeded ==
  ASSUME ComparisonAssumption, NEW b, NEW c, Reason(ErrorNeeds, b, c) = None
  PROVE  ~(b.attempted < ComparisonSamples) /\ ~(c.attempted < ComparisonSamples)
<1>1. /\ DOMAIN ErrorNeeds = 1..2
      /\ \A i \in 1..2 : ErrorNeeds[i] \in {"baseline", "candidate"} \X Evidence
  BY DEF ErrorNeeds, Evidence
<1>2. \A i \in 1..2 : ~Lacks(IF ErrorNeeds[i][1] = "baseline" THEN b ELSE c, ErrorNeeds[i][2])
  BY <1>1, NothingLacks
<1>3. ErrorNeeds[1] = <<"baseline", "attempts">> /\ ErrorNeeds[2] = <<"candidate", "attempts">>
  BY DEF ErrorNeeds
<1>4. ~Lacks(b, "attempts") /\ ~Lacks(c, "attempts")
  BY <1>2, <1>3
<1> QED BY <1>4 DEF Lacks

\* A gate passes or fails only on what both sides have, and says what it shows.
Both(b, c, kind) == Sampled(b, kind) /\ Sampled(c, kind)
GateTells(kind, b, c, t) ==
  LET status == Gate(kind, b.summary, c.summary, t).status
  IN  /\ status \in {"pass", "fail", "notEvaluable"}
      /\ status = "pass" => Both(b, c, kind) /\ NotWorse(kind, b, c, t)
      /\ status = "fail" => Both(b, c, kind) /\ ~NotWorse(kind, b, c, t)

\* What evaluated_gate makes of a reason and a condition.
LEMMA EvaluatedFacts ==
  ASSUME NEW reason, NEW passed
  PROVE  /\ Evaluated(reason, passed).status \in {"pass", "fail", "notEvaluable"}
         /\ Evaluated(reason, passed).status = "pass" => reason = None /\ passed
         /\ Evaluated(reason, passed).status = "fail" => reason = None /\ ~passed
BY DEF Evaluated, PassIf

\* latency_regression_gate: within the percentage as AllWithin says.
LEMMA LatencyTells ==
  ASSUME SaturationAssumption, ComparisonAssumption, NEW o, NEW u,
         NEW b, SoundStage(b, o), NEW c, SoundStage(c, u), NEW t \in Nat
  PROVE  GateTells("latency", b, c, t)
<1> DEFINE reason == Reason(LatencyNeeds, b.summary, c.summary)
           within == 100 * (c.summary.p95 - b.summary.p95) <= t * b.summary.p95
<1>1. Gate("latency", b.summary, c.summary, t) = Evaluated(reason, reason # None \/ within)
  BY DEF Gate
<1>2. ASSUME reason = None
      PROVE  Both(b, c, "latency") /\ (within <=> NotWorse("latency", b, c, t))
  <2>1. /\ b.summary.succeeded = Cardinality(Ok(b)) /\ Cardinality(Ok(b)) \in Nat
        /\ c.summary.succeeded = Cardinality(Ok(c)) /\ Cardinality(Ok(c)) \in Nat
    BY SoundNumbers
  <2>2. /\ b.summary.succeeded # 0 /\ c.summary.succeeded # 0
        /\ ~(b.summary.succeeded < ComparisonSamples)
        /\ ~(c.summary.succeeded < ComparisonSamples)
    BY <1>2, LatencyNeeded
  <2>3. Both(b, c, "latency")
    BY <2>1, <2>2 DEF Both, Sampled, ComparisonAssumption
  <2>4. /\ \E n : Timed(n, Timeout, Ok(b), OkTimes(b))
        /\ b.summary.p95 = Rank(Ok(b), OkTimes(b))
    BY <2>1, <2>2, SoundTimes
  <2>5. /\ \E n : Timed(n, Timeout, Ok(c), OkTimes(c))
        /\ c.summary.p95 = Rank(Ok(c), OkTimes(c))
    BY <2>1, <2>2, SoundTimes
  <2>6. within <=> AllWithin(Ok(b), OkTimes(b), Ok(c), OkTimes(c), t)
    BY <2>4, <2>5, WithinFacts
  <2>7. NotWorse("latency", b, c, t) <=> AllWithin(Ok(b), OkTimes(b), Ok(c), OkTimes(c), t)
    <3>1. ASSUME NEW i \in Ok(b)
          PROVE  MostWithin(b, 1, b.attempts[i].time)
                   <=> Most(UpTo(Ok(b), OkTimes(b), OkTimes(b)[i]), Ok(b))
      <4>1. \A j \in Ok(b) : OkTimes(b)[j] = b.attempts[j].time /\ OkTimes(b)[j] \in Nat
        BY <2>4 DEF OkTimes, Timed
      <4>2. {j \in Ok(b) : 1 * b.attempts[j].time <= b.attempts[i].time}
              = UpTo(Ok(b), OkTimes(b), OkTimes(b)[i])
        BY <4>1 DEF UpTo
      <4> QED BY Zenon, <4>2 DEF MostWithin, Most
    <3>2. ASSUME NEW i \in Ok(b)
          PROVE  MostWithin(c, 100, (100 + t) * b.attempts[i].time)
                   <=> Most({j \in Ok(c) : 100 * OkTimes(c)[j] <= (100 + t) * OkTimes(b)[i]},
                            Ok(c))
      <4>1. {j \in Ok(c) : 100 * c.attempts[j].time <= (100 + t) * b.attempts[i].time}
              = {j \in Ok(c) : 100 * OkTimes(c)[j] <= (100 + t) * OkTimes(b)[i]}
        BY DEF OkTimes
      <4> QED BY Zenon, <4>1 DEF MostWithin, Most
    <3>3. NotWorse("latency", b, c, t) <=>
            \A i \in Ok(b) : MostWithin(b, 1, b.attempts[i].time) =>
                               MostWithin(c, 100, (100 + t) * b.attempts[i].time)
      BY DEF NotWorse
    <3> QED BY <3>1, <3>2, <3>3 DEF AllWithin
  <2> QED BY <2>3, <2>6, <2>7
<1> HIDE DEF reason, within
<1> QED BY <1>1, <1>2, EvaluatedFacts DEF GateTells

\* rps_ratio_gate: the rates are those of the attempts.
LEMMA RpsTells ==
  ASSUME SaturationAssumption, ComparisonAssumption, NEW o, NEW u,
         NEW b, SoundStage(b, o), NEW c, SoundStage(c, u), NEW t \in Nat
  PROVE  GateTells("rps", b, c, t)
<1> DEFINE reason == Reason(RpsNeeds, b.summary, c.summary)
           keeps == RatioAtLeast(c.summary.succeeded, c.summary.duration,
                                  b.summary.succeeded, b.summary.duration, t)
<1>1. Gate("rps", b.summary, c.summary, t) = Evaluated(reason, keeps)
  BY DEF Gate
<1>2. /\ b.summary.succeeded = Cardinality(Ok(b)) /\ b.summary.attempted = Len(b.attempts)
      /\ c.summary.succeeded = Cardinality(Ok(c)) /\ c.summary.attempted = Len(c.attempts)
  BY SoundNumbers
<1>3. keeps <=> NotWorse("rps", b, c, t)
  BY <1>2 DEF RatioAtLeast, NotWorse
<1>4. reason = None => Both(b, c, "rps")
  <2>1. Len(b.attempts) \in Nat /\ Len(c.attempts) \in Nat
    BY DEF SoundStage
  <2> QED BY <1>2, <2>1, RpsNeeded DEF Both, Sampled, ComparisonAssumption
<1> HIDE DEF reason, keeps
<1> QED BY <1>1, <1>3, <1>4, EvaluatedFacts DEF GateTells

\* completion_goodput_ratio_gate: the tokens are those of the attempts.
LEMMA GoodputTells ==
  ASSUME SaturationAssumption, ComparisonAssumption, NEW o, NEW u,
         NEW b, SoundStage(b, o), NEW c, SoundStage(c, u), NEW t \in Nat
  PROVE  GateTells("goodput", b, c, t)
<1> DEFINE reason == Reason(GoodputNeeds, b.summary, c.summary)
           keeps == RatioAtLeast(c.summary.tokens, c.summary.duration,
                                 b.summary.tokens, b.summary.duration, t)
<1>1. Gate("goodput", b.summary, c.summary, t) = Evaluated(reason, keeps)
  BY DEF Gate
<1>2. ASSUME reason = None
      PROVE  Both(b, c, "goodput") /\ (keeps <=> NotWorse("goodput", b, c, t))
  <2>1. /\ b.summary.usageComplete /\ c.summary.usageComplete
        /\ ~(b.summary.succeeded < ComparisonSamples)
        /\ ~(c.summary.succeeded < ComparisonSamples)
    BY <1>2, GoodputNeeded
  <2>2. /\ b.summary.succeeded = Cardinality(Ok(b)) /\ Cardinality(Ok(b)) \in Nat
        /\ c.summary.succeeded = Cardinality(Ok(c)) /\ Cardinality(Ok(c)) \in Nat
        /\ Measured(b) /\ b.summary.tokens = Generated(b)
        /\ Measured(c) /\ c.summary.tokens = Generated(c)
    BY <2>1, SoundNumbers
  <2>3. Both(b, c, "goodput")
    BY <2>1, <2>2 DEF Both, Sampled, ComparisonAssumption
  <2>4. keeps <=> NotWorse("goodput", b, c, t)
    BY <2>2 DEF RatioAtLeast, NotWorse
  <2> QED BY <2>3, <2>4
<1> HIDE DEF reason, keeps
<1> QED BY <1>1, <1>2, EvaluatedFacts DEF GateTells

\* error_increase_gate: the failures are those of the attempts.
LEMMA ErrorsTell ==
  ASSUME SaturationAssumption, ComparisonAssumption, NEW o, NEW u,
         NEW b, SoundStage(b, o), NEW c, SoundStage(c, u), NEW t \in Nat
  PROVE  GateTells("errors", b, c, t)
<1> DEFINE reason == Reason(ErrorNeeds, b.summary, c.summary)
           bears == 100 * ((c.summary.attempted - c.summary.succeeded) * b.summary.attempted
                           - (b.summary.attempted - b.summary.succeeded) * c.summary.attempted)
                      <= t * b.summary.attempted * c.summary.attempted
<1>1. Gate("errors", b.summary, c.summary, t) = Evaluated(reason, bears)
  BY DEF Gate
<1>2. /\ b.summary.attempted = Len(b.attempts) /\ c.summary.attempted = Len(c.attempts)
      /\ b.summary.attempted - b.summary.succeeded = Failed(b.attempts)
      /\ c.summary.attempted - c.summary.succeeded = Failed(c.attempts)
  BY SoundNumbers
<1>3. bears <=> NotWorse("errors", b, c, t)
  BY <1>2 DEF NotWorse
<1>4. reason = None => Both(b, c, "errors")
  <2>1. Len(b.attempts) \in Nat /\ Len(c.attempts) \in Nat
    BY DEF SoundStage
  <2> QED BY <1>2, <2>1, ErrorsNeeded DEF Both, Sampled, ComparisonAssumption
<1> HIDE DEF reason, bears
<1> QED BY <1>1, <1>3, <1>4, EvaluatedFacts DEF GateTells

\* The thresholds of a valid policy that are selected.
Selected(p) == {k \in DOMAIN p : p[k] # None}

\* They are thresholds of the four gates, none negative.
LEMMA PolicyFacts ==
  ASSUME ComparisonAssumption, NEW p \in Policies, PolicyValid(p), NEW k \in Selected(p)
  PROVE  k \in {"latency", "rps", "goodput", "errors"} /\ p[k] \in Nat
<1>1. p \in [latency : Int \cup {None}, rps : Int \cup {None},
             goodput : Int \cup {None}, errors : Int \cup {None}]
  BY DEF ComparisonAssumption
<1>2. k \in {"latency", "rps", "goodput", "errors"} /\ p[k] # None
  BY <1>1 DEF Selected
<1>3. {p.latency, p.rps, p.goodput, p.errors} \subseteq Nat \cup {None}
  BY DEF PolicyValid
<1> QED BY <1>2, <1>3

\* What a stage of the comparison shows of the two it compares.
StageHolds(b, c, p) ==
  /\ Passes(b) /\ Passes(c)
  /\ \A k \in Selected(p) : Both(b, c, k) /\ NotWorse(k, b, c, p[k])
StageFalls(b, c, p) ==
  \/ Passes(b) /\ "fail" \in Statuses(c)
  \/ \E k \in Selected(p) : Both(b, c, k) /\ ~NotWorse(k, b, c, p[k])

\* A stage passes its own gates, or has one that fails, as its policy says.
LEMMA StagePolicyFacts ==
  ASSUME SaturationAssumption, NEW s, NEW o, SoundStage(s, o)
  PROVE  /\ StagePolicy(s) = "pass" => Passes(s)
         /\ StagePolicy(s) = "fail" => "fail" \in Statuses(s)
<1>1. s.gates = Gates(s.summary, o)
  BY SoundNumbers
<1>2. s.gates.successful \in Statuses(s) /\ Statuses(s) \subseteq {"pass", "fail", "notEvaluable"}
  BY <1>1, GateFacts
<1> QED BY <1>2 DEF StagePolicy, Passes

\* A compared stage shows what its outcomes say.
LEMMA StageTells ==
  ASSUME SaturationAssumption, ComparisonAssumption, NEW p \in Policies, PolicyValid(p),
         NEW o, NEW u, NEW b, SoundStage(b, o), NEW c, SoundStage(c, u)
  PROVE  LET outcome == Outcome(CompareStage(b, c, p))
         IN  /\ outcome \cap {"regression", "fail"} = {} /\ "notEvaluable" \notin outcome =>
                  StageHolds(b, c, p)
             /\ outcome \cap {"regression", "fail"} # {} => StageFalls(b, c, p)
<1> DEFINE policy == PolicyComparison(StagePolicy(b), StagePolicy(c))
           status(k) == Gate(k, b.summary, c.summary, p[k]).status
           outcome == Outcome(CompareStage(b, c, p))
<1>1. outcome = {policy} \cup {status(k) : k \in Selected(p)}
  BY DEF Outcome, CompareStage, Selected
<1>2. /\ policy \in {"pass", "regression", "notEvaluable"}
      /\ policy = "pass" => Passes(b) /\ Passes(c)
      /\ policy = "regression" => Passes(b) /\ "fail" \in Statuses(c)
  BY StagePolicyFacts DEF PolicyComparison
<1>3. ASSUME NEW k \in Selected(p)
      PROVE  /\ status(k) \in {"pass", "fail", "notEvaluable"}
             /\ status(k) = "pass" => Both(b, c, k) /\ NotWorse(k, b, c, p[k])
             /\ status(k) = "fail" => Both(b, c, k) /\ ~NotWorse(k, b, c, p[k])
  <2>1. k \in {"latency", "rps", "goodput", "errors"} /\ p[k] \in Nat
    BY PolicyFacts
  <2>2. GateTells(k, b, c, p[k])
    BY <2>1, LatencyTells, RpsTells, GoodputTells, ErrorsTell
  <2> QED BY <2>2 DEF GateTells
<1> HIDE DEF policy, status, outcome
<1>4. ASSUME outcome \cap {"regression", "fail"} = {}, "notEvaluable" \notin outcome
      PROVE  StageHolds(b, c, p)
  <2>1. policy = "pass" /\ \A k \in Selected(p) : status(k) = "pass"
    BY <1>1, <1>2, <1>3, <1>4
  <2> QED BY <1>2, <1>3, <2>1 DEF StageHolds
<1>5. ASSUME outcome \cap {"regression", "fail"} # {}
      PROVE  StageFalls(b, c, p)
  <2>1. policy = "regression" \/ \E k \in Selected(p) : status(k) = "fail"
    BY <1>1, <1>2, <1>3, <1>5
  <2> QED BY <1>2, <1>3, <2>1 DEF StageFalls
<1> QED BY <1>4, <1>5 DEF outcome

\* Two compatible sides have sound stages for the same plan.
LEMMA CompatibleStages ==
  ASSUME SaturationAssumption, NEW b, SoundSide(b), NEW c, SoundSide(c), Compatible(b, c)
  PROVE  /\ \A k \in DOMAIN b.options \ {"verify"} : b.options[k] = c.options[k]
         /\ b.report.status = "complete" /\ c.report.status = "complete"
         /\ DOMAIN b.report.stages = DOMAIN c.report.stages
         /\ \A i \in DOMAIN b.report.stages :
              /\ SoundStage(b.report.stages[i], b.options)
              /\ SoundStage(c.report.stages[i], c.options)
<1>1. b.options \in Options /\ c.options \in Options
  BY DEF SoundSide, Compatible
<1>2. "stages" \in DOMAIN b.options \ {"verify"}
  BY <1>1 DEF SaturationAssumption, OptionsAssumption
<1>3. b.options.stages = c.options.stages
  BY <1>2 DEF Compatible
<1> QED BY <1>3 DEF SoundSide, Compatible

\* The verdict of a comparison of sound sides is earned.
LEMMA ComparisonTells ==
  ASSUME SaturationAssumption, ComparisonAssumption, NEW p \in Policies, PolicyValid(p),
         NEW b, SoundSide(b), NEW c, SoundSide(c)
  PROVE  LET status == Comparison(b, c, p).status
         IN  /\ status = "pass" =>
                  /\ Compatible(b, c)
                  /\ \A i \in DOMAIN b.report.stages :
                       StageHolds(b.report.stages[i], c.report.stages[i], p)
             /\ status = "regression" =>
                  /\ Compatible(b, c)
                  /\ \E i \in DOMAIN b.report.stages :
                       StageFalls(b.report.stages[i], c.report.stages[i], p)
<1> DEFINE compatible == Compatible(b, c)
           stage(i) == CompareStage(b.report.stages[i], c.report.stages[i], p)
           D == DOMAIN b.report.stages
           status == Comparison(b, c, p).status
<1>1. ~compatible => status = "notEvaluable"
  BY DEF Comparison, ComparisonStatus
<1>2. ASSUME compatible
      PROVE  status = IF \E i \in D : Outcome(stage(i)) \cap {"regression", "fail"} # {}
                      THEN "regression"
                      ELSE IF \E i \in D : "notEvaluable" \in Outcome(stage(i))
                      THEN "notEvaluable" ELSE "pass"
  <2> DEFINE compared == [i \in D |-> stage(i)]
  <2>1. status = ComparisonStatus(TRUE, compared)
    BY <1>2 DEF Comparison
  <2>2. DOMAIN compared = D /\ \A i \in D : compared[i] = stage(i)
    OBVIOUS
  <2> HIDE DEF compared, status, D, stage
  <2> QED BY <2>1, <2>2 DEF ComparisonStatus
<1>3. ASSUME compatible, NEW i \in D
      PROVE  /\ Outcome(stage(i)) \cap {"regression", "fail"} = {}
                /\ "notEvaluable" \notin Outcome(stage(i)) =>
                  StageHolds(b.report.stages[i], c.report.stages[i], p)
             /\ Outcome(stage(i)) \cap {"regression", "fail"} # {} =>
                  StageFalls(b.report.stages[i], c.report.stages[i], p)
  <2>1. SoundStage(b.report.stages[i], b.options) /\ SoundStage(c.report.stages[i], c.options)
    BY <1>3, CompatibleStages
  <2> QED BY <2>1, StageTells
<1> HIDE DEF status, D, stage, compatible
<1>4. /\ status = "pass" =>
           compatible /\ \A i \in D : StageHolds(b.report.stages[i], c.report.stages[i], p)
      /\ status = "regression" =>
           compatible /\ \E i \in D : StageFalls(b.report.stages[i], c.report.stages[i], p)
  BY <1>1, <1>2, <1>3
<1> QED BY <1>4 DEF status, D, compatible

\* The invariant of a comparison: a run in order, unless a policy was refused,
\* and sound sides whose comparison the result is.
CompareInv ==
  /\ pc # "failed" => IInv /\ SavedInv
  /\ kept # None => SoundSide(kept)
  /\ result # None =>
       /\ SoundSide(result.baseline) /\ SoundSide(result.candidate)
       /\ result.policy \in Policies /\ PolicyValid(result.policy)
       /\ result = Comparison(result.baseline, result.candidate, result.policy)

\* The invariant gives the property.
LEMMA ResultEarned ==
  ASSUME SaturationAssumption, ComparisonAssumption, CompareInv
  PROVE  ComparisonEarned
<1> SUFFICES ASSUME result # None
             PROVE  ComparisonEarned
  BY DEF ComparisonEarned
<1> DEFINE b == result.baseline
           c == result.candidate
           p == result.policy
           from == b.report
           to == c.report
           pairs == {<<from.stages[i], to.stages[i]>> :
                       i \in DOMAIN from.stages \cap DOMAIN to.stages}
<1>1. SoundSide(b) /\ SoundSide(c) /\ p \in Policies /\ PolicyValid(p)
      /\ result = Comparison(b, c, p)
  BY DEF CompareInv
<1>2. result.regression <=> result.status = "regression"
  <2> HIDE DEF b, c, p
  <2>1. PICK d, e, g : /\ result = [baseline |-> b, candidate |-> c, policy |-> p,
                                   compared |-> d, status |-> e, regression |-> g]
                       /\ g = (e = "regression")
    BY Zenon, <1>1 DEF Comparison
  <2>2. result.regression = g /\ result.status = e
    BY <2>1
  <2> QED BY Zenon, <2>1, <2>2
<1>3. /\ result.status = "pass" =>
           /\ Compatible(b, c)
           /\ \A i \in DOMAIN from.stages : StageHolds(from.stages[i], to.stages[i], p)
      /\ result.status = "regression" =>
           /\ Compatible(b, c)
           /\ \E i \in DOMAIN from.stages : StageFalls(from.stages[i], to.stages[i], p)
  <2> HIDE DEF b, c, p
  <2> QED BY <1>1, ComparisonTells DEF from, to
<1>4. Compatible(b, c) =>
        /\ \A k \in DOMAIN b.options \ {"verify"} : b.options[k] = c.options[k]
        /\ from.status = "complete" /\ to.status = "complete"
        /\ DOMAIN from.stages = DOMAIN to.stages
  BY <1>1, CompatibleStages
<1> HIDE DEF b, c, p, from, to
<1>5. ASSUME ComparisonExit(result, TRUE) = 0
      PROVE  /\ from.status = "complete" /\ to.status = "complete"
             /\ \A k \in DOMAIN b.options \ {"verify"} : b.options[k] = c.options[k]
             /\ \A s \in pairs : StageHolds(s[1], s[2], p)
  <2>1. result.status = "pass"
    BY <1>5 DEF ComparisonExit
  <2> QED BY <1>3, <1>4, <2>1
<1>6. ASSUME result.regression
      PROVE  \E s \in pairs : StageFalls(s[1], s[2], p)
  <2>1. PICK i \in DOMAIN from.stages : StageFalls(from.stages[i], to.stages[i], p)
    BY <1>2, <1>3, <1>6
  <2>2. <<from.stages[i], to.stages[i]>> \in pairs
    BY <1>2, <1>3, <1>4, <1>6
  <2> QED BY <2>1, <2>2
<1> HIDE DEF pairs
<1> QED BY <1>5, <1>6
        DEF ComparisonEarned, StageHolds, StageFalls, Both, Selected, b, c, p, from, to, pairs

\* The next run begins like the first.
LEMMA FreshRun ==
  ASSUME SaturationAssumption
  PROVE  Init' => (IInv /\ SavedInv)'
<1>1. Init => IInv /\ SavedInv
  BY InitInv DEF Init, SavedInv
<1> QED BY <1>1, PTL

\* Every step keeps the invariant.
LEMMA CompareStep ==
  ASSUME SaturationAssumption, CompareInv, [CompareNext]_compareVars
  PROVE  CompareInv'
<1>1. CASE Next /\ UNCHANGED <<kept, result>>
  <2>1. (pc # "failed" => IInv /\ SavedInv)'
    <3>1. CASE pc = "failed"
      <4>1. pc' = pc
        BY <1>1, <3>1 DEF Next, Refuse, Admit, BatchFails, Report, Damage, Ended, vars,
                          Warmup, Measure
      <4> QED BY <3>1, <4>1
    <3>2. CASE IInv /\ SavedInv
      BY <1>1, <3>2, NextInv, SavedStep
    <3> QED BY <3>1, <3>2 DEF CompareInv
  <2> QED BY <1>1, <2>1 DEF CompareInv
<1>2. ASSUME NEW started \in {0, 2}, KeepRun(started)
      PROVE  CompareInv'
  <2>1. IInv /\ SavedInv /\ pc = "saved"
    BY <1>2 DEF KeepRun, CompareInv
  <2>2. SoundSide(kept')
    BY <1>2, <2>1, SavedSide DEF KeepRun
  <2>3. Init'
    BY <1>2 DEF KeepRun, Init
  <2>4. (IInv /\ SavedInv)'
    BY <2>3, FreshRun
  <2>5. result' = result
    BY <1>2 DEF KeepRun
  <2> QED BY <2>2, <2>4, <2>5 DEF CompareInv
<1>3. ASSUME NEW p \in Policies, CompareRuns(p)
      PROVE  CompareInv'
  <2>1. IInv /\ SavedInv /\ SoundSide(kept) /\ PolicyValid(p) /\ UNCHANGED <<vars, kept>>
    BY <1>3 DEF CompareRuns, CompareInv
  <2>2. SoundSide(Side(1))
    BY <1>3, <2>1, SavedSide DEF CompareRuns
  <2>3. PICK b, c : SoundSide(b) /\ SoundSide(c) /\ result' = Comparison(b, c, p)
    BY <1>3, <2>1, <2>2 DEF CompareRuns
  <2>4. result'.baseline = b /\ result'.candidate = c /\ result'.policy = p
    BY <2>3 DEF Comparison
  <2>5. (IInv /\ SavedInv)'
    <3>1. [Next]_vars
      BY <2>1
    <3> QED BY <2>1, <3>1, NextInv, SavedStep
  <2> QED BY <1>3, <2>1, <2>3, <2>4, <2>5 DEF CompareInv
<1>4. ASSUME NEW p \in Policies, CompareRefused(p)
      PROVE  CompareInv'
  BY <1>4 DEF CompareRefused, CompareInv
<1>5. CASE UNCHANGED compareVars
  <2>1. UNCHANGED vars /\ UNCHANGED <<kept, result>> /\ UNCHANGED pc
    BY <1>5 DEF compareVars, vars
  <2>2. IInv /\ SavedInv => (IInv /\ SavedInv)'
    BY <2>1, NextInv, SavedStep
  <2> QED BY <2>1, <2>2 DEF CompareInv
<1> QED BY <1>1, <1>2, <1>3, <1>4, <1>5 DEF CompareNext

\* The comparison of two saved runs passes only on sufficient evidence that the
\* candidate is not worse, and calls a regression only what both sides show.
THEOREM ComparisonIsEarned ==
  ASSUME SaturationAssumption, ComparisonAssumption
  PROVE  CompareSpec => []ComparisonEarned
<1>1. CompareInit => CompareInv
  BY InitInv DEF CompareInit, CompareInv, Init, SavedInv
<1>2. CompareInv /\ [CompareNext]_compareVars => CompareInv'
  BY CompareStep
<1>3. CompareInv => ComparisonEarned
  BY ResultEarned
<1> QED BY <1>1, <1>2, <1>3, PTL DEF CompareSpec

-----------------------------------------------------------------------------
(* One request of the traffic, for every expectation and any cut of the text. *)

CONSTANTS Letters, Blank, Needles, Pieces, MaxTokens, MaxContent, MaxTime
VARIABLES stream, needle, place, clock, headers, matcher, finish, tokens, ttft, attempt,
          content, ended

Client == INSTANCE Completion WITH pc <- place

-----------------------------------------------------------------------------
(* Seeking a word in a text that arrives letter by letter.                 *)

\* The last k of the letters lo + 1 .. e of the text t are the first k of w.
Ends(w, t, lo, e, k) ==
  /\ k \in Nat /\ k <= Len(w) /\ lo + k <= e
  /\ \A i \in 1..k : t[(e - k) + i] = w[i]

\* And no more of them are.
Longest(w, t, lo, e, m) ==
  /\ Ends(w, t, lo, e, m)
  /\ \A k \in Nat : Ends(w, t, lo, e, k) => k <= m

\* The first l places of a prefix table are right: each holds the length of
\* the longest proper border of the word up to there.
Tabled(w, table, l) ==
  \A j \in 1..l : table[j] \in Nat /\ table[j] < j /\ Longest(w, w, 1, j, table[j])

\* What is shorter than a match ends there too exactly if it is a border of
\* the matched part.
LEMMA Borders ==
  ASSUME NEW w, Len(w) \in Nat, NEW t, NEW lo \in Nat, NEW e \in Nat, NEW j \in Nat,
         NEW k \in Nat, k < j, Ends(w, t, lo, e, j)
  PROVE  Ends(w, t, lo, e, k) <=> Ends(w, w, 1, j, k)
<1>1. k <= Len(w) /\ lo + k <= e /\ 1 + k <= j
  BY DEF Ends
<1>2. ASSUME NEW i \in 1..k
      PROVE  t[(e - k) + i] = w[(j - k) + i]
  <2>1. (j - k) + i \in 1..j /\ (e - j) + ((j - k) + i) = (e - k) + i
    OBVIOUS
  <2>2. t[(e - j) + ((j - k) + i)] = w[(j - k) + i]
    BY <2>1 DEF Ends
  <2> QED BY <2>1, <2>2
<1> QED BY <1>1, <1>2 DEF Ends

Grows(w, t, lo, e, k) ==
  Ends(w, t, lo, e + 1, k + 1) <=> Ends(w, t, lo, e, k) /\ t[e + 1] = w[k + 1]

\* A match grows by the letter that follows, and comes from no other.
LEMMA MatchGrows ==
  ASSUME NEW w, Len(w) \in Nat, NEW t, NEW lo \in Nat, NEW e \in Nat, NEW k \in Nat,
         k + 1 <= Len(w)
  PROVE  Grows(w, t, lo, e, k)
<1>1. ASSUME NEW i \in 1..k
      PROVE  ((e + 1) - (k + 1)) + i = (e - k) + i /\ i \in 1..(k + 1)
  OBVIOUS
<1>2. ((e + 1) - (k + 1)) + (k + 1) = e + 1 /\ k + 1 \in 1..(k + 1) /\ k + 1 \in Nat
  OBVIOUS
<1>3. k <= Len(w) /\ (lo + k <= e <=> lo + (k + 1) <= e + 1)
  OBVIOUS
<1>4. ASSUME Ends(w, t, lo, e + 1, k + 1)
      PROVE  Ends(w, t, lo, e, k) /\ t[e + 1] = w[k + 1]
  <2>1. \A i \in 1..(k + 1) : t[((e + 1) - (k + 1)) + i] = w[i]
    BY <1>4 DEF Ends
  <2>2. t[e + 1] = w[k + 1]
    BY <1>2, <2>1
  <2>3. \A i \in 1..k : t[(e - k) + i] = w[i]
    BY <1>1, <2>1
  <2> QED BY <1>3, <1>4, <2>2, <2>3 DEF Ends
<1>5. ASSUME Ends(w, t, lo, e, k), t[e + 1] = w[k + 1]
      PROVE  Ends(w, t, lo, e + 1, k + 1)
  <2>1. ASSUME NEW i \in 1..(k + 1)
        PROVE  t[((e + 1) - (k + 1)) + i] = w[i]
    <3>1. CASE i = k + 1
      BY <1>2, <1>5, <3>1
    <3>2. CASE i \in 1..k
      <4>1. t[(e - k) + i] = w[i]
        BY <1>5, <3>2 DEF Ends
      <4> QED BY <1>1, <3>2, <4>1
    <3> QED BY <3>1, <3>2
  <2> QED BY <1>2, <1>3, <1>5, <2>1 DEF Ends
<1> QED BY <1>4, <1>5 DEF Grows

BackStep(w, table, letter, f, k) == IF k = 0 \/ w[k + 1] = letter THEN k ELSE f[table[k]]
BackFunction(w, table, m, letter, f) == [k \in 0..m |-> BackStep(w, table, letter, f, k)]

\* The function by which the fallback is defined exists: the table leads down.
LEMMA BackExists ==
  ASSUME NEW w, NEW table, NEW letter, NEW m \in Nat,
         \A k \in 1..m : table[k] \in Nat /\ table[k] < k
  PROVE  \E f : f = BackFunction(w, table, m, letter, f)
<1> DEFINE Value(f, k) == BackStep(w, table, letter, f, k)
           Upto(n) == \E f : \A k \in 0..m : k <= n => f[k] = Value(f, k)
           N == {n \in Nat : Upto(n)}
<1>1. 0 \in N
  <2> DEFINE f == [k \in 0..m |-> 0]
  <2>1. \A k \in 0..m : k <= 0 => f[k] = Value(f, k)
    BY DEF BackStep
  <2> QED BY <2>1
<1>2. ASSUME NEW n \in Nat, n \in N
      PROVE  n + 1 \in N
  <2>1. PICK f : \A k \in 0..m : k <= n => f[k] = Value(f, k)
    BY <1>2
  <2> DEFINE g == [k \in 0..m |-> IF k = n + 1 THEN Value(f, k) ELSE f[k]]
  <2>2. ASSUME NEW k \in 0..m, k <= n + 1
        PROVE  g[k] = Value(g, k)
    <3>1. g[k] = Value(f, k)
      <4> HIDE DEF Value
      <4> QED BY <2>1, <2>2
    <3>2. CASE k = 0
      BY <3>1, <3>2 DEF BackStep
    <3>3. CASE k # 0
      <4>1. k \in 1..m
        BY <3>3
      <4>2. table[k] \in 0..m /\ table[k] # n + 1
        BY <2>2, <4>1
      <4>3. g[table[k]] = f[table[k]]
        <5> HIDE DEF Value
        <5> QED BY <4>2
      <4> HIDE DEF g
      <4> QED BY <3>1, <4>3 DEF BackStep
    <3> QED BY <3>2, <3>3
  <2>3. Upto(n + 1)
    <3> HIDE DEF Value, g
    <3> QED BY <2>2
  <2> HIDE DEF Upto
  <2> QED BY <2>3
<1>3. m \in N
  <2> HIDE DEF N
  <2> QED BY <1>1, <1>2, SetInduction
<1>4. PICK f : \A k \in 0..m : f[k] = Value(f, k)
  <2> HIDE DEF Value
  <2> QED BY <1>3
<1> DEFINE g == [k \in 0..m |-> f[k]]
<1>5. ASSUME NEW k \in 0..m
      PROVE  g[k] = Value(g, k)
  <2>1. g[k] = Value(f, k)
    <3> HIDE DEF Value
    <3> QED BY <1>4
  <2>2. k # 0 => g[table[k]] = f[table[k]]
    <3> HIDE DEF Value
    <3> QED OBVIOUS
  <2> HIDE DEF g
  <2> QED BY <2>1, <2>2 DEF BackStep
<1>6. g = [k \in 0..m |-> Value(g, k)]
  <2> DEFINE h == [k \in 0..m |-> Value(g, k)]
  <2>1. \A k \in 0..m : g[k] = h[k]
    <3> HIDE DEF Value, g
    <3> QED BY <1>5
  <2> HIDE DEF Value
  <2> QED BY <2>1
<1>7. g = BackFunction(w, table, m, letter, g)
  BY <1>6 DEF BackFunction
<1> HIDE DEF g
<1> QED BY <1>7

\* A match j that falls back to r: the longest one that the letter extends.
FallsTo(w, t, lo, e, letter, j, r) ==
  /\ Ends(w, t, lo, e, r) /\ r <= j
  /\ r = 0 \/ w[r + 1] = letter
  /\ \A k \in Nat : k <= j /\ Ends(w, t, lo, e, k) /\ w[k + 1] = letter => k <= r

\* The fallback of OutputMatcher finds it.
LEMMA FallbackFacts ==
  ASSUME NEW w, Len(w) \in Nat, NEW t, NEW lo \in Nat, NEW e \in Nat, NEW letter, NEW table,
         NEW m \in Nat, Tabled(w, table, m), Ends(w, t, lo, e, m)
  PROVE  FallsTo(w, t, lo, e, letter, m, Client!Fallback(w, table, m, letter))
<1> DEFINE f == CHOOSE g : g = BackFunction(w, table, m, letter, g)
<1>1. \A k \in 1..m : table[k] \in Nat /\ table[k] < k
  BY DEF Tabled
<1>2. f = BackFunction(w, table, m, letter, f)
  BY <1>1, BackExists
<1>3. Client!Fallback(w, table, m, letter) = f[m]
  BY DEF Client!Fallback, BackFunction, BackStep
<1> HIDE DEF f
<1>4. \A k \in 0..m : f[k] = BackStep(w, table, letter, f, k)
  BY <1>2 DEF BackFunction
<1> DEFINE Good(j) == Ends(w, t, lo, e, j) => FallsTo(w, t, lo, e, letter, j, f[j])
           N == {n \in Nat : \A j \in 0..m : j <= n => Good(j)}
<1>5. ASSUME NEW j \in 0..m, j = 0 \/ w[j + 1] = letter
      PROVE  Good(j)
  <2>1. f[j] = j
    BY <1>4, <1>5 DEF BackStep
  <2> QED BY <1>5, <2>1 DEF FallsTo
<1>6. ASSUME NEW j \in 0..m, j # 0, w[j + 1] # letter, Good(table[j])
      PROVE  Good(j)
  <2> SUFFICES ASSUME Ends(w, t, lo, e, j)
               PROVE  FallsTo(w, t, lo, e, letter, j, f[j])
    OBVIOUS
  <2>1. f[j] = f[table[j]]
    BY <1>4, <1>6 DEF BackStep
  <2>2. table[j] \in Nat /\ table[j] < j /\ Longest(w, w, 1, j, table[j])
    <3>1. j \in 1..m
      BY <1>6
    <3> QED BY <3>1 DEF Tabled
  <2>3. Ends(w, t, lo, e, table[j])
    BY <2>2, Borders DEF Longest
  <2>4. FallsTo(w, t, lo, e, letter, table[j], f[j])
    BY <1>6, <2>1, <2>3
  <2>5. ASSUME NEW k \in Nat, k <= j, Ends(w, t, lo, e, k), w[k + 1] = letter
        PROVE  k <= f[j]
    <3>1. k < j
      BY <1>6, <2>5
    <3>2. Ends(w, w, 1, j, k)
      BY <2>5, <3>1, Borders
    <3>3. k <= table[j]
      BY <2>2, <3>2 DEF Longest
    <3> QED BY <2>4, <2>5, <3>3 DEF FallsTo
  <2>6. f[j] \in Nat /\ f[j] <= table[j]
    BY <2>4 DEF FallsTo, Ends
  <2>7. f[j] <= j
    BY <2>2, <2>6
  <2> QED BY <2>4, <2>5, <2>7 DEF FallsTo
<1>7. 0 \in N
  <2>1. Good(0)
    <3> HIDE DEF Good
    <3> QED BY <1>5
  <2> HIDE DEF Good
  <2> QED BY <2>1
<1>8. ASSUME NEW n \in Nat, n \in N
      PROVE  n + 1 \in N
  <2>1. ASSUME NEW j \in 0..m, j <= n + 1
        PROVE  Good(j)
    <3>1. CASE j = 0 \/ w[j + 1] = letter
      <4> HIDE DEF Good
      <4> QED BY <1>5, <3>1
    <3>2. CASE j # 0 /\ w[j + 1] # letter
      <4>1. table[j] \in 0..m /\ table[j] <= n
        BY <1>1, <2>1, <3>2
      <4>2. Good(table[j])
        <5> HIDE DEF Good
        <5> QED BY <1>8, <4>1
      <4> HIDE DEF Good
      <4> QED BY <1>6, <3>2, <4>2
    <3> QED BY <3>1, <3>2
  <2> HIDE DEF Good
  <2> QED BY <2>1
<1>9. m \in N
  <2> HIDE DEF N
  <2> QED BY <1>7, <1>8, SetInduction
<1>10. Good(m)
  <2> HIDE DEF Good
  <2> QED BY <1>9
<1> QED BY <1>3, <1>10

\* One letter more: what is matched stays the longest match.
LEMMA AdvanceFacts ==
  ASSUME NEW w, Len(w) \in Nat, NEW t, NEW lo \in Nat, NEW e \in Nat, NEW letter, NEW table,
         NEW m \in Nat, Tabled(w, table, m), Longest(w, t, lo, e, m), m < Len(w),
         t[e + 1] = letter
  PROVE  Longest(w, t, lo, e + 1, Client!Advance(w, table, m, letter))
<1> DEFINE r == Client!Fallback(w, table, m, letter)
<1>1. FallsTo(w, t, lo, e, letter, m, r)
  BY FallbackFacts DEF Longest
<1>2. Client!Advance(w, table, m, letter) = IF w[r + 1] = letter THEN r + 1 ELSE r
  BY DEF Client!Advance
<1> HIDE DEF r
<1>3. r \in Nat /\ r <= m /\ Ends(w, t, lo, e, r) /\ lo + r <= e
  BY <1>1 DEF FallsTo, Ends
<1>4. ASSUME NEW k \in Nat, k # 0, Ends(w, t, lo, e + 1, k)
      PROVE  k - 1 <= r /\ w[k] = letter
  <2>1. PICK j \in Nat : k = j + 1
    BY <1>4, k - 1 \in Nat
  <2>2. j + 1 <= Len(w)
    BY <1>4, <2>1 DEF Ends
  <2>3. Ends(w, t, lo, e + 1, j + 1)
    BY <1>4, <2>1
  <2>4. Ends(w, t, lo, e, j) /\ t[e + 1] = w[j + 1]
    <3>1. Grows(w, t, lo, e, j)
      BY <2>2, MatchGrows
    <3> QED BY <2>3, <3>1 DEF Grows
  <2>5. j <= m
    BY <2>4 DEF Longest
  <2>6. j <= r
    BY <1>1, <2>4, <2>5 DEF FallsTo
  <2> QED BY <2>1, <2>4, <2>6
<1>5. CASE w[r + 1] = letter
  <2>1. Ends(w, t, lo, e + 1, r + 1)
    <3>1. r + 1 <= Len(w)
      BY <1>3
    <3>2. Grows(w, t, lo, e, r)
      BY <1>3, <3>1, MatchGrows
    <3> QED BY <1>3, <1>5, <3>2 DEF Grows
  <2>2. \A k \in Nat : Ends(w, t, lo, e + 1, k) => k <= r + 1
    BY <1>3, <1>4
  <2> QED BY <1>2, <1>5, <2>1, <2>2 DEF Longest
<1>6. CASE w[r + 1] # letter
  <2>1. r = 0
    BY <1>1, <1>6 DEF FallsTo
  <2>2. Ends(w, t, lo, e + 1, 0)
    BY <1>3 DEF Ends
  <2>3. ASSUME NEW k \in Nat, Ends(w, t, lo, e + 1, k)
        PROVE  k <= 0
    <3>1. CASE k # 0
      <4>1. k = 1 /\ w[k] = letter /\ r + 1 = 1
        BY <1>4, <2>1, <2>3, <3>1
      <4> QED BY <1>6, <4>1
    <3> QED BY <3>1
  <2> QED BY <1>2, <1>6, <2>1, <2>2, <2>3 DEF Longest
<1> QED BY <1>5, <1>6

Leads(n, V, F) == \A i \in 1..n : F[i] \in [V[i - 1] -> V[i]]
IsRun(n, V, F, first, f) ==
  f[0] = first /\ \A i \in 1..n : f[i - 1] \in V[i - 1] /\ f[i] = F[i][f[i - 1]]

\* A recursion that takes a state of each of the sets V[0], .., V[n] to one of
\* the next has a run.
LEMMA RunExists ==
  ASSUME NEW n \in Nat, NEW V, NEW F, NEW first, first \in V[0], Leads(n, V, F)
  PROVE  \E f : IsRun(n, V, F, first, f)
<1> DEFINE Run(f, k) == /\ f[0] = first
                        /\ \A i \in 1..n : i <= k => f[i] = F[i][f[i - 1]]
                        /\ \A i \in 0..n : i <= k => f[i] \in V[i]
           N == {k \in Nat : \E f : Run(f, k)}
<1>1. 0 \in N
  <2> DEFINE f == [i \in 0..n |-> first]
  <2>1. Run(f, 0)
    OBVIOUS
  <2> QED BY <2>1
<1>2. ASSUME NEW k \in Nat, k \in N
      PROVE  k + 1 \in N
  <2>1. PICK f : Run(f, k)
    BY <1>2
  <2> DEFINE g == [i \in 0..n |-> IF i = k + 1 THEN F[i][f[i - 1]] ELSE f[i]]
  <2>2. g[0] = first
    BY <2>1
  <2>3. \A i \in 0..n : i # k + 1 => g[i] = f[i]
    <3> HIDE DEF Run
    <3> QED OBVIOUS
  <2>4. ASSUME NEW i \in 1..n, i = k + 1
        PROVE  g[i] = F[i][f[i - 1]] /\ g[i - 1] = f[i - 1] /\ g[i] \in V[i]
    <3>1. g[i] = F[i][f[i - 1]] /\ g[i - 1] = f[i - 1]
      BY <2>4
    <3>2. i - 1 \in 0..n /\ i - 1 <= k
      BY <2>4
    <3>3. f[i - 1] \in V[i - 1]
      BY <2>1, <3>2
    <3>4. F[i] \in [V[i - 1] -> V[i]]
      BY DEF Leads
    <3> HIDE DEF g, Run
    <3> QED BY <3>1, <3>3, <3>4
  <2> HIDE DEF g
  <2>5. ASSUME NEW i \in 1..n, i <= k + 1
        PROVE  g[i] = F[i][g[i - 1]]
    <3>1. CASE i = k + 1
      BY <2>4, <3>1
    <3>2. CASE i # k + 1
      <4>1. i \in 0..n /\ i - 1 \in 0..n /\ i - 1 # k + 1 /\ i <= k
        BY <2>5, <3>2
      <4>2. g[i] = f[i] /\ g[i - 1] = f[i - 1]
        BY <2>3, <3>2, <4>1
      <4> QED BY <2>1, <4>1, <4>2
    <3> QED BY <3>1, <3>2
  <2>6. ASSUME NEW i \in 0..n, i <= k + 1
        PROVE  g[i] \in V[i]
    <3>1. CASE i = k + 1
      BY <2>4, <3>1
    <3>2. CASE i # k + 1
      BY <2>1, <2>3, <2>6, <3>2
    <3> QED BY <3>1, <3>2
  <2>7. Run(g, k + 1)
    BY <2>2, <2>5, <2>6
  <2> HIDE DEF Run
  <2> QED BY <2>7
<1>3. n \in N
  <2> HIDE DEF N
  <2> QED BY <1>1, <1>2, SetInduction
<1>4. PICK f : Run(f, n)
  BY <1>3
<1>5. ASSUME NEW i \in 1..n
      PROVE  f[i - 1] \in V[i - 1] /\ f[i] = F[i][f[i - 1]]
  <2>1. i - 1 \in 0..n /\ i - 1 <= n /\ i <= n
    OBVIOUS
  <2> QED BY <1>4, <2>1
<1>6. f[0] = first
  BY <1>4
<1> QED BY <1>5, <1>6 DEF IsRun

\* Every run of it stays within the sets.
LEMMA RunKeeps ==
  ASSUME NEW n \in Nat, NEW V, NEW f, f[0] \in V[0],
         \A i \in 1..n : f[i - 1] \in V[i - 1] => f[i] \in V[i]
  PROVE  f[n] \in V[n]
<1> DEFINE N == {k \in Nat : k <= n => f[k] \in V[k]}
<1>1. 0 \in N
  OBVIOUS
<1>2. ASSUME NEW k \in Nat, k \in N
      PROVE  k + 1 \in N
  <2>1. CASE k + 1 <= n
    <3>1. k + 1 \in 1..n /\ (k + 1) - 1 = k /\ f[k] \in V[k]
      BY <1>2, <2>1
    <3> QED BY <3>1
  <2>2. CASE ~(k + 1 <= n)
    BY <2>2
  <2> QED BY <2>1, <2>2
<1>3. n \in N
  <2> HIDE DEF N
  <2> QED BY <1>1, <1>2, SetInduction
<1> QED BY <1>3

\* Prefix tables of the first l places, all right.
Tables(w, l) == {table \in Seq(Nat) : Len(table) = l /\ Tabled(w, table, l)}

\* prefix_table extends a right table to a right table.
LEMMA ExtendFacts ==
  ASSUME NEW w, Len(w) \in Nat, NEW i \in Nat, 1 < i, i <= Len(w),
         NEW table \in Tables(w, i - 1)
  PROVE  Client!Extend(w, table, i) \in Tables(w, i)
<1> DEFINE m == table[i - 1]
           r == Client!Advance(w, table, m, w[i])
<1>1. table \in Seq(Nat) /\ Len(table) = i - 1 /\ Tabled(w, table, i - 1)
  BY DEF Tables
<1>2. PICK e \in Nat : i = e + 1 /\ e \in 1..(i - 1) /\ i - 1 = e
  BY i - 1 \in Nat
<1>3. m \in Nat /\ m < e /\ Longest(w, w, 1, e, m)
  BY <1>1, <1>2 DEF Tabled
<1>4. Tabled(w, table, m)
  BY <1>1, <1>2, <1>3 DEF Tabled
<1>5. Longest(w, w, 1, e + 1, r)
  <2>1. m < Len(w) /\ w[e + 1] = w[i]
    BY <1>2, <1>3
  <2> HIDE DEF m
  <2> QED BY <1>3, <1>4, <2>1, AdvanceFacts
<1>6. Client!Extend(w, table, i) = Append(table, r)
  BY DEF Client!Extend
<1> HIDE DEF r, m
<1>7. r \in Nat /\ r < i /\ Longest(w, w, 1, i, r)
  BY <1>2, <1>5 DEF Longest, Ends
<1> DEFINE longer == Append(table, r)
<1>8. /\ longer \in Seq(Nat) /\ Len(longer) = i /\ longer[i] = r
      /\ \A j \in 1..(i - 1) : longer[j] = table[j]
  <2>1. (i - 1) + 1 = i
    OBVIOUS
  <2> QED BY <1>1, <1>7, <2>1, AppendProperties
<1> HIDE DEF longer
<1>9. ASSUME NEW j \in 1..i
      PROVE  longer[j] \in Nat /\ longer[j] < j /\ Longest(w, w, 1, j, longer[j])
  <2>1. CASE j = i
    BY <1>7, <1>8, <2>1
  <2>2. CASE j # i
    <3>1. j \in 1..(i - 1)
      BY <2>2
    <3>2. table[j] \in Nat /\ table[j] < j /\ Longest(w, w, 1, j, table[j])
      BY <1>1, <3>1 DEF Tabled
    <3> QED BY <1>8, <3>1, <3>2
  <2> QED BY <2>1, <2>2
<1>10. longer \in Tables(w, i)
  BY <1>8, <1>9 DEF Tables, Tabled
<1> QED BY <1>6, <1>10 DEF longer

TableStep(w, g, i) == IF i = 1 THEN <<0>> ELSE Client!Extend(w, g[i - 1], i)
TableFunction(w, g) == [i \in 1..Len(w) |-> TableStep(w, g, i)]

\* The prefix table of a word is right: the function it is defined by exists,
\* and so does each of its steps.
LEMMA PrefixTableFacts ==
  ASSUME NEW w, Len(w) \in Nat, Len(w) # 0
  PROVE  Tabled(w, Client!PrefixTable(w), Len(w))
<1> DEFINE n == Len(w) - 1
           V == [i \in 0..n |-> Tables(w, i + 1)]
           F == [i \in 1..n |-> [table \in Tables(w, i) |-> Client!Extend(w, table, i + 1)]]
<1>1. n \in Nat /\ n + 1 = Len(w)
  OBVIOUS
<1>2. <<0>> \in Tables(w, 1)
  <2> DEFINE first == <<0>>
  <2>1. first \in Seq(Nat) /\ Len(first) = 1 /\ first[1] = 0
    OBVIOUS
  <2>2. Longest(w, w, 1, 1, 0)
    BY DEF Longest, Ends
  <2> HIDE DEF first
  <2>3. \A j \in 1..1 : j = 1
    OBVIOUS
  <2>4. Tabled(w, first, 1)
    BY <2>1, <2>2, <2>3 DEF Tabled
  <2>5. first \in Tables(w, 1)
    BY <2>1, <2>4 DEF Tables
  <2> QED BY <2>5 DEF first
<1>3. ASSUME NEW i \in Nat, 1 < i, i <= Len(w), NEW table \in Tables(w, i - 1)
      PROVE  Client!Extend(w, table, i) \in Tables(w, i)
  BY <1>3, ExtendFacts
<1>4. \E f : f[0] = <<0>> /\ \A i \in 1..n : f[i - 1] \in V[i - 1] /\ f[i] = F[i][f[i - 1]]
  <2>1. <<0>> \in V[0]
    BY <1>1, <1>2
  <2>2. ASSUME NEW i \in 1..n
        PROVE  F[i] \in [V[i - 1] -> V[i]]
    <3>1. V[i - 1] = Tables(w, i) /\ V[i] = Tables(w, i + 1)
      BY <1>1
    <3>2. F[i] = [table \in Tables(w, i) |-> Client!Extend(w, table, i + 1)]
      OBVIOUS
    <3>3. ASSUME NEW table \in Tables(w, i)
          PROVE  Client!Extend(w, table, i + 1) \in Tables(w, i + 1)
      <4>1. i + 1 \in Nat /\ 1 < i + 1 /\ i + 1 <= Len(w) /\ (i + 1) - 1 = i
        BY <1>1
      <4> QED BY <1>3, <4>1
    <3> HIDE DEF V, F
    <3> QED BY <3>1, <3>2, <3>3
  <2> DEFINE first == <<0>>
  <2> HIDE DEF V, F, n, first
  <2>3. first \in V[0]
    BY <2>1 DEF first
  <2>4. Leads(n, V, F)
    BY <2>2 DEF Leads
  <2>5. \E f : IsRun(n, V, F, first, f)
    BY <1>1, <2>3, <2>4, RunExists
  <2> QED BY <2>5 DEF first, IsRun
<1>5. PICK f : /\ f[0] = <<0>>
               /\ \A i \in 1..n : f[i - 1] \in V[i - 1] /\ f[i] = F[i][f[i - 1]]
  BY <1>4
<1>6. ASSUME NEW i \in 1..n
      PROVE  f[i] = Client!Extend(w, f[i - 1], i + 1)
  <2>1. f[i - 1] \in Tables(w, i) /\ f[i] = F[i][f[i - 1]]
    <3>1. V[i - 1] = Tables(w, i)
      OBVIOUS
    <3> HIDE DEF V, F
    <3> QED BY <1>5, <3>1
  <2>2. F[i] = [table \in Tables(w, i) |-> Client!Extend(w, table, i + 1)]
    OBVIOUS
  <2> HIDE DEF F, V
  <2> QED BY <2>1, <2>2
<1> DEFINE g == [i \in 1..Len(w) |-> f[i - 1]]
<1>7. ASSUME NEW i \in 1..Len(w)
      PROVE  g[i] = TableStep(w, g, i)
  <2> HIDE DEF V, F
  <2>1. CASE i = 1
    BY <1>5, <2>1 DEF TableStep
  <2>2. CASE i # 1
    <3>1. i - 1 \in 1..n /\ (i - 1) + 1 = i /\ i - 1 \in 1..Len(w)
      BY <2>2
    <3>2. g[i] = f[i - 1] /\ g[i - 1] = f[(i - 1) - 1]
      BY <3>1
    <3>3. f[i - 1] = Client!Extend(w, f[(i - 1) - 1], i)
      BY <1>6, <3>1
    <3> HIDE DEF g, n
    <3> QED BY <2>2, <3>2, <3>3 DEF TableStep
  <2> QED BY <2>1, <2>2
<1>8. g = TableFunction(w, g)
  <2> DEFINE h == TableFunction(w, g)
  <2>1. \A i \in 1..Len(w) : h[i] = TableStep(w, g, i)
    BY DEF TableFunction
  <2>2. h = [i \in 1..Len(w) |-> h[i]]
    BY DEF TableFunction
  <2>3. g = [i \in 1..Len(w) |-> g[i]]
    OBVIOUS
  <2> HIDE DEF g, h, V, F, n
  <2>4. \A i \in 1..Len(w) : g[i] = h[i]
    BY <1>7, <2>1
  <2>5. g = h
    BY <2>2, <2>3, <2>4
  <2> QED BY <2>5 DEF h
<1> DEFINE c == CHOOSE t : t = TableFunction(w, t)
<1>9. c = TableFunction(w, c)
  <2> HIDE DEF g
  <2> QED BY <1>8
<1>10. Client!PrefixTable(w) = c[Len(w)]
  BY DEF Client!PrefixTable, TableFunction, TableStep
<1> HIDE DEF c, g, V, F
<1>11. \A i \in 1..Len(w) : c[i] = TableStep(w, c, i)
  BY <1>9 DEF TableFunction
<1> DEFINE T == [i \in 0..n |-> Tables(w, i + 1)]
           d == [i \in 0..n |-> c[i + 1]]
<1>12. d[0] \in T[0]
  <2>1. d[0] = c[1] /\ T[0] = Tables(w, 1)
    BY <1>1
  <2>2. c[1] = <<0>>
    BY <1>1, <1>11 DEF TableStep
  <2> HIDE DEF d, T
  <2> QED BY <1>2, <2>1, <2>2
<1>13. ASSUME NEW i \in 1..n, d[i - 1] \in T[i - 1]
       PROVE  d[i] \in T[i]
  <2>1. d[i - 1] = c[i] /\ T[i - 1] = Tables(w, i) /\ d[i] = c[i + 1] /\ T[i] = Tables(w, i + 1)
    BY <1>1
  <2>2. /\ i + 1 \in 1..Len(w) /\ i + 1 # 1 /\ i + 1 \in Nat /\ 1 < i + 1 /\ i + 1 <= Len(w)
        /\ (i + 1) - 1 = i
    BY <1>1
  <2> HIDE DEF d, T, n
  <2>3. c[i] \in Tables(w, i)
    BY <1>13, <2>1
  <2>4. c[i + 1] = Client!Extend(w, c[i], i + 1)
    BY <1>11, <2>2 DEF TableStep
  <2> QED BY <1>3, <2>1, <2>2, <2>3, <2>4
<1>14. d[n] \in T[n]
  <2> HIDE DEF d, T, n
  <2> QED BY <1>1, <1>12, <1>13, RunKeeps
<1>15. c[Len(w)] \in Tables(w, Len(w))
  <2>1. d[n] = c[Len(w)] /\ T[n] = Tables(w, Len(w))
    BY <1>1
  <2> HIDE DEF d, T, n
  <2> QED BY <1>14, <2>1
<1> QED BY <1>10, <1>15 DEF Tables

-----------------------------------------------------------------------------
(* The matcher.                                                            *)

\* The word occurs in the first e letters of the text.
Occurs(w, t, e) == \E x \in 0..e : Ends(w, t, 0, x, Len(w))

\* The matchers that are right after e letters of the text.
Matchers(w, t, e, nb) ==
  {m \in [matched : Nat, nonBlank : BOOLEAN, met : {None} \cup BOOLEAN] :
     /\ m.nonBlank = nb
     /\ w = None => m.met = None
     /\ w # None => /\ m.met # None
                    /\ m.met = TRUE <=> Occurs(w, t, e)
                    /\ m.met = FALSE => Longest(w, t, 0, e, m.matched) /\ m.matched < Len(w)}

\* push keeps a matcher right, letter by letter.
LEMMA PushLetterFacts ==
  ASSUME None \notin BOOLEAN, NEW t, NEW e \in Nat, NEW nb \in BOOLEAN,
         needle # None => Len(needle) \in Nat /\ Len(needle) # 0,
         NEW m \in Matchers(needle, t, e, nb)
  PROVE  Client!PushLetter(m, t[e + 1]) \in Matchers(needle, t, e + 1, nb)
<1> DEFINE r == Client!Advance(needle, Client!PrefixTable(needle), m.matched, t[e + 1])
           new == Client!PushLetter(m, t[e + 1])
<1>1. /\ m \in [matched : Nat, nonBlank : BOOLEAN, met : {None} \cup BOOLEAN]
      /\ m.nonBlank = nb
      /\ needle = None => m.met = None
      /\ needle # None => m.met # None /\ (m.met = TRUE <=> Occurs(needle, t, e))
      /\ needle # None /\ m.met = FALSE =>
           Longest(needle, t, 0, e, m.matched) /\ m.matched < Len(needle)
  BY DEF Matchers
<1>2. new = IF m.met # FALSE THEN m
            ELSE [m EXCEPT !.matched = r, !.met = (r = Len(needle))]
  BY DEF Client!PushLetter
<1> HIDE DEF new, r
<1>3. Occurs(needle, t, e) => Occurs(needle, t, e + 1)
  BY DEF Occurs
<1>4. CASE m.met # FALSE
  <2>1. new = m
    BY <1>2, <1>4
  <2>2. needle # None => m.met = TRUE
    BY <1>1, <1>4
  <2>3. m \in Matchers(needle, t, e + 1, nb)
    BY <1>1, <1>3, <1>4, <2>2 DEF Matchers
  <2> QED BY <2>1, <2>3 DEF new
<1>5. CASE m.met = FALSE
  <2>1. needle # None
    BY <1>1, <1>5
  <2>2. m.matched \in Nat /\ Longest(needle, t, 0, e, m.matched) /\ m.matched < Len(needle)
    BY <1>1, <1>5, <2>1
  <2>3. Tabled(needle, Client!PrefixTable(needle), m.matched)
    <3>1. Tabled(needle, Client!PrefixTable(needle), Len(needle))
      BY <2>1, PrefixTableFacts
    <3> QED BY <2>1, <2>2, <3>1 DEF Tabled
  <2>4. Longest(needle, t, 0, e + 1, r)
    BY <2>1, <2>2, <2>3, AdvanceFacts DEF r
  <2>5. r \in Nat /\ r <= Len(needle) /\ Ends(needle, t, 0, e + 1, r)
    BY <2>4 DEF Longest, Ends
  <2>6. new = [matched |-> r, nonBlank |-> nb, met |-> (r = Len(needle))]
    BY <1>1, <1>2, <1>5
  <2>7. ~Occurs(needle, t, e)
    BY <1>1, <1>5, <2>1
  <2>8. r = Len(needle) <=> Occurs(needle, t, e + 1)
    <3>1. ASSUME r = Len(needle)
          PROVE  Occurs(needle, t, e + 1)
      BY <2>5, <3>1 DEF Occurs
    <3>2. ASSUME Occurs(needle, t, e + 1)
          PROVE  r = Len(needle)
      <4>1. PICK x \in 0..(e + 1) : Ends(needle, t, 0, x, Len(needle))
        BY <3>2 DEF Occurs
      <4>2. x = e + 1
        BY <2>7, <4>1 DEF Occurs
      <4>3. Len(needle) <= r
        BY <2>1, <2>4, <4>1, <4>2 DEF Longest
      <4> QED BY <2>1, <2>5, <4>3
    <3> QED BY <3>1, <3>2
  <2>9. CASE r = Len(needle)
    <3> DEFINE k == [matched |-> r, nonBlank |-> nb, met |-> TRUE]
    <3>1. new = k
      BY <2>6, <2>9
    <3>2. k.met = TRUE /\ k.matched = r /\ k.nonBlank = nb
      OBVIOUS
    <3>3. k \in [matched : Nat, nonBlank : BOOLEAN, met : {None} \cup BOOLEAN]
      BY <2>5
    <3> HIDE DEF k
    <3> QED BY <2>1, <2>8, <2>9, <3>1, <3>2, <3>3 DEF Matchers, new
  <2>10. CASE r # Len(needle)
    <3> DEFINE k == [matched |-> r, nonBlank |-> nb, met |-> FALSE]
    <3>1. new = k
      BY <2>6, <2>10
    <3>2. k.met = FALSE /\ k.matched = r /\ k.nonBlank = nb
      OBVIOUS
    <3>3. k \in [matched : Nat, nonBlank : BOOLEAN, met : {None} \cup BOOLEAN]
      BY <2>5
    <3> HIDE DEF k
    <3>4. r < Len(needle)
      BY <2>1, <2>5, <2>10
    <3> QED BY <2>1, <2>4, <2>8, <2>10, <3>1, <3>2, <3>3, <3>4 DEF Matchers, new
  <2> QED BY <2>9, <2>10
<1> QED BY <1>4, <1>5 DEF new

\* What the matcher knows depends on the letters that arrived, no others.
LEMMA SameLetters ==
  ASSUME NEW w, NEW t, NEW u, NEW e \in Nat, \A i \in 1..e : t[i] = u[i], NEW nb,
         w # None => Len(w) \in Nat, NEW m \in Matchers(w, t, e, nb)
  PROVE  m \in Matchers(w, u, e, nb)
<1>1. ASSUME NEW x \in 0..e, NEW k \in Nat
      PROVE  Ends(w, t, 0, x, k) <=> Ends(w, u, 0, x, k)
  <2>1. ASSUME k <= x, NEW i \in 1..k
        PROVE  t[(x - k) + i] = u[(x - k) + i]
    <3>1. (x - k) + i \in 1..e
      BY <2>1
    <3> QED BY <3>1
  <2> QED BY <2>1 DEF Ends
<1>2. w # None => (Occurs(w, t, e) <=> Occurs(w, u, e))
  BY <1>1 DEF Occurs
<1>3. ASSUME Longest(w, t, 0, e, m.matched)
      PROVE  Longest(w, u, 0, e, m.matched)
  <2>1. e \in 0..e /\ m.matched \in Nat
    BY <1>3 DEF Longest, Ends
  <2> QED BY <1>1, <1>3, <2>1 DEF Longest
<1> QED BY <1>2, <1>3 DEF Matchers

PushStart(m, piece) == [m EXCEPT !.nonBlank = @ \/ \E k \in DOMAIN piece : piece[k] # Blank]
PushStep(m, piece, g, i) ==
  IF i = 0 THEN PushStart(m, piece) ELSE Client!PushLetter(g[i - 1], piece[i])
PushFunction(m, piece, g) == [i \in 0..Len(piece) |-> PushStep(m, piece, g, i)]

\* push keeps a matcher right for every piece of text.
LEMMA PushFacts ==
  ASSUME None \notin BOOLEAN, NEW text \in Seq(Letters), NEW piece \in Seq(Letters),
         NEW nb \in BOOLEAN, NEW now \in BOOLEAN,
         now <=> nb \/ \E k \in DOMAIN piece : piece[k] # Blank,
         needle # None => Len(needle) \in Nat /\ Len(needle) # 0,
         NEW m \in Matchers(needle, text, Len(text), nb)
  PROVE  Client!Push(m, piece) \in Matchers(needle, text \o piece, Len(text \o piece), now)
<1> DEFINE t == text \o piece
           e == Len(text)
           n == Len(piece)
           first == [m EXCEPT !.nonBlank = now]
           V == [i \in 0..n |-> Matchers(needle, t, e + i, now)]
           F == [i \in 1..n |-> [x \in Matchers(needle, t, e + (i - 1), now) |->
                                   Client!PushLetter(x, piece[i])]]
<1>1. /\ n \in Nat /\ e \in Nat /\ Len(t) = e + n
      /\ \A i \in 1..e : text[i] = t[i]
      /\ \A i \in 1..n : t[(e + (i - 1)) + 1] = piece[i]
  <2>1. Len(t) = e + n /\ \A i \in 1..(e + n) : t[i] = IF i <= e THEN text[i] ELSE piece[i - e]
    BY ConcatProperties
  <2>2. n \in Nat /\ e \in Nat
    BY LenProperties
  <2> HIDE DEF t, n, e
  <2>3. ASSUME NEW i \in 1..e
        PROVE  i \in 1..(e + n) /\ i <= e
    BY <2>2
  <2>4. ASSUME NEW i \in 1..n
        PROVE  /\ (e + (i - 1)) + 1 \in 1..(e + n) /\ ~((e + (i - 1)) + 1 <= e)
               /\ ((e + (i - 1)) + 1) - e = i
    BY <2>2
  <2> QED BY <2>1, <2>2, <2>3, <2>4
<1> HIDE DEF t, e, n
<1>2. first = PushStart(m, piece)
  <2>1. m.nonBlank = nb
    BY DEF Matchers
  <2>2. now = (m.nonBlank \/ \E k \in DOMAIN piece : piece[k] # Blank)
    BY <2>1
  <2> QED BY <2>2 DEF PushStart
<1>3. first \in Matchers(needle, t, e, now)
  <2>1. m \in Matchers(needle, t, e, nb)
    <3>1. m \in Matchers(needle, text, e, nb)
      BY DEF e
    <3> QED BY <1>1, <3>1, SameLetters
  <2>2. /\ m \in [matched : Nat, nonBlank : BOOLEAN, met : {None} \cup BOOLEAN]
        /\ needle = None => m.met = None
        /\ needle # None => m.met # None /\ (m.met = TRUE <=> Occurs(needle, t, e))
        /\ needle # None /\ m.met = FALSE =>
             Longest(needle, t, 0, e, m.matched) /\ m.matched < Len(needle)
    BY <2>1 DEF Matchers
  <2>3. first.met = m.met /\ first.matched = m.matched /\ first.nonBlank = now
    BY <2>2
  <2>4. first \in [matched : Nat, nonBlank : BOOLEAN, met : {None} \cup BOOLEAN]
    BY <2>2
  <2> HIDE DEF first
  <2> QED BY <2>2, <2>3, <2>4 DEF Matchers
<1>4. ASSUME NEW i \in 1..n, NEW x \in Matchers(needle, t, e + (i - 1), now)
      PROVE  Client!PushLetter(x, piece[i]) \in Matchers(needle, t, e + i, now)
  <2>1. e + (i - 1) \in Nat /\ (e + (i - 1)) + 1 = e + i /\ t[(e + (i - 1)) + 1] = piece[i]
    BY <1>1
  <2>2. PICK y \in Nat : y = e + (i - 1)
    BY <2>1
  <2>3. x \in Matchers(needle, t, y, now) /\ y + 1 = e + i /\ t[y + 1] = piece[i]
    BY <2>1, <2>2
  <2>4. Client!PushLetter(x, t[y + 1]) \in Matchers(needle, t, y + 1, now)
    BY <2>3, PushLetterFacts
  <2> QED BY <2>3, <2>4
<1> HIDE DEF first
<1>5. PICK f : IsRun(n, V, F, first, f)
  <2>1. first \in V[0]
    BY <1>1, <1>3
  <2>2. ASSUME NEW i \in 1..n
        PROVE  F[i] \in [V[i - 1] -> V[i]]
    <3>1. V[i - 1] = Matchers(needle, t, e + (i - 1), now) /\ V[i] = Matchers(needle, t, e + i, now)
      BY <1>1
    <3>2. F[i] = [x \in Matchers(needle, t, e + (i - 1), now) |-> Client!PushLetter(x, piece[i])]
      OBVIOUS
    <3> HIDE DEF V, F
    <3> QED BY <1>4, <3>1, <3>2
  <2> HIDE DEF V, F
  <2>3. Leads(n, V, F)
    BY <2>2 DEF Leads
  <2> QED BY <1>1, <2>1, <2>3, RunExists
<1>6. ASSUME NEW i \in 1..n
      PROVE  f[i] = Client!PushLetter(f[i - 1], piece[i])
  <2>1. V[i - 1] = Matchers(needle, t, e + (i - 1), now)
    BY <1>1
  <2>2. F[i] = [x \in Matchers(needle, t, e + (i - 1), now) |-> Client!PushLetter(x, piece[i])]
    OBVIOUS
  <2> HIDE DEF F, V
  <2> QED BY <1>5, <2>1, <2>2 DEF IsRun
<1>7. f[0] = first
  BY <1>5 DEF IsRun
<1> DEFINE g == [i \in 0..n |-> f[i]]
<1>8. g = PushFunction(m, piece, g)
  <2> HIDE DEF V, F
  <2> DEFINE h == PushFunction(m, piece, g)
  <2>1. \A i \in 0..n : h[i] = PushStep(m, piece, g, i)
    BY DEF PushFunction, n
  <2>2. h = [i \in 0..n |-> h[i]]
    BY DEF PushFunction, n
  <2>3. g = [i \in 0..n |-> g[i]]
    OBVIOUS
  <2>4. g[0] = first /\ \A i \in 1..n : g[i] = Client!PushLetter(g[i - 1], piece[i])
    BY <1>1, <1>6, <1>7
  <2> HIDE DEF g, h
  <2>5. \A i \in 0..n : g[i] = h[i]
    <3>1. g[0] = h[0]
      BY <1>1, <1>2, <2>1, <2>4 DEF PushStep
    <3>2. ASSUME NEW i \in 1..n
          PROVE  g[i] = h[i]
      BY <1>1, <2>1, <2>4 DEF PushStep
    <3>3. \A i \in 0..n : i = 0 \/ i \in 1..n
      BY <1>1
    <3> QED BY <3>1, <3>2, <3>3
  <2>6. g = h
    BY <2>2, <2>3, <2>5
  <2> QED BY <2>6 DEF h
<1> DEFINE c == CHOOSE p : p = PushFunction(m, piece, p)
<1>9. c = PushFunction(m, piece, c)
  <2> HIDE DEF g
  <2> QED BY <1>8
<1>10. Client!Push(m, piece) = c[n]
  BY DEF Client!Push, PushFunction, PushStep, PushStart, n
<1> HIDE DEF c, g, F
<1>11. \A i \in 0..n : c[i] = PushStep(m, piece, c, i)
  BY <1>9 DEF PushFunction, n
<1>12. c[0] \in V[0]
  <2>1. c[0] = first
    BY <1>1, <1>2, <1>11 DEF PushStep
  <2>2. V[0] = Matchers(needle, t, e, now)
    BY <1>1
  <2> QED BY <1>3, <2>1, <2>2
<1>13. ASSUME NEW i \in 1..n, c[i - 1] \in V[i - 1]
       PROVE  c[i] \in V[i]
  <2>1. V[i - 1] = Matchers(needle, t, e + (i - 1), now) /\ V[i] = Matchers(needle, t, e + i, now)
    BY <1>1
  <2> HIDE DEF V
  <2>2. c[i] = Client!PushLetter(c[i - 1], piece[i])
    BY <1>1, <1>11 DEF PushStep
  <2> QED BY <1>4, <1>13, <2>1, <2>2
<1>14. c[n] \in V[n]
  <2> HIDE DEF V
  <2> QED BY <1>1, <1>12, <1>13, RunKeeps
<1>15. c[n] \in Matchers(needle, t, e + n, now)
  <2>1. V[n] = Matchers(needle, t, e + n, now)
    BY <1>1
  <2> QED BY <1>14, <2>1
<1> QED BY <1>1, <1>10, <1>15 DEF t

\* A word occurs among the parts of a text exactly if it ends somewhere in it.
LEMMA OccursFacts ==
  ASSUME NEW S, NEW text \in Seq(S), NEW w \in Seq(S), w # <<>>
  PROVE  w \in Client!SubSeqs(text) <=> Occurs(w, text, Len(text))
<1> DEFINE n == Len(text)
           k == Len(w)
<1>1. n \in Nat /\ k \in Nat /\ k # 0 /\ \A i \in 1..n : text[i] \in S
  BY LenProperties, EmptySeq, ElementOfSeq
<1>2. ASSUME NEW i \in 0..n, NEW j \in 0..n, w = SubSeq(text, i + 1, j)
      PROVE  Occurs(w, text, n)
  <2>1. i + 1 \in Int /\ j \in Int /\ \A x \in (i + 1)..j : text[x] \in S
    BY <1>1
  <2>2. /\ Len(w) = IF i + 1 <= j THEN (j - (i + 1)) + 1 ELSE 0
        /\ \A x \in 1..((j - (i + 1)) + 1) : w[x] = text[((i + 1) + x) - 1]
    BY <1>2, <2>1, SubSeqProperties
  <2> HIDE DEF n
  <2>3. k = j - i /\ k = (j - (i + 1)) + 1 /\ i + 1 <= j
    BY <1>1, <2>2
  <2> HIDE DEF k
  <2>4. ASSUME NEW x \in 1..k
        PROVE  text[(j - k) + x] = w[x]
    <3>1. ((i + 1) + x) - 1 = (j - k) + x
      BY <2>3
    <3> QED BY <2>2, <2>3, <3>1
  <2>5. Ends(w, text, 0, j, k)
    BY <1>1, <2>3, <2>4 DEF Ends, k
  <2> QED BY <2>5 DEF Occurs, k
<1>3. ASSUME NEW x \in 0..n, Ends(w, text, 0, x, k)
      PROVE  \E i, j \in 0..n : w = SubSeq(text, i + 1, j)
  <2> DEFINE part == SubSeq(text, (x - k) + 1, x)
  <2>1. k <= x /\ \A i \in 1..k : text[(x - k) + i] = w[i]
    BY <1>3 DEF Ends
  <2>2. /\ (x - k) + 1 \in Int /\ x \in Int /\ (x - k) + 1 <= x
        /\ \A y \in ((x - k) + 1)..x : text[y] \in S
    <3> HIDE DEF n, k
    <3> QED BY <1>1, <2>1
  <2>3. /\ part \in Seq(S)
        /\ Len(part) = (x - ((x - k) + 1)) + 1
        /\ \A i \in 1..((x - ((x - k) + 1)) + 1) : part[i] = text[(((x - k) + 1) + i) - 1]
    BY <2>2, SubSeqProperties
  <2> HIDE DEF part, n
  <2>4. Len(part) = k /\ (x - ((x - k) + 1)) + 1 = k
    BY <1>1, <2>3
  <2>5. ASSUME NEW i \in 1..k
        PROVE  part[i] = w[i]
    <3>1. (((x - k) + 1) + i) - 1 = (x - k) + i
      BY <1>1
    <3> HIDE DEF k
    <3> QED BY <2>1, <2>3, <2>4, <3>1
  <2>6. part = w
    BY <2>3, <2>4, <2>5, SeqEqual
  <2>7. x - k \in 0..n /\ x \in 0..n
    <3> HIDE DEF k
    <3> QED BY <1>1, <2>1
  <2> QED BY <2>6, <2>7 DEF part
<1>4. w \in Client!SubSeqs(text) <=> \E i, j \in 0..n : w = SubSeq(text, i + 1, j)
  BY DEF Client!SubSeqs
<1> HIDE DEF n, k
<1> QED BY <1>2, <1>3, <1>4 DEF Occurs, n, k

-----------------------------------------------------------------------------
(* The request.                                                            *)

Instants == Nat \cup {None}
NotBlank == \E i \in DOMAIN content : content[i] # Blank

\* The request and the time.
RequestInv ==
  /\ stream \in BOOLEAN /\ needle \in Needles
  /\ place \in {"send", "body", "done"}
  /\ clock \in Nat
  /\ headers \in Instants /\ (headers # None => headers <= clock)
  /\ place = "body" => headers # None

\* The text, what the matcher knows of it, and when it began.
TextInv ==
  /\ content \in Seq(Letters)
  /\ matcher \in Matchers(needle, content, Len(content), NotBlank)
  /\ tokens \in Instants
  /\ ttft \in Instants /\ (ttft # None => ttft <= clock)
  /\ ~stream => ttft = None
  /\ stream /\ content # <<>> => ttft # None
  /\ ~stream /\ place # "done" => content = <<>>
  /\ finish \in BOOLEAN /\ ended \in BOOLEAN /\ (finish => ended)

\* What the properties say of an attempt a.
Earned(a) == a.success => ended /\ NotBlank /\ (needle # None => Client!Found)
Cut(a) == a.failure = "transport" /\ a.headers # None
Canonical(a) ==
  /\ a.success \/ a.failure \in {"transport", "http", "protocol", "emptyOutput", "expectation"}
  /\ Client!SaturationAccepts(a) <=> ~Cut(a)
  /\ Client!RolloutAccepts(a) <=> ~Cut(a)
AttemptInv ==
  \A a : attempt = a /\ a # None => place = "done" /\ Earned(a) /\ Canonical(a)

ClientInv == RequestInv /\ TextInv /\ AttemptInv

\* What the constants say of a needle and of None.
LEMMA ClientConstants ==
  ASSUME Client!CompletionAssumption
  PROVE  /\ None \notin BOOLEAN /\ None \notin Nat
         /\ None \notin {"transport", "http", "protocol", "emptyOutput", "expectation"}
         /\ Pieces \subseteq Seq(Letters) /\ MaxTokens \in Nat
         /\ needle \in Needles /\ needle # None =>
              /\ needle \in Seq(Letters) /\ needle # <<>>
              /\ Len(needle) \in Nat /\ Len(needle) # 0
<1>1. needle \in Seq(Letters) /\ needle # <<>> => Len(needle) \in Nat /\ Len(needle) # 0
  BY EmptySeq
<1> QED BY <1>1 DEF Client!CompletionAssumption

\* A failed attempt is saved in a form that is accepted, unless it is a body
\* that broke off.
LEMMA FailedFacts ==
  ASSUME Client!CompletionAssumption, RequestInv, NEW stage, NEW status, NEW at \in Instants,
         at # None => at <= clock,
         \/ stage = "transport" /\ status = 0 /\ at = None
         \/ stage = "transport" /\ status = 200 /\ at # None
         \/ stage = "http" /\ status = 500 /\ at # None
         \/ stage \in {"protocol", "emptyOutput"} /\ status = 200 /\ at # None,
         NEW a, a = Client!Failed(stage, status, at)
  PROVE  Canonical(a) /\ Earned(a)
<1>1. /\ a.success = FALSE /\ a.status = status /\ a.headers = at /\ a.ttft = None
      /\ a.e2e = clock /\ a.tokens = None /\ a.rate = FALSE /\ a.met = None /\ a.failure = stage
  BY DEF Client!Failed
<1>2. None # stage /\ None # "transport" /\ None # "http"
  BY ClientConstants
<1>3. Client!TimesOrdered(a)
  BY <1>1 DEF Client!TimesOrdered, RequestInv
<1>4. Client!NothingKept(a)
  BY <1>1 DEF Client!NothingKept
<1>5. ~a.rate /\ ~a.success
  BY <1>1
<1>6. Client!RateShape(a)
  BY <1>1 DEF Client!RateShape
<1>7. a.tokens \in Client!Plausible \cup {None} /\ (a.success <=> a.failure = None)
  BY <1>1, <1>2
<1>8. Client!SaturationAccepts(a) <=>
        CASE stage = "transport" -> status = 0 /\ at = None
          [] stage = "http" -> status = 500 /\ at # None
          [] stage \in {"protocol", "emptyOutput"} -> status = 200 /\ at # None
  BY <1>1, <1>3, <1>4, <1>6, <1>7 DEF Client!SaturationAccepts
<1>9. Client!RolloutAccepts(a) <=>
        CASE stage = "transport" -> status = 0
          [] stage = "http" -> status = 500
          [] stage \in {"protocol", "emptyOutput"} -> status = 200
  BY <1>1, <1>3, <1>4, <1>5, <1>7 DEF Client!RolloutAccepts
<1>10. Cut(a) <=> stage = "transport" /\ at # None
  BY <1>1 DEF Cut
<1>11. Canonical(a)
  <2>1. CASE stage = "transport"
    BY <1>1, <1>8, <1>9, <1>10, <2>1 DEF Canonical
  <2>2. CASE stage = "http"
    BY <1>1, <1>8, <1>9, <1>10, <2>2 DEF Canonical
  <2>3. CASE stage \in {"protocol", "emptyOutput"}
    BY <1>1, <1>8, <1>9, <1>10, <2>3 DEF Canonical
  <2> QED BY <2>1, <2>2, <2>3
<1> QED BY <1>1, <1>11 DEF Earned

\* A finished attempt is accepted too, and its success is earned.
LEMMA FinishedFacts ==
  ASSUME Client!CompletionAssumption, RequestInv, headers # None, tokens \in Instants,
         NEW text \in Seq(Letters), NEW nb \in BOOLEAN,
         NEW m \in Matchers(needle, text, Len(text), nb),
         NEW first \in Instants, first # None => first <= clock,
         stream /\ nb => first # None, ~stream => first = None,
         NEW a, a = Client!Finished(m, first)
  PROVE  Canonical(a) /\ (a.success => nb /\ (needle # None => needle \in Client!SubSeqs(text)))
<1>1. CASE ~nb
  <2>1. a = Client!Failed("emptyOutput", 200, headers)
    BY <1>1 DEF Client!Finished, Matchers
  <2>2. Canonical(a) /\ ~a.success
    BY <2>1, FailedFacts DEF RequestInv, Client!Failed
  <2> QED BY <2>2
<1>2. CASE nb
  <2> DEFINE counted == IF tokens \in Client!Plausible THEN tokens ELSE None
             rate == Client!HasRate(counted, first, clock)
  <2>1. /\ m \in [matched : Nat, nonBlank : BOOLEAN, met : {None} \cup BOOLEAN]
        /\ m.nonBlank = nb
        /\ needle = None => m.met = None
        /\ needle # None => m.met # None /\ (m.met = TRUE <=> Occurs(needle, text, Len(text)))
    BY DEF Matchers
  <2>2. a = [success |-> m.met # FALSE, status |-> 200, headers |-> headers,
             ttft |-> first, e2e |-> clock, tokens |-> counted, rate |-> rate, met |-> m.met,
             failure |-> IF m.met = FALSE THEN "expectation" ELSE None]
    BY <1>2, <2>1 DEF Client!Finished
  <2>3. /\ a.success = (m.met # FALSE) /\ a.status = 200 /\ a.headers = headers
        /\ a.ttft = first /\ a.e2e = clock /\ a.tokens = counted /\ a.rate = rate /\ a.met = m.met
        /\ a.failure = IF m.met = FALSE THEN "expectation" ELSE None
    <3> HIDE DEF counted, rate
    <3> QED BY <2>2
  <2>4. None \notin {"transport", "http", "protocol", "emptyOutput", "expectation"}
    BY ClientConstants
  <2>5. /\ headers \in Nat /\ headers <= clock /\ clock \in Nat
        /\ first # None => first \in Nat /\ first <= clock
    BY DEF RequestInv, Instants
  <2>6. clock # None
    BY <2>5, ClientConstants
  <2>7. counted \in Client!Plausible \cup {None}
    OBVIOUS
  <2>8. rate <=> stream /\ counted # None /\ counted >= 2 /\ first # None /\ clock > first
    <3> HIDE DEF counted
    <3> QED BY <2>5 DEF Client!HasRate
  <2> HIDE DEF counted, rate
  <2>9. Client!TimesOrdered(a)
    BY <2>3, <2>5, <2>8 DEF Client!TimesOrdered
  <2>10. Client!RateShape(a)
    BY <2>3, <2>8 DEF Client!RateShape
  <2>11. a.rate => stream /\ a.ttft # None /\ a.tokens # None /\ a.tokens >= 2
    BY <2>3, <2>8
  <2>12. a.status = 200 /\ a.headers # None /\ a.e2e # None /\ (stream => a.ttft # None)
    BY <1>2, <2>3, <2>5, <2>6
  <2>13. CASE m.met = FALSE
    <3>1. a.success = FALSE /\ a.failure = "expectation" /\ a.met = FALSE
      BY <2>3, <2>13
    <3>2. needle # None
      BY <2>1, <2>13, ClientConstants
    <3>3. Client!CompletedCanonical(a, FALSE)
      BY <2>12, <3>1, <3>2 DEF Client!CompletedCanonical
    <3>4. (a.success <=> a.failure = None) /\ ~Cut(a)
      BY <2>4, <3>1 DEF Cut
    <3>5. Client!SaturationAccepts(a)
      BY <2>3, <2>7, <2>9, <2>10, <3>1, <3>3, <3>4 DEF Client!SaturationAccepts
    <3>6. Client!RolloutAccepts(a)
      BY <2>9, <2>11, <3>1, <3>3, <3>4 DEF Client!RolloutAccepts
    <3> QED BY <3>1, <3>4, <3>5, <3>6 DEF Canonical
  <2>14. CASE m.met # FALSE
    <3>1. a.success = TRUE /\ a.failure = None /\ a.met = m.met
      BY <2>3, <2>14
    <3>2. a.met = IF needle = None THEN None ELSE TRUE
      BY <2>1, <2>14, <3>1
    <3>3. Client!CompletedCanonical(a, TRUE)
      BY <2>12, <3>1, <3>2 DEF Client!CompletedCanonical
    <3>4. (a.success <=> a.failure = None) /\ ~Cut(a)
      BY <2>4, <3>1 DEF Cut
    <3>5. Client!SaturationAccepts(a)
      BY <2>3, <2>4, <2>7, <2>9, <2>10, <3>1, <3>3, <3>4 DEF Client!SaturationAccepts
    <3>6. Client!RolloutAccepts(a)
      BY <2>4, <2>9, <2>11, <3>1, <3>3, <3>4 DEF Client!RolloutAccepts
    <3>7. needle # None => needle \in Client!SubSeqs(text)
      <4>1. needle # None => needle \in Seq(Letters) /\ needle # <<>>
        BY ClientConstants DEF RequestInv
      <4>2. needle # None => Occurs(needle, text, Len(text))
        BY <2>1, <2>14
      <4> QED BY <4>1, <4>2, OccursFacts
    <3> QED BY <1>2, <3>1, <3>4, <3>5, <3>6, <3>7 DEF Canonical
  <2> QED BY <2>13, <2>14
<1> QED BY <1>1, <1>2

\* The request starts right.
LEMMA ClientInit ==
  ASSUME Client!CompletionAssumption, Client!Init
  PROVE  ClientInv
<1> USE DEF Client!Init
<1>1. RequestInv
  BY ClientConstants DEF RequestInv, Instants
<1>2. content = <<>> /\ NotBlank = FALSE /\ Len(content) = 0 /\ content \in Seq(Letters)
  BY DEF NotBlank
<1>3. matcher \in Matchers(needle, content, Len(content), NotBlank)
  <2> DEFINE m == Client!NewMatcher(needle)
  <2>1. m.matched = 0 /\ m.nonBlank = FALSE /\ m.met = IF needle = None THEN None ELSE FALSE
    BY DEF Client!NewMatcher
  <2>2. m \in [matched : Nat, nonBlank : BOOLEAN, met : {None} \cup BOOLEAN]
    BY DEF Client!NewMatcher
  <2>3. matcher = m
    OBVIOUS
  <2> HIDE DEF m, Client!Init
  <2>4. None # FALSE
    BY ClientConstants
  <2>5. needle # None => ~Occurs(needle, content, 0) /\ Longest(needle, content, 0, 0, 0)
                         /\ 0 < Len(needle)
    <3> SUFFICES ASSUME needle # None
                 PROVE  /\ ~Occurs(needle, content, 0) /\ Longest(needle, content, 0, 0, 0)
                        /\ 0 < Len(needle)
      OBVIOUS
    <3>1. Len(needle) \in Nat /\ Len(needle) # 0
      BY <1>1, ClientConstants DEF RequestInv
    <3>2. ~Occurs(needle, content, 0)
      BY <3>1 DEF Occurs, Ends
    <3>3. Longest(needle, content, 0, 0, 0)
      BY <3>1 DEF Longest, Ends
    <3> QED BY <3>1, <3>2, <3>3
  <2>6. needle = None => m.met = None
    BY <2>1
  <2>7. needle # None => m.met = FALSE
    BY <2>1
  <2>8. m.nonBlank = NotBlank
    BY <1>2, <2>1
  <2>9. Matchers(needle, content, Len(content), NotBlank) = Matchers(needle, content, 0, NotBlank)
    BY <1>2
  <2>10. m \in Matchers(needle, content, 0, NotBlank)
    BY <2>1, <2>2, <2>4, <2>5, <2>6, <2>7, <2>8 DEF Matchers
  <2> QED BY <2>3, <2>9, <2>10
<1>4. TextInv
  BY <1>2, <1>3 DEF TextInv, Instants
<1>5. AttemptInv
  BY DEF AttemptInv
<1> QED BY <1>1, <1>4, <1>5 DEF ClientInv

\* What the rules say of an attempt depends on the request alone.
LEMMA CanonicalKept ==
  ASSUME Client!CompletionAssumption, stream' = stream, needle' = needle, NEW a, Canonical(a)
  PROVE  Canonical(a)'
<1>1. Client!TimesOrdered(a)' <=> Client!TimesOrdered(a)
  BY DEF Client!TimesOrdered
<1>2. Client!NothingKept(a)' <=> Client!NothingKept(a)
  BY DEF Client!NothingKept
<1>3. Client!RateShape(a)' <=> Client!RateShape(a)
  BY DEF Client!RateShape
<1>4. /\ Client!CompletedCanonical(a, TRUE)' <=> Client!CompletedCanonical(a, TRUE)
      /\ Client!CompletedCanonical(a, FALSE)' <=> Client!CompletedCanonical(a, FALSE)
  BY DEF Client!CompletedCanonical
<1>5. Cut(a)' <=> Cut(a)
  BY DEF Cut
<1>6. a.success \/ a.failure \in {"transport", "http", "protocol", "emptyOutput", "expectation"}
  BY DEF Canonical
<1>7. Client!SaturationAccepts(a)' <=> Client!SaturationAccepts(a)
  <2>1. CASE a.success
    BY ClientConstants, <1>1, <1>2, <1>3, <1>4, <2>1 DEF Client!SaturationAccepts, Client!Plausible
  <2>2. CASE ~a.success /\ a.failure = "transport"
    BY <1>1, <1>2, <1>3, <1>4, <2>2 DEF Client!SaturationAccepts, Client!Plausible
  <2>3. CASE ~a.success /\ a.failure = "http"
    BY <1>1, <1>2, <1>3, <1>4, <2>3 DEF Client!SaturationAccepts, Client!Plausible
  <2>4. CASE ~a.success /\ a.failure = "protocol"
    BY <1>1, <1>2, <1>3, <1>4, <2>4 DEF Client!SaturationAccepts, Client!Plausible
  <2>5. CASE ~a.success /\ a.failure = "emptyOutput"
    BY <1>1, <1>2, <1>3, <1>4, <2>5 DEF Client!SaturationAccepts, Client!Plausible
  <2>6. CASE ~a.success /\ a.failure = "expectation"
    BY <1>1, <1>2, <1>3, <1>4, <2>6 DEF Client!SaturationAccepts, Client!Plausible
  <2> QED BY <1>6, <2>1, <2>2, <2>3, <2>4, <2>5, <2>6
<1>8. Client!RolloutAccepts(a)' <=> Client!RolloutAccepts(a)
  <2>1. CASE a.success
    BY ClientConstants, <1>1, <1>2, <1>4, <2>1 DEF Client!RolloutAccepts
  <2>2. CASE ~a.success /\ a.failure = "transport"
    BY <1>1, <1>2, <1>4, <2>2 DEF Client!RolloutAccepts
  <2>3. CASE ~a.success /\ a.failure = "http"
    BY <1>1, <1>2, <1>4, <2>3 DEF Client!RolloutAccepts
  <2>4. CASE ~a.success /\ a.failure = "protocol"
    BY <1>1, <1>2, <1>4, <2>4 DEF Client!RolloutAccepts
  <2>5. CASE ~a.success /\ a.failure = "emptyOutput"
    BY <1>1, <1>2, <1>4, <2>5 DEF Client!RolloutAccepts
  <2>6. CASE ~a.success /\ a.failure = "expectation"
    BY <1>1, <1>2, <1>4, <2>6 DEF Client!RolloutAccepts
  <2> QED BY <1>6, <2>1, <2>2, <2>3, <2>4, <2>5, <2>6
<1> QED BY <1>5, <1>6, <1>7, <1>8 DEF Canonical

\* The text stays what it was while nothing of it arrives.
LEMMA TextKept ==
  ASSUME TextInv, clock \in Nat, clock' \in Nat, clock <= clock', place # "done",
         UNCHANGED <<stream, needle, Client!bodyVars>>
  PROVE  TextInv'
<1> USE DEF Client!bodyVars
<1>1. NotBlank' <=> NotBlank
  BY DEF NotBlank
<1>2. NotBlank' = NotBlank
  BY <1>1 DEF NotBlank
<1>3. matcher' \in Matchers(needle', content', Len(content'), NotBlank')
  <2>1. matcher \in Matchers(needle, content, Len(content), NotBlank)
    BY DEF TextInv
  <2> QED BY <1>2, <2>1
<1> QED BY <1>3 DEF TextInv, Instants

\* Every way to fail ends with an attempt that is right.
LEMMA FailingKeeps ==
  ASSUME Client!CompletionAssumption, ClientInv, place # "done",
         NEW stage, NEW status, NEW at \in Instants, at # None => at <= clock,
         \/ stage = "transport" /\ status = 0 /\ at = None
         \/ stage = "transport" /\ status = 200 /\ at # None
         \/ stage = "http" /\ status = 500 /\ at # None
         \/ stage \in {"protocol", "emptyOutput"} /\ status = 200 /\ at # None,
         Client!Done(Client!Failed(stage, status, at)),
         UNCHANGED <<stream, needle, clock, Client!bodyVars>>,
         headers' \in {headers, clock}
  PROVE  ClientInv'
<1>1. RequestInv /\ TextInv /\ clock \in Nat
  BY DEF ClientInv, RequestInv
<1>2. RequestInv'
  BY <1>1, ClientConstants DEF RequestInv, Instants, Client!Done
<1>3. TextInv'
  BY <1>1, TextKept
<1>4. ASSUME NEW a, attempt' = a
      PROVE  place' = "done" /\ Earned(a)' /\ Canonical(a)'
  <2>1. a = Client!Failed(stage, status, at)
    BY <1>4 DEF Client!Done
  <2>2. Canonical(a)
    BY <1>1, <2>1, FailedFacts
  <2>3. a.success = FALSE
    BY <2>1 DEF Client!Failed
  <2> QED BY <2>2, <2>3, CanonicalKept DEF Client!Done, Earned
<1>5. AttemptInv'
  BY <1>4 DEF AttemptInv
<1> QED BY <1>2, <1>3, <1>5 DEF ClientInv

\* Before it ends a request has no attempt.
LEMMA NoAttempt ==
  ASSUME attempt' = None
  PROVE  AttemptInv'
BY DEF AttemptInv

\* A finished answer whose end was announced leaves an attempt that is right.
LEMMA FinishingKeeps ==
  ASSUME Client!CompletionAssumption, ClientInv, place = "body", stream,
         Client!Done(Client!Finished(matcher, ttft)), ended' = TRUE,
         UNCHANGED <<stream, needle, clock, headers, matcher, finish, tokens, ttft, content>>
  PROVE  ClientInv'
<1>1. RequestInv /\ TextInv
  BY DEF ClientInv
<1>2. RequestInv'
  BY <1>1, ClientConstants DEF RequestInv, Instants, Client!Done
<1>3. NotBlank' = NotBlank /\ NotBlank \in BOOLEAN
  BY DEF NotBlank
<1>4. matcher \in Matchers(needle, content, Len(content), NotBlank)
  BY <1>1 DEF TextInv
<1>5. TextInv'
  <2>1. matcher' \in Matchers(needle', content', Len(content'), NotBlank')
    BY <1>3, <1>4
  <2> QED BY <1>1, <2>1 DEF TextInv, Instants, Client!Done
<1>6. ASSUME NEW a, attempt' = a
      PROVE  place' = "done" /\ Earned(a)' /\ Canonical(a)'
  <2>1. a = Client!Finished(matcher, ttft)
    BY <1>6 DEF Client!Done
  <2>2. NotBlank => content # <<>>
    BY DEF NotBlank
  <2>3. Canonical(a) /\ (a.success => NotBlank /\ (needle # None => Client!Found))
    <3>1. /\ headers # None /\ tokens \in Instants /\ content \in Seq(Letters) /\ ttft \in Instants
          /\ ttft # None => ttft <= clock
          /\ stream /\ NotBlank => ttft # None
          /\ ~stream => ttft = None
      BY <1>1, <2>2 DEF RequestInv, TextInv
    <3>2. Canonical(a) /\ (a.success => NotBlank /\
                            (needle # None => needle \in Client!SubSeqs(content)))
      BY <1>1, <1>3, <1>4, <2>1, <3>1, FinishedFacts
    <3> QED BY <3>2 DEF Client!Found
  <2>4. Canonical(a)'
    BY <2>3, CanonicalKept
  <2>5. Client!Found' <=> Client!Found
    BY DEF Client!Found, Client!SubSeqs
  <2>6. Earned(a)'
    BY <1>3, <2>3, <2>5 DEF Earned
  <2> QED BY <2>4, <2>6 DEF Client!Done
<1>7. AttemptInv'
  BY <1>6 DEF AttemptInv
<1> QED BY <1>2, <1>5, <1>7 DEF ClientInv

\* A piece of text that arrives is pushed to the matcher.
LEMMA PieceFacts ==
  ASSUME Client!CompletionAssumption, needle \in Needles, NEW text \in Seq(Letters),
         NEW piece \in Seq(Letters),
         NEW m \in Matchers(needle, text, Len(text), \E i \in DOMAIN text : text[i] # Blank)
  PROVE  LET all == text \o piece
         IN  Client!Push(m, piece) \in
               Matchers(needle, all, Len(all), \E i \in DOMAIN all : all[i] # Blank)
<1> DEFINE all == text \o piece
           nb == \E i \in DOMAIN text : text[i] # Blank
           now == \E i \in DOMAIN all : all[i] # Blank
<1>1. now <=> nb \/ \E k \in DOMAIN piece : piece[k] # Blank
  <2>1. /\ DOMAIN text = 1..Len(text) /\ DOMAIN piece = 1..Len(piece)
        /\ Len(text) \in Nat /\ Len(piece) \in Nat
    BY LenProperties
  <2>2. all \in Seq(Letters) /\ Len(all) = Len(text) + Len(piece)
    BY ConcatProperties
  <2>3. DOMAIN all = 1..(Len(text) + Len(piece))
    <3> HIDE DEF all
    <3> QED BY <2>2, LenProperties
  <2>4. \A i \in 1..(Len(text) + Len(piece)) :
          all[i] = IF i <= Len(text) THEN text[i] ELSE piece[i - Len(text)]
    BY ConcatProperties
  <2> HIDE DEF all
  <2>5. ASSUME NEW i \in DOMAIN text
        PROVE  i \in DOMAIN all /\ all[i] = text[i]
    <3>1. i \in 1..(Len(text) + Len(piece)) /\ i <= Len(text)
      BY <2>1
    <3> QED BY <2>3, <2>4, <3>1
  <2>6. ASSUME NEW i \in DOMAIN piece
        PROVE  \E j \in DOMAIN all : all[j] = piece[i]
    <3>1. /\ Len(text) + i \in 1..(Len(text) + Len(piece)) /\ ~(Len(text) + i <= Len(text))
          /\ (Len(text) + i) - Len(text) = i
      BY <2>1
    <3> QED BY <2>3, <2>4, <3>1
  <2>7. ASSUME NEW i \in DOMAIN all
        PROVE  \/ \E j \in DOMAIN text : all[i] = text[j]
               \/ \E j \in DOMAIN piece : all[i] = piece[j]
    <3>1. i \in Nat /\ 1 <= i /\ i <= Len(text) + Len(piece)
      BY <2>1, <2>3
    <3>2. CASE i <= Len(text)
      <4>1. i \in DOMAIN text
        BY <2>1, <3>1, <3>2
      <4> QED BY <2>3, <2>4, <3>2, <4>1
    <3>3. CASE ~(i <= Len(text))
      <4>1. i - Len(text) \in DOMAIN piece
        BY <2>1, <3>1, <3>3
      <4> QED BY <2>3, <2>4, <3>3, <4>1
    <3> QED BY <3>2, <3>3
  <2> QED BY <2>5, <2>6, <2>7
<1>2. nb \in BOOLEAN /\ now \in BOOLEAN
  OBVIOUS
<1> HIDE DEF nb, now
<1>3. m \in Matchers(needle, text, Len(text), nb)
  BY DEF nb
<1>4. /\ None \notin BOOLEAN
      /\ needle # None => Len(needle) \in Nat /\ Len(needle) # 0
  BY ClientConstants
<1>5. Client!Push(m, piece) \in Matchers(needle, text \o piece, Len(text \o piece), now)
  BY <1>1, <1>2, <1>3, <1>4, PushFacts
<1> QED BY <1>5 DEF now

\* Text of a stream.
LEMMA ContentKeeps ==
  ASSUME Client!CompletionAssumption, ClientInv, NEW piece \in Pieces, Client!ContentEvent(piece)
  PROVE  ClientInv'
<1>1. RequestInv /\ TextInv /\ needle \in Needles /\ place = "body" /\ stream
  BY DEF ClientInv, RequestInv, Client!ContentEvent, Client!Event
<1>2. /\ content' = content \o piece /\ matcher' = Client!Push(matcher, piece)
      /\ ttft' = IF ttft = None /\ piece # <<>> THEN clock ELSE ttft
      /\ UNCHANGED <<stream, needle, place, clock, headers, finish, tokens, attempt, ended>>
  BY DEF Client!ContentEvent, Client!First
<1>3. piece \in Seq(Letters) /\ content \in Seq(Letters)
  BY <1>1, ClientConstants DEF TextInv
<1>4. RequestInv'
  BY <1>1, <1>2 DEF RequestInv
<1>5. matcher' \in Matchers(needle', content', Len(content'), NotBlank')
  <2>1. matcher \in Matchers(needle, content, Len(content),
                             \E i \in DOMAIN content : content[i] # Blank)
    BY <1>1 DEF TextInv, NotBlank
  <2>2. Client!Push(matcher, piece) \in
          Matchers(needle, content \o piece, Len(content \o piece),
                   \E i \in DOMAIN (content \o piece) : (content \o piece)[i] # Blank)
    BY <1>1, <1>3, <2>1, PieceFacts
  <2> QED BY <1>2, <2>2 DEF NotBlank
<1>6. ttft' \in Instants /\ (ttft' # None => ttft' <= clock') /\ (content' # <<>> => ttft' # None)
  <2>1. clock \in Nat /\ clock # None /\ ttft \in Instants /\ (ttft # None => ttft <= clock)
    BY <1>1, ClientConstants DEF RequestInv, TextInv
  <2>2. content # <<>> => ttft # None
    BY <1>1 DEF TextInv
  <2>3. content = <<>> /\ piece = <<>> => content' = <<>>
    <3>1. ASSUME content = <<>>, piece = <<>>
          PROVE  content' = <<>>
      <4>1. content' = <<>> \o <<>>
        BY <1>2, <3>1
      <4> QED BY <1>3, <3>1, <4>1, ConcatEmptySeq
    <3> QED BY <3>1
  <2> QED BY <1>2, <2>1, <2>2, <2>3 DEF Instants
<1>7. content' \in Seq(Letters)
  BY <1>2, <1>3, ConcatProperties
<1>8. TextInv'
  BY <1>1, <1>2, <1>5, <1>6, <1>7 DEF TextInv, Instants
<1>9. AttemptInv'
  BY <1>1, <1>2, NoAttempt DEF ClientInv, AttemptInv
<1> QED BY <1>4, <1>8, <1>9 DEF ClientInv

\* The text of a JSON value, in one step with its attempt.
LEMMA JsonKeeps ==
  ASSUME Client!CompletionAssumption, ClientInv, NEW first \in Pieces, NEW second \in Pieces,
         Client!JsonBody(first, second)
  PROVE  ClientInv'
<1>1. RequestInv /\ TextInv /\ needle \in Needles /\ place = "body" /\ ~stream
  BY DEF ClientInv, RequestInv, Client!JsonBody
<1>2. /\ content' = first \o second /\ ended' = TRUE
      /\ matcher' = Client!Push(Client!Push(matcher, first), second)
      /\ place' = "done" /\ attempt' = Client!Finished(matcher', None)
      /\ UNCHANGED <<stream, needle, clock, headers, finish, tokens, ttft>>
  BY DEF Client!JsonBody, Client!Done
<1>3. first \in Seq(Letters) /\ second \in Seq(Letters) /\ content = <<>> /\ ttft = None
  BY <1>1, ClientConstants DEF TextInv
<1>4. RequestInv'
  BY <1>1, <1>2, ClientConstants DEF RequestInv
<1> DEFINE all == first \o second
           blank(text) == \E i \in DOMAIN text : text[i] # Blank
<1>5. Client!Push(matcher, first) \in Matchers(needle, first, Len(first), blank(first))
  <2> DEFINE none == content
  <2>1. matcher \in Matchers(needle, none, Len(none), \E i \in DOMAIN none : none[i] # Blank)
    BY <1>1 DEF TextInv, NotBlank
  <2>2. none \in Seq(Letters) /\ none \o first = first
    BY <1>3, ConcatEmptySeq, EmptySeq
  <2> HIDE DEF none
  <2>3. Client!Push(matcher, first) \in
          Matchers(needle, none \o first, Len(none \o first),
                   \E i \in DOMAIN (none \o first) : (none \o first)[i] # Blank)
    BY <1>1, <1>3, <2>1, <2>2, PieceFacts
  <2> QED BY <2>2, <2>3
<1>6. matcher' \in Matchers(needle, all, Len(all), blank(all))
  <2> DEFINE m == Client!Push(matcher, first)
  <2>1. m \in Matchers(needle, first, Len(first), \E i \in DOMAIN first : first[i] # Blank)
    BY <1>5
  <2>2. matcher' = Client!Push(m, second)
    BY <1>2
  <2> HIDE DEF m
  <2> QED BY <1>1, <1>3, <2>1, <2>2, PieceFacts
<1>7. all \in Seq(Letters) /\ content' = all
  BY <1>2, <1>3, ConcatProperties
<1>8. NotBlank' <=> blank(all)
  BY <1>7 DEF NotBlank
<1> HIDE DEF all
<1>9. TextInv'
  <2>1. matcher' \in Matchers(needle', content', Len(content'), NotBlank')
    BY <1>2, <1>6, <1>7 DEF NotBlank
  <2> HIDE DEF blank
  <2> QED BY <1>1, <1>2, <1>3, <1>7, <2>1 DEF TextInv, Instants
<1>10. ASSUME NEW a, attempt' = a
       PROVE  place' = "done" /\ Earned(a)' /\ Canonical(a)'
  <2>1. PICK m : m = matcher'
    OBVIOUS
  <2>2. a = Client!Finished(m, None)
    BY <1>2, <1>10, <2>1
  <2>3. PICK nb \in BOOLEAN : nb = blank(all)
    OBVIOUS
  <2>4. m \in Matchers(needle, all, Len(all), nb)
    <3> HIDE DEF blank
    <3> QED BY <1>6, <2>1, <2>3
  <2>5. headers # None /\ tokens \in Instants /\ None \in Instants
    BY <1>1 DEF RequestInv, TextInv, Instants
  <2>6. Canonical(a) /\ (a.success => nb /\ (needle # None => needle \in Client!SubSeqs(all)))
    BY <1>1, <1>7, <2>2, <2>4, <2>5, FinishedFacts
  <2>7. Canonical(a)'
    BY <1>2, <2>6, CanonicalKept
  <2>8. Client!Found' <=> needle \in Client!SubSeqs(all)
    BY <1>2, <1>7 DEF Client!Found, Client!SubSeqs
  <2>9. Earned(a)'
    <3> HIDE DEF blank
    <3> QED BY <1>2, <1>8, <2>3, <2>6, <2>8 DEF Earned
  <2> QED BY <1>2, <2>7, <2>9
<1>11. AttemptInv'
  BY <1>10 DEF AttemptInv
<1> QED BY <1>4, <1>9, <1>11 DEF ClientInv

\* Every step keeps the invariant.
LEMMA ClientStep ==
  ASSUME Client!CompletionAssumption, ClientInv, [Client!Next]_(Client!vars)
  PROVE  ClientInv'
<1> USE DEF Client!bodyVars
<1>1. RequestInv /\ TextInv /\ AttemptInv /\ clock \in Nat /\ headers \in Instants
      /\ (headers # None => headers <= clock) /\ clock # None
  BY ClientConstants DEF ClientInv, RequestInv
<1>2. place # "done" => attempt = None
  BY <1>1 DEF AttemptInv
<1>3. CASE Client!Tick
  <2>1. RequestInv' /\ clock' \in Nat /\ clock <= clock' /\ place # "done"
    BY <1>1, <1>3 DEF Client!Tick, RequestInv, Instants
  <2>2. TextInv'
    BY <1>1, <1>3, <2>1, TextKept DEF Client!Tick
  <2> QED BY <1>2, <1>3, <2>1, <2>2, NoAttempt DEF Client!Tick, ClientInv
<1>4. CASE Client!SendFails
  BY <1>4, FailingKeeps DEF Client!SendFails, Instants
<1>5. CASE Client!Headers
  <2>1. RequestInv' /\ place # "done"
    BY <1>1, <1>5 DEF Client!Headers, RequestInv, Instants
  <2>2. TextInv'
    <3>1. matcher' \in Matchers(needle', content', Len(content'), NotBlank')
      <4>1. NotBlank' = NotBlank
        BY <1>5 DEF Client!Headers, NotBlank
      <4> QED BY <1>1, <1>5, <4>1 DEF Client!Headers, TextInv
    <3> QED BY <1>1, <1>5, <3>1 DEF Client!Headers, TextInv, Instants
  <2> QED BY <1>2, <1>5, <2>1, <2>2, NoAttempt DEF Client!Headers, ClientInv
<1>6. CASE Client!HttpFails
  <2>1. clock \in Instants /\ clock <= clock
    BY <1>1 DEF Instants
  <2> QED BY <1>1, <1>6, <2>1, FailingKeeps DEF Client!HttpFails
<1>7. CASE Client!FinishEvent
  <2>1. RequestInv' /\ place # "done"
    BY <1>1, <1>7 DEF Client!FinishEvent, Client!Event, RequestInv
  <2>2. TextInv'
    <3>1. NotBlank' = NotBlank
      BY <1>7 DEF Client!FinishEvent, NotBlank
    <3>2. matcher' \in Matchers(needle', content', Len(content'), NotBlank')
      BY <1>1, <1>7, <3>1 DEF Client!FinishEvent, TextInv
    <3> QED BY <1>1, <1>7, <3>2 DEF Client!FinishEvent, TextInv, Instants
  <2> QED BY <1>2, <1>7, <2>1, <2>2, NoAttempt DEF Client!FinishEvent, ClientInv
<1>8. CASE Client!DoneEvent
  BY <1>8, FinishingKeeps DEF Client!DoneEvent, Client!Event
<1>9. CASE Client!Eof
  <2>1. CASE finish
    <3>1. ended' = TRUE
      BY <1>1, <1>9, <2>1 DEF Client!Eof, TextInv
    <3> QED BY <1>9, <2>1, <3>1, FinishingKeeps DEF Client!Eof, Client!Event
  <2>2. CASE ~finish
    <3>1. place = "body" /\ headers # None
      BY <1>1, <1>9 DEF Client!Eof, Client!Event, RequestInv
    <3> QED BY <1>1, <1>9, <2>2, <3>1, FailingKeeps DEF Client!Eof, Client!Event
  <2> QED BY <2>1, <2>2
<1>10. CASE Client!BadBody
  <2>1. place = "body" /\ headers # None
    BY <1>1, <1>10 DEF Client!BadBody, RequestInv
  <2> QED BY <1>1, <1>10, <2>1, FailingKeeps DEF Client!BadBody
<1>11. CASE Client!BodyFails
  <2>1. place = "body" /\ headers # None
    BY <1>1, <1>11 DEF Client!BodyFails, RequestInv
  <2> QED BY <1>1, <1>11, <2>1, FailingKeeps DEF Client!BodyFails
<1>12. ASSUME NEW piece \in Pieces, Client!ReasoningEvent(piece)
       PROVE  ClientInv'
  <2>1. RequestInv' /\ place # "done" /\ stream
    BY <1>1, <1>12 DEF Client!ReasoningEvent, Client!Event, RequestInv
  <2>2. ttft' \in {clock, ttft} /\ (ttft # None => ttft' = ttft)
    BY <1>12 DEF Client!ReasoningEvent, Client!First
  <2>3. TextInv'
    <3>1. NotBlank' = NotBlank
      BY <1>12 DEF Client!ReasoningEvent, NotBlank
    <3>2. matcher' \in Matchers(needle', content', Len(content'), NotBlank')
      BY <1>1, <1>12, <3>1 DEF Client!ReasoningEvent, TextInv
    <3>3. ttft' \in Instants /\ (ttft' # None => ttft' <= clock')
      BY <1>1, <1>12, <2>2 DEF Client!ReasoningEvent, TextInv, Instants
    <3> QED BY <1>1, <1>12, <2>1, <2>2, <3>2, <3>3 DEF Client!ReasoningEvent, TextInv, Instants
  <2> QED BY <1>2, <1>12, <2>1, <2>3, NoAttempt DEF Client!ReasoningEvent, ClientInv
<1>13. ASSUME NEW n \in 0..(MaxTokens + 1), Client!Usage(n)
       PROVE  ClientInv'
  <2>1. RequestInv' /\ place # "done"
    BY <1>1, <1>13 DEF Client!Usage, RequestInv
  <2>2. n \in Nat
    BY ClientConstants
  <2>3. TextInv'
    <3>1. NotBlank' = NotBlank
      BY <1>13 DEF Client!Usage, NotBlank
    <3>2. matcher' \in Matchers(needle', content', Len(content'), NotBlank')
      BY <1>1, <1>13, <3>1 DEF Client!Usage, TextInv
    <3> QED BY <1>1, <1>13, <2>2, <3>2 DEF Client!Usage, TextInv, Instants
  <2> QED BY <1>2, <1>13, <2>1, <2>3, NoAttempt DEF Client!Usage, ClientInv
<1>14. CASE UNCHANGED Client!vars
  <2>1. RequestInv'
    BY <1>1, <1>14 DEF Client!vars, RequestInv
  <2>2. TextInv'
    <3>1. NotBlank' = NotBlank
      BY <1>14 DEF Client!vars, NotBlank
    <3>2. matcher' \in Matchers(needle', content', Len(content'), NotBlank')
      BY <1>1, <1>14, <3>1 DEF Client!vars, TextInv
    <3> QED BY <1>1, <1>14, <3>2 DEF Client!vars, TextInv, Instants
  <2>3. ASSUME NEW a, attempt' = a, a # None
        PROVE  place' = "done" /\ Earned(a)' /\ Canonical(a)'
    <3>1. place = "done" /\ Earned(a) /\ Canonical(a)
      BY <1>1, <1>14, <2>3 DEF Client!vars, AttemptInv
    <3>2. Canonical(a)'
      BY <1>14, <3>1, CanonicalKept DEF Client!vars
    <3>3. Earned(a)' <=> Earned(a)
      BY <1>14 DEF Client!vars, Earned, NotBlank, Client!Found, Client!SubSeqs
    <3> QED BY <1>14, <3>1, <3>2, <3>3 DEF Client!vars
  <2>4. AttemptInv'
    BY <2>3 DEF AttemptInv
  <2> QED BY <2>1, <2>2, <2>4 DEF ClientInv
<1> QED BY <1>3, <1>4, <1>5, <1>6, <1>7, <1>8, <1>9, <1>10, <1>11, <1>12, <1>13, <1>14,
           ContentKeeps, JsonKeeps DEF Client!Next

\* What the client records can be relied on, for every expectation and however
\* the text is cut into events: the matcher has found the expectation exactly
\* when the text contains it, a success is a whole answer with text, and the
\* rules for saved attempts accept every attempt but that of a body that broke
\* off (OpenAiClient::execute, OutputMatcher, validate_saved_attempt and
\* validate_attempt).
THEOREM AttemptsAreSound ==
  ASSUME Client!CompletionAssumption
  PROVE  Client!Spec => []Client!AttemptIsSound
<1>1. Client!Init => ClientInv
  BY ClientInit
<1>2. ClientInv /\ [Client!Next]_(Client!vars) => ClientInv'
  BY ClientStep
<1>3. ClientInv => Client!AttemptIsSound
  <2> SUFFICES ASSUME ClientInv
               PROVE  Client!AttemptIsSound
    OBVIOUS
  <2>1. needle # None => (matcher.met = TRUE <=> Client!Found)
    <3> SUFFICES ASSUME needle # None
                 PROVE  matcher.met = TRUE <=> Client!Found
      OBVIOUS
    <3>1. needle \in Seq(Letters) /\ needle # <<>> /\ content \in Seq(Letters)
      BY ClientConstants DEF ClientInv, RequestInv, TextInv
    <3>2. matcher.met = TRUE <=> Occurs(needle, content, Len(content))
      BY DEF ClientInv, TextInv, Matchers
    <3> QED BY <3>1, <3>2, OccursFacts DEF Client!Found
  <2>2. PICK a : a = attempt
    OBVIOUS
  <2>3. a # None => Earned(a) /\ Canonical(a)
    BY <2>2 DEF ClientInv, AttemptInv
  <2>4. Client!SuccessIsEarned
    BY <2>1, <2>2, <2>3 DEF Client!SuccessIsEarned, Earned, NotBlank
  <2>5. Client!CanonicalUnlessCut
    <3>1. a # None => /\ Client!SaturationAccepts(a) <=> ~Cut(a)
                      /\ Client!RolloutAccepts(a) <=> ~Cut(a)
      BY <2>3 DEF Canonical
    <3> QED BY <2>2, <3>1 DEF Client!CanonicalUnlessCut, Cut
  <2> QED BY <2>4, <2>5 DEF Client!AttemptIsSound
<1> QED BY <1>1, <1>2, <1>3, PTL DEF Client!Spec

=============================================================================
