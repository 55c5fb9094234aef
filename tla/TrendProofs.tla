----------------------------- MODULE TrendProofs -----------------------------
(***************************************************************************)
(* The two trackers of analysis/trend.rs.  First that of processes:        *)
(* VRAM growth is reported exactly, for any processes, threshold, clock    *)
(* and number of cycles.  The types, the link between the tracker and the  *)
(* samples, and the findings make one inductive invariant: the next        *)
(* findings compare with the tracker, and are about the samples.  Then     *)
(* that of endpoints: a rate is work that was done.  Last the fingerprint  *)
(* of processes, telemetry/runtime.rs: what five reads tell of a process   *)
(* that others may follow under its number.                                *)
(***************************************************************************)
EXTENDS ProcessTrend, SequenceTheorems, FiniteSetTheorems, TLAPS

IInv == TypeOK /\ BaselineIsLastSample /\ FindingsExact

\* What the two queries of a cycle return are allocations.
LEMMA AllocationsFacts ==
  ASSUME TrendAssumption
  PROVE  /\ Nothing \in Allocations
         /\ \A s \in Allocations : /\ DOMAIN s \subseteq Keys
                                   /\ \A k \in DOMAIN s : s[k] \in Memory
<1>1. Nothing \in [{} -> Memory]
  BY DEF Nothing
<1>2. {} \in SUBSET Keys
  OBVIOUS
<1>3. Nothing \in Allocations
  BY <1>1, <1>2 DEF Allocations
<1>4. ASSUME NEW s \in Allocations
      PROVE  DOMAIN s \subseteq Keys /\ \A k \in DOMAIN s : s[k] \in Memory
  <2>1. PICK S \in SUBSET Keys : s \in [S -> Memory]
    BY DEF Allocations
  <2> QED BY <2>1
<1> QED BY <1>3, <1>4

\* The last element of a sequence that was appended to, and the one before.
LEMMA AppendEnds ==
  ASSUME NEW S, NEW s \in Seq(S), NEW e \in S
  PROVE  /\ Append(s, e) \in Seq(S) /\ Append(s, e) # <<>>
         /\ Len(s) \in Nat /\ Len(Append(s, e)) = Len(s) + 1
         /\ Append(s, e)[Len(Append(s, e))] = e
         /\ s # <<>> => /\ Len(s) >= 1
                        /\ Append(s, e)[Len(Append(s, e)) - 1] = s[Len(s)]
         /\ s = <<>> => Len(s) = 0
<1>1. Len(s) \in Nat /\ Append(s, e) \in Seq(S) /\ Len(Append(s, e)) = Len(s) + 1
  BY AppendProperties, LenProperties
<1>2. /\ Append(s, e)[Len(s) + 1] = e
      /\ \A i \in 1..Len(s) : Append(s, e)[i] = s[i]
  BY AppendProperties
<1>3. s # <<>> => Len(s) >= 1
  BY <1>1, EmptySeq
<1>4. Append(s, e) # <<>>
  BY <1>1, EmptySeq
<1> QED BY <1>1, <1>2, <1>3, <1>4, EmptySeq

\* A new tracker holds no samples and there is no log.
LEMMA Initially == ASSUME TrendAssumption PROVE Init => IInv
<1> SUFFICES ASSUME Init PROVE IInv
  OBVIOUS
<1>1. \A k \in Keys : log[k] = <<>> /\ log[k] \in Seq(Samples) /\ Len(log[k]) = 0
  BY EmptySeq DEF Init
<1>2. TypeOK
  BY <1>1 DEF TypeOK, Init, Nothing
<1>3. BaselineIsLastSample
  BY <1>1 DEF BaselineIsLastSample, Init, Nothing
<1>4. FindingsExact
  BY <1>1 DEF FindingsExact, Init
<1> QED BY <1>2, <1>3, <1>4 DEF IInv

\* One observation, of whatever the process query returned.
LEMMA ObserveStep ==
  ASSUME TrendAssumption, IInv, NEW sample \in Allocations, Observe(sample),
         now' \in Int, running' \in Allocations
  PROVE  IInv'
<1> DEFINE newest(k) == [memory |-> sample[k], at |-> now]
<1>1. DOMAIN sample \subseteq Keys /\ \A k \in DOMAIN sample : newest(k) \in Samples
  BY AllocationsFacts DEF IInv, TypeOK, Samples
<1>2. /\ DOMAIN processes' = DOMAIN sample
      /\ \A k \in DOMAIN sample : processes'[k] = newest(k)
  BY DEF Observe, Tracked
<1>3. ASSUME NEW k \in Keys
      PROVE  /\ k \in DOMAIN sample => log'[k] = Append(log[k], newest(k))
             /\ k \notin DOMAIN sample => log'[k] = <<>>
             /\ log[k] \in Seq(Samples)
  BY DEF Observe, IInv, TypeOK
<1>4. ASSUME NEW k \in DOMAIN sample
      PROVE  /\ log'[k] \in Seq(Samples) /\ log'[k] # <<>>
             /\ log'[k][Len(log'[k])] = newest(k)
             /\ Len(log'[k]) >= 2 <=> log[k] # <<>>
             /\ log[k] # <<>> => log'[k][Len(log'[k]) - 1] = log[k][Len(log[k])]
  <2> HIDE DEF newest
  <2>1. k \in Keys /\ newest(k) \in Samples
    BY <1>1
  <2>2. log[k] \in Seq(Samples) /\ log'[k] = Append(log[k], newest(k))
    BY <1>3, <2>1
  <2>3. /\ log'[k] \in Seq(Samples) /\ log'[k] # <<>>
        /\ Len(log[k]) \in Nat /\ Len(log'[k]) = Len(log[k]) + 1
        /\ log'[k][Len(log'[k])] = newest(k)
        /\ log[k] # <<>> => /\ Len(log[k]) >= 1
                            /\ log'[k][Len(log'[k]) - 1] = log[k][Len(log[k])]
        /\ log[k] = <<>> => Len(log[k]) = 0
    BY <2>1, <2>2, AppendEnds
  <2>4. Len(log'[k]) >= 2 <=> log[k] # <<>>
    BY <2>3
  <2> QED BY <2>3, <2>4
<1>5. TypeOK'
  <2>1. \A k \in DOMAIN processes' : processes'[k] \in Samples
    BY <1>1, <1>2
  <2>2. \A k \in Keys : log'[k] \in Seq(Samples)
    BY <1>3, <1>4, EmptySeq
  <2>3. log' \in [Keys -> Seq(Samples)]
    BY <2>2 DEF Observe
  <2>4. findings' \subseteq Keys
    BY <1>1 DEF Observe
  <2> QED BY <1>1, <1>2, <2>1, <2>3, <2>4 DEF TypeOK
<1>6. BaselineIsLastSample'
  BY <1>1, <1>2, <1>3, <1>4 DEF BaselineIsLastSample
<1>7. FindingsExact'
  <2> SUFFICES ASSUME NEW k \in Keys
               PROVE  k \in findings' <=>
                        /\ Len(log'[k]) >= 2
                        /\ log'[k][Len(log'[k])].at - log'[k][Len(log'[k]) - 1].at >= Second
                        /\ log'[k][Len(log'[k])].memory
                             - log'[k][Len(log'[k]) - 1].memory >= Threshold
    BY DEF FindingsExact
  <2>1. CASE k \notin DOMAIN sample
    BY <2>1, <1>3, EmptySeq DEF Observe
  <2>2. CASE k \in DOMAIN sample
    <3>1. k \in findings' <=> Grows(k, sample[k])
      BY <2>2 DEF Observe
    <3>2. k \in DOMAIN processes <=> log[k] # <<>>
      BY DEF IInv, BaselineIsLastSample
    <3>3. k \in DOMAIN processes => processes[k] = log[k][Len(log[k])]
      BY DEF IInv, BaselineIsLastSample
    <3>4. Len(log'[k]) >= 2 <=> k \in DOMAIN processes
      BY <2>2, <1>4, <3>2
    <3>5. log'[k][Len(log'[k])] = [memory |-> sample[k], at |-> now]
      BY <2>2, <1>4
    <3>6. k \in DOMAIN processes => log'[k][Len(log'[k]) - 1] = processes[k]
      BY <2>2, <1>4, <3>2, <3>3
    <3> QED BY <3>1, <3>4, <3>5, <3>6 DEF Grows
  <2> QED BY <2>1, <2>2
<1> QED BY <1>5, <1>6, <1>7 DEF IInv

\* Every cycle observes, whether the process query worked or not.
LEMMA Inductive == ASSUME TrendAssumption, IInv, [Next]_vars PROVE IInv'
<1>1. CASE Next
  <2>1. now' \in Int /\ running' \in Allocations
    BY <1>1 DEF Next, Cycle, IInv, TypeOK, TrendAssumption
  <2>2. running \in Allocations /\ Nothing \in Allocations
    BY AllocationsFacts DEF IInv, TypeOK
  <2>3. Observe(running) \/ Observe(Nothing)
    BY <1>1 DEF Next, Cycle
  <2> QED BY <2>1, <2>2, <2>3, ObserveStep
<1>2. CASE UNCHANGED vars
  BY <1>2 DEF vars, IInv, TypeOK, BaselineIsLastSample, FindingsExact
<1> QED BY <1>1, <1>2

\* The invariant holds in every state.
LEMMA InvariantHolds == ASSUME TrendAssumption PROVE Spec => []IInv
<1>1. Init => IInv
  BY Initially
<1>2. IInv /\ [Next]_vars => IInv'
  BY Inductive
<1> QED BY <1>1, <1>2, PTL DEF Spec

\* The tracker always holds the newest sample of every process of the last
\* report and nothing else (observe with its retain): a PID that comes back
\* has no older sample to grow from.
THEOREM BaselineHolds == ASSUME TrendAssumption PROVE Spec => []BaselineIsLastSample
<1>1. IInv => BaselineIsLastSample
  BY DEF IInv
<1> QED BY <1>1, InvariantHolds, PTL

\* Tracker::observe reports the growth of a process exactly when its two
\* newest successive samples show it.
THEOREM FindingsAreExact == ASSUME TrendAssumption PROVE Spec => []FindingsExact
<1>1. IInv => FindingsExact
  BY DEF IInv
<1> QED BY <1>1, InvariantHolds, PTL

-----------------------------------------------------------------------------
(* The rates of the endpoints, for any targets, counters and clock.        *)

CONSTANTS Targets, Redacted(_), Scrapes, MaxCount, None
VARIABLES served, counter, endpoints, rates, base

Rates == INSTANCE EndpointRates

\* Scans reach the end, and no two targets share a tracker key: without either
\* a rate may be fabricated, as a run and a remark in the README show.
WholeScans == "partial" \notin Scrapes
OwnKeys == \A s, t \in Rates!TargetSet : Redacted(s) = Redacted(t) => s = t

\* The tracker holds each endpoint's own previous sample, and since then the
\* counter has not grown by more than the endpoint has done.
RateInv ==
  /\ now \in 0..MaxTime
  /\ served \in [Rates!TargetSet -> 0..MaxCount] /\ counter \in [Rates!TargetSet -> Nat]
  /\ base \in [Rates!TargetSet -> {None} \cup [served : 0..MaxCount, at : 0..MaxTime]]
  /\ \A t \in Rates!TargetSet :
       /\ base[t] # None <=> Redacted(t) \in DOMAIN endpoints
       /\ base[t] # None =>
            /\ endpoints[Redacted(t)].at = base[t].at
            /\ endpoints[Redacted(t)].value # None =>
                 /\ endpoints[Redacted(t)].value \in Nat
                 /\ counter[t] - endpoints[Redacted(t)].value <= served[t] - base[t].served

-----------------------------------------------------------------------------
(* One cycle observes the endpoints one after the other.                   *)

\* A set that has 0, and with each number its successor, has every natural
\* number: a least one without would leave a place for one too many.
LEMMA SetInduction ==
  ASSUME NEW S, 0 \in S, \A n \in Nat : n \in S => n + 1 \in S
  PROVE  Nat \subseteq S
<1> SUFFICES ASSUME NEW m \in Nat, m \notin S
             PROVE  FALSE
  OBVIOUS
<1> DEFINE T == {x \in 0..m : x \in S}
           f == [x \in T |-> x + 1]
<1>1. IsFiniteSet(T)
  BY FS_Interval, FS_Subset, 0 \in Int, m \in Int
<1>2. 0 \in T
  OBVIOUS
<1>3. IsFiniteSet(T \ {0}) /\ Cardinality(T \ {0}) = Cardinality(T) - 1
  BY <1>1, <1>2, FS_RemoveElement
<1>4. Cardinality(T) \in Nat
  BY <1>1, FS_CardinalityType
<1>5. f \in [T -> T \ {0}]
  <2> SUFFICES ASSUME NEW x \in T
               PROVE  x + 1 \in T \ {0}
    OBVIOUS
  <2> QED BY x # m
<1>6. \E x, y \in T : x # y /\ f[x] = f[y]
  <2> HIDE DEF T, f
  <2> QED BY <1>1, <1>3, <1>4, <1>5, FS_PigeonHole
<1> QED BY <1>6

\* A non-empty bounded set of numbers has a largest one, and Max is it.
LEMMA LargestOf ==
  ASSUME NEW n \in Nat, NEW T \in SUBSET (0..n), T # {}
  PROVE  Rates!Max(T) \in T /\ \A x \in T : x <= Rates!Max(T)
<1> DEFINE S == {k \in Nat : k <= n /\ (\E x \in T : x >= n - k)
                               => \E x \in T : \A y \in T : y <= x}
<1>1. 0 \in S
  OBVIOUS
<1>2. ASSUME NEW k \in Nat, k \in S
      PROVE  k + 1 \in S
  <2>0. k <= n /\ (\E x \in T : x >= n - k) => \E x \in T : \A y \in T : y <= x
    BY <1>2
  <2>1. ASSUME k + 1 <= n, NEW z \in T, z >= n - (k + 1)
        PROVE  \E x \in T : \A y \in T : y <= x
    <3>1. CASE \E x \in T : x >= n - k
      BY <3>1, <2>0, <2>1
    <3>2. CASE ~ \E x \in T : x >= n - k
      <4>1. \A y \in T : y <= z
        BY <3>2, <2>1
      <4> QED BY <4>1
    <3> QED BY <3>1, <3>2
  <2> QED BY <2>0, <2>1
<1>3. n \in S
  <2> HIDE DEF S
  <2> QED BY <1>1, <1>2, SetInduction
<1>4. \E x \in T : \A y \in T : y <= x
  <2>1. PICK x \in T : x \in 0..n
    OBVIOUS
  <2>2. n - n = 0 /\ n <= n
    OBVIOUS
  <2> QED BY <1>3, <2>1, <2>2
<1> QED BY <1>4 DEF Rates!Max

Start == [endpoints |-> endpoints, rates |-> [t \in Rates!TargetSet |-> None]]
Step(samples, a, i) == Rates!ObserveEndpoint(a, Targets[i], samples[Targets[i]])
Fold(samples, n, f) == [T \in SUBSET (1..n) |->
                          IF T = {} THEN Start
                          ELSE Step(samples, f[T \ {Rates!Max(T)}], Rates!Max(T))]

\* The function that FoldLeft chooses by its recursive equation exists.
LEMMA FoldExists ==
  ASSUME NEW n \in Nat, NEW samples
  PROVE  \E f : f = Fold(samples, n, f)
<1> DEFINE D == SUBSET (1..n)
           Size(T) == Cardinality(T)
           Value(f, T) == IF T = {} THEN Start
                          ELSE Step(samples, f[T \ {Rates!Max(T)}], Rates!Max(T))
           Upto(k) == \E f : \A T \in D : Size(T) <= k => f[T] = Value(f, T)
           N == {k \in Nat : Upto(k)}
<1>1. \A T \in D : IsFiniteSet(T) /\ Size(T) \in Nat /\ Size(T) <= Size(1..n)
  <2>1. IsFiniteSet(1..n)
    BY FS_Interval
  <2> QED BY <2>1, FS_Subset, FS_CardinalityType
<1>2. \A T \in D : T # {} => /\ T \ {Rates!Max(T)} \in D
                             /\ Size(T \ {Rates!Max(T)}) = Size(T) - 1
  <2> SUFFICES ASSUME NEW T \in D, T # {}
               PROVE  /\ T \ {Rates!Max(T)} \in D
                      /\ Size(T \ {Rates!Max(T)}) = Size(T) - 1
    OBVIOUS
  <2>1. T \in SUBSET (0..n)
    OBVIOUS
  <2>2. Rates!Max(T) \in T
    BY <2>1, LargestOf
  <2> QED BY <1>1, <2>2, FS_RemoveElement
<1>3. {} \in D /\ Size({}) = 0 /\ 1..n \in D /\ \A T \in D : Size(T) = 0 => T = {}
  BY <1>1, FS_EmptySet
<1> HIDE DEF D, Size
<1>4. 0 \in N
  <2> DEFINE f == [T \in D |-> Start]
  <2>1. \A T \in D : Size(T) <= 0 => f[T] = Value(f, T)
    BY <1>1, <1>3
  <2> QED BY <2>1
<1>5. ASSUME NEW k \in Nat, k \in N
      PROVE  k + 1 \in N
  <2>1. PICK f : \A T \in D : Size(T) <= k => f[T] = Value(f, T)
    BY <1>5
  <2> DEFINE g == [T \in D |-> IF Size(T) = k + 1 THEN Value(f, T) ELSE f[T]]
  <2>2. ASSUME NEW T \in D, Size(T) <= k + 1
        PROVE  g[T] = Value(g, T)
    <3>1. CASE T = {}
      <4>1. Size(T) = 0 /\ Size(T) <= k /\ Size(T) # k + 1
        BY <1>3, <3>1
      <4>2. g[T] = f[T] /\ f[T] = Value(f, T)
        <5> HIDE DEF Value
        <5> QED BY <2>1, <4>1
      <4> HIDE DEF g
      <4> QED BY <3>1, <4>2
    <3>2. CASE T # {}
      <4> DEFINE U == T \ {Rates!Max(T)}
      <4>1. U \in D /\ Size(U) = Size(T) - 1 /\ Size(T) \in Nat /\ Size(U) \in Nat
        BY <1>1, <1>2, <3>2
      <4>2. g[U] = f[U]
        <5> HIDE DEF U, Value
        <5> QED BY <4>1, <2>2
      <4>3. g[T] = Value(f, T)
        <5> HIDE DEF Value, U
        <5>1. CASE Size(T) = k + 1
          BY <5>1
        <5>2. CASE Size(T) # k + 1
          BY <5>2, <2>1, <2>2, <4>1
        <5> QED BY <5>1, <5>2
      <4> HIDE DEF g
      <4> QED BY <3>2, <4>2, <4>3
    <3> QED BY <3>1, <3>2
  <2>3. Upto(k + 1)
    <3> HIDE DEF Value, g
    <3> QED BY <2>2
  <2> HIDE DEF Upto
  <2> QED BY <2>3
<1>6. Size(1..n) \in N
  <2> HIDE DEF N
  <2> QED BY <1>1, <1>3, <1>4, <1>5, SetInduction
<1>7. PICK f : \A T \in D : f[T] = Value(f, T)
  <2> HIDE DEF Value
  <2> QED BY <1>1, <1>6
<1> DEFINE g == [T \in D |-> f[T]]
<1>8. \A T \in D : g[T] = Value(g, T)
  <2> SUFFICES ASSUME NEW T \in D
               PROVE  g[T] = Value(g, T)
    OBVIOUS
  <2>1. T # {} => g[T \ {Rates!Max(T)}] = f[T \ {Rates!Max(T)}]
    BY <1>2
  <2>2. g[T] = f[T] /\ f[T] = Value(f, T)
    <3> HIDE DEF Value
    <3> QED BY <1>7
  <2> HIDE DEF g
  <2> QED BY <2>1, <2>2
<1>9. g = [T \in D |-> Value(g, T)]
  <2> DEFINE h == [T \in D |-> Value(g, T)]
  <2>1. \A T \in D : g[T] = h[T]
    <3> HIDE DEF Value, g
    <3> QED BY <1>8
  <2> HIDE DEF Value
  <2> QED BY <2>1
<1>10. g = Fold(samples, n, g)
  BY <1>9 DEF D, Fold
<1> HIDE DEF g
<1> QED BY <1>10

\* What a cycle returns is what one gets by observing one endpoint after the
\* other.
LEMMA ObserveSteps ==
  ASSUME NEW n \in Nat, DOMAIN Targets = 1..n, NEW samples
  PROVE  \E a : /\ a[0] = Start
                /\ \A k \in 1..n : a[k] = Step(samples, a[k - 1], k)
                /\ Rates!ObserveEndpoints(samples) = a[n]
<1> DEFINE f == CHOOSE g : g = Fold(samples, n, g)
           a == [k \in 0..n |-> f[1..k]]
<1>1. f = Fold(samples, n, f)
  BY FoldExists
<1>2. Rates!ObserveEndpoints(samples) = f[1..n]
  BY DEF Rates!ObserveEndpoints, Rates!FoldLeft, Rates!MapThenFoldSet, Start, Step, Fold
<1>3. f[{}] = Start
  <2> HIDE DEF f
  <2> QED BY <1>1 DEF Fold
<1>4. ASSUME NEW k \in 1..n
      PROVE  f[1..k] = Step(samples, f[1..(k - 1)], k)
  <2>1. 1..k \in SUBSET (1..n) /\ 1..k # {}
    <3>1. k \in Nat /\ 1 <= k /\ k <= n
      OBVIOUS
    <3>2. \A i \in 1..k : i \in 1..n
      BY <3>1
    <3>3. k \in 1..k
      BY <3>1
    <3> QED BY <3>2, <3>3
  <2>2. Rates!Max(1..k) = k
    BY DEF Rates!Max
  <2>3. (1..k) \ {k} = 1..(k - 1)
    OBVIOUS
  <2> HIDE DEF f
  <2> QED BY <1>1, <2>1, <2>2, <2>3 DEF Fold
<1> HIDE DEF f
<1>5. a[0] = Start
  BY <1>3, 1..0 = {}
<1>6. \A k \in 1..n : a[k] = Step(samples, a[k - 1], k)
  BY <1>4
<1>7. Rates!ObserveEndpoints(samples) = a[n]
  BY <1>2
<1> HIDE DEF a
<1> QED BY <1>5, <1>6, <1>7

\* What observing the first k endpoints makes of the tracker: those that were
\* counted have this cycle's sample, and a rate, if any, from the last one.
Seen(samples, k, t) == samples[t].counted /\ \E j \in 1..k : Targets[j] = t
After(samples, k, a) ==
  /\ DOMAIN a.rates = Rates!TargetSet
  /\ \A t \in Rates!TargetSet :
       /\ Redacted(t) \in DOMAIN a.endpoints <=>
            Redacted(t) \in DOMAIN endpoints \/ Seen(samples, k, t)
       /\ ~Seen(samples, k, t) =>
            /\ a.rates[t] = None
            /\ Redacted(t) \in DOMAIN endpoints =>
                 a.endpoints[Redacted(t)] = endpoints[Redacted(t)]
       /\ Seen(samples, k, t) =>
            /\ a.endpoints[Redacted(t)] = [value |-> samples[t].value, at |-> now]
            /\ a.rates[t] # None =>
                 /\ Redacted(t) \in DOMAIN endpoints
                 /\ a.rates[t] = Rates!Rate(endpoints[Redacted(t)], samples[t].value)

\* One endpoint more: its own key changes, and a second sample of the same
\* target in one cycle is no time later.
LEMMA AfterStep ==
  ASSUME OwnKeys, now \in Int, NEW n \in Nat, DOMAIN Targets = 1..n, NEW samples,
         NEW k \in 1..n, NEW a, After(samples, k - 1, a)
  PROVE  After(samples, k, Step(samples, a, k))
<1> DEFINE u == Targets[k]
           key == Redacted(u)
           sample == samples[u]
           b == Step(samples, a, k)
<1>1. u \in Rates!TargetSet
  BY DEF Rates!TargetSet
<1>2. \A t \in Rates!TargetSet \ {u} : /\ Seen(samples, k, t) <=> Seen(samples, k - 1, t)
                                       /\ Redacted(t) # key
  <2>1. \A j \in 1..k : j \in 1..(k - 1) \/ j = k
    OBVIOUS
  <2>2. \A j \in 1..(k - 1) : j \in 1..k
    OBVIOUS
  <2> QED BY <1>1, <2>1, <2>2 DEF Seen, OwnKeys
<1>3. CASE ~sample.counted
  <2>1. b = a
    BY <1>3 DEF Step, Rates!ObserveEndpoint
  <2>2. ~Seen(samples, k, u) /\ ~Seen(samples, k - 1, u)
    BY <1>3 DEF Seen
  <2> HIDE DEF u, key, sample, b
  <2>3. After(samples, k, a)
    BY <1>2, <2>2 DEF After
  <2> QED BY <2>1, <2>3 DEF b
<1>4. CASE sample.counted
  <2> DEFINE rate == IF key \in DOMAIN a.endpoints
                     THEN Rates!Rate(a.endpoints[key], sample.value) ELSE None
             new == [value |-> sample.value, at |-> now]
  <2>1. /\ b.endpoints = [x \in DOMAIN a.endpoints \cup {key} |->
                            IF x = key THEN new ELSE a.endpoints[x]]
        /\ b.rates = [a.rates EXCEPT ![u] = rate]
    BY <1>4 DEF Step, Rates!ObserveEndpoint
  <2>2. Seen(samples, k, u)
    BY <1>4, k \in 1..k DEF Seen
  <2>3. /\ DOMAIN b.endpoints = DOMAIN a.endpoints \cup {key} /\ b.endpoints[key] = new
        /\ \A x \in DOMAIN a.endpoints \ {key} : b.endpoints[x] = a.endpoints[x]
    BY <2>1
  <2>4. /\ DOMAIN b.rates = Rates!TargetSet /\ b.rates[u] = rate
        /\ \A t \in Rates!TargetSet \ {u} : b.rates[t] = a.rates[t]
    BY <1>1, <2>1 DEF After
  <2>5. rate # None => /\ key \in DOMAIN endpoints
                       /\ rate = Rates!Rate(endpoints[key], sample.value)
    <3>1. CASE Seen(samples, k - 1, u)
      <4>1. key \in DOMAIN a.endpoints /\ a.endpoints[key] = new
        <5> HIDE DEF u
        <5> QED BY <1>1, <3>1 DEF After
      <4>2. new.at = now
        OBVIOUS
      <4>3. a.endpoints[key].at = now
        <5> HIDE DEF new, key, u
        <5> QED BY <4>1, <4>2
      <4> HIDE DEF u, key, sample
      <4> QED BY <4>1, <4>3 DEF Rates!Rate
    <3>2. CASE ~Seen(samples, k - 1, u)
      BY <1>1, <3>2 DEF After
    <3> QED BY <3>1, <3>2
  <2> HIDE DEF b, rate, new
  <2>6. ASSUME NEW t \in Rates!TargetSet
        PROVE  /\ Redacted(t) \in DOMAIN b.endpoints <=>
                    Redacted(t) \in DOMAIN endpoints \/ Seen(samples, k, t)
               /\ ~Seen(samples, k, t) =>
                    /\ b.rates[t] = None
                    /\ Redacted(t) \in DOMAIN endpoints =>
                         b.endpoints[Redacted(t)] = endpoints[Redacted(t)]
               /\ Seen(samples, k, t) =>
                    /\ b.endpoints[Redacted(t)] = [value |-> samples[t].value, at |-> now]
                    /\ b.rates[t] # None =>
                         /\ Redacted(t) \in DOMAIN endpoints
                         /\ b.rates[t] = Rates!Rate(endpoints[Redacted(t)], samples[t].value)
    <3>1. CASE t = u
      BY <2>2, <2>3, <2>4, <2>5, <3>1 DEF new
    <3>2. CASE t # u
      <4> HIDE DEF u, key, sample
      <4> QED BY <1>2, <2>3, <2>4, <3>2 DEF After
    <3> QED BY <3>1, <3>2
  <2>7. After(samples, k, b)
    BY <2>4, <2>6 DEF After
  <2> QED BY <2>7 DEF b
<1> QED BY <1>3, <1>4

\* So much for a whole cycle: every target has been looked at.
LEMMA CycleFacts ==
  ASSUME Rates!RatesAssumption, OwnKeys, now \in Int, NEW samples
  PROVE  LET a == Rates!ObserveEndpoints(samples)
         IN  \A t \in Rates!TargetSet :
               /\ Redacted(t) \in DOMAIN a.endpoints <=>
                    Redacted(t) \in DOMAIN endpoints \/ samples[t].counted
               /\ ~samples[t].counted =>
                    /\ a.rates[t] = None
                    /\ Redacted(t) \in DOMAIN endpoints =>
                         a.endpoints[Redacted(t)] = endpoints[Redacted(t)]
               /\ samples[t].counted =>
                    /\ a.endpoints[Redacted(t)] = [value |-> samples[t].value, at |-> now]
                    /\ a.rates[t] # None =>
                         /\ Redacted(t) \in DOMAIN endpoints
                         /\ a.rates[t] = Rates!Rate(endpoints[Redacted(t)], samples[t].value)
<1> DEFINE n == Len(Targets)
<1>1. n \in Nat /\ DOMAIN Targets = 1..n
  BY DEF Rates!RatesAssumption
<1> HIDE DEF n
<1>2. PICK a : /\ a[0] = Start
               /\ \A k \in 1..n : a[k] = Step(samples, a[k - 1], k)
               /\ Rates!ObserveEndpoints(samples) = a[n]
  BY <1>1, ObserveSteps
<1> DEFINE N == {k \in Nat : k <= n => After(samples, k, a[k])}
<1>3. 0 \in N
  <2>1. \A t : ~Seen(samples, 0, t)
    BY DEF Seen
  <2>2. After(samples, 0, Start)
    BY <2>1 DEF After, Start
  <2> QED BY <1>2, <2>2
<1>4. ASSUME NEW k \in Nat, k \in N
      PROVE  k + 1 \in N
  <2> SUFFICES ASSUME k + 1 <= n
               PROVE  After(samples, k + 1, a[k + 1])
    OBVIOUS
  <2>1. k + 1 \in 1..n /\ (k + 1) - 1 = k /\ k <= n
    BY <1>1
  <2>2. After(samples, (k + 1) - 1, a[k])
    BY <1>4, <2>1
  <2>3. After(samples, k + 1, Step(samples, a[k], k + 1))
    BY <1>1, <2>1, <2>2, AfterStep
  <2> QED BY <1>2, <2>1, <2>3
<1>5. After(samples, n, Rates!ObserveEndpoints(samples))
  <2>1. n \in N
    <3> HIDE DEF N
    <3> QED BY <1>1, <1>3, <1>4, SetInduction
  <2> QED BY <1>1, <1>2, <2>1
<1>6. \A t \in Rates!TargetSet : Seen(samples, n, t) <=> samples[t].counted
  BY <1>1 DEF Seen, Rates!TargetSet
<1> QED BY <1>5, <1>6 DEF After

\* The facts of one cycle, said of the next state.
LEMMA CycleNext ==
  ASSUME Rates!RatesAssumption, WholeScans, OwnKeys, now \in 0..MaxTime, Rates!Cycle
  PROVE  \E samples :
           \A t \in Rates!TargetSet :
             /\ samples[t].counted \in BOOLEAN
             /\ samples[t].counted => samples[t].value \in {None, counter[t]}
             /\ base'[t] = IF samples[t].counted THEN [served |-> served[t], at |-> now]
                           ELSE base[t]
             /\ Redacted(t) \in DOMAIN endpoints' <=>
                  Redacted(t) \in DOMAIN endpoints \/ samples[t].counted
             /\ ~samples[t].counted =>
                  /\ rates'[t] = None
                  /\ Redacted(t) \in DOMAIN endpoints =>
                       endpoints'[Redacted(t)] = endpoints[Redacted(t)]
             /\ samples[t].counted =>
                  /\ endpoints'[Redacted(t)] = [value |-> samples[t].value, at |-> now]
                  /\ rates'[t] # None =>
                       /\ Redacted(t) \in DOMAIN endpoints
                       /\ rates'[t] = Rates!Rate(endpoints[Redacted(t)], samples[t].value)
<1>1. PICK samples :
        /\ \A t \in Rates!TargetSet : samples[t] \in Rates!SampleOf(t)
        /\ endpoints' = Rates!ObserveEndpoints(samples).endpoints
        /\ rates' = Rates!ObserveEndpoints(samples).rates
        /\ base' = [t \in Rates!TargetSet |->
                      IF Rates!Counted(samples, t) THEN [served |-> served[t], at |-> now]
                      ELSE base[t]]
  BY DEF Rates!Cycle
<1>2. ASSUME NEW t \in Rates!TargetSet
      PROVE  /\ samples[t].counted \in BOOLEAN
             /\ samples[t].counted => samples[t].value \in {None, counter[t]}
  <2>1. PICK scrape \in Scrapes : samples[t] \in Rates!Sample(t, scrape)
    BY <1>1 DEF Rates!SampleOf
  <2>2. scrape \in {"down", "noCounters", "noFamily", "full"}
    BY <2>1 DEF WholeScans, Rates!RatesAssumption
  <2> DEFINE away == [counted |-> FALSE, value |-> None]
             without == [counted |-> TRUE, value |-> None]
             with == [counted |-> TRUE, value |-> counter[t]]
  <2>3. samples[t] \in {away, without, with}
    BY <2>1, <2>2 DEF Rates!Sample
  <2>4. /\ away.counted = FALSE
        /\ without.counted = TRUE /\ without.value = None
        /\ with.counted = TRUE /\ with.value = counter[t]
    OBVIOUS
  <2> HIDE DEF away, without, with
  <2> QED BY <2>3, <2>4, Zenon
<1>3. \A t \in Rates!TargetSet :
        base'[t] = IF samples[t].counted THEN [served |-> served[t], at |-> now]
                   ELSE base[t]
  BY <1>1 DEF Rates!Counted
<1> DEFINE a == Rates!ObserveEndpoints(samples)
<1>4. now \in Int
  BY DEF Rates!RatesAssumption
<1>5. \A t \in Rates!TargetSet :
        /\ Redacted(t) \in DOMAIN a.endpoints <=>
             Redacted(t) \in DOMAIN endpoints \/ samples[t].counted
        /\ ~samples[t].counted =>
             /\ a.rates[t] = None
             /\ Redacted(t) \in DOMAIN endpoints =>
                  a.endpoints[Redacted(t)] = endpoints[Redacted(t)]
        /\ samples[t].counted =>
             /\ a.endpoints[Redacted(t)] = [value |-> samples[t].value, at |-> now]
             /\ a.rates[t] # None =>
                  /\ Redacted(t) \in DOMAIN endpoints
                  /\ a.rates[t] = Rates!Rate(endpoints[Redacted(t)], samples[t].value)
  BY <1>4, CycleFacts
<1>6. endpoints' = a.endpoints /\ rates' = a.rates
  BY <1>1
<1> HIDE DEF a
<1>7. ASSUME NEW t \in Rates!TargetSet
      PROVE  /\ Redacted(t) \in DOMAIN endpoints' <=>
                  Redacted(t) \in DOMAIN endpoints \/ samples[t].counted
             /\ ~samples[t].counted =>
                  /\ rates'[t] = None
                  /\ Redacted(t) \in DOMAIN endpoints =>
                       endpoints'[Redacted(t)] = endpoints[Redacted(t)]
             /\ samples[t].counted =>
                  /\ endpoints'[Redacted(t)] = [value |-> samples[t].value, at |-> now]
                  /\ rates'[t] # None =>
                       /\ Redacted(t) \in DOMAIN endpoints
                       /\ rates'[t] = Rates!Rate(endpoints[Redacted(t)], samples[t].value)
  BY <1>5, <1>6
<1> QED BY <1>2, <1>3, <1>7

-----------------------------------------------------------------------------
(* The invariant of the rates.                                             *)

\* It holds before the first cycle.
LEMMA RatesInitially ==
  ASSUME Rates!RatesAssumption
  PROVE  Rates!Init => RateInv
BY DEF Rates!RatesAssumption, Rates!Init, Rates!Nothing, RateInv

\* A cycle keeps it: what it counts is the endpoint's own sample of now.
LEMMA RatesCycle ==
  ASSUME Rates!RatesAssumption, WholeScans, OwnKeys, RateInv, Rates!Cycle
  PROVE  RateInv'
<1>1. now \in 0..MaxTime /\ MaxTime \in Nat /\ MaxCount \in Nat
  BY DEF RateInv, Rates!RatesAssumption
<1>2. PICK samples :
        \A t \in Rates!TargetSet :
          /\ samples[t].counted \in BOOLEAN
          /\ samples[t].counted => samples[t].value \in {None, counter[t]}
          /\ base'[t] = IF samples[t].counted THEN [served |-> served[t], at |-> now]
                        ELSE base[t]
          /\ Redacted(t) \in DOMAIN endpoints' <=>
               Redacted(t) \in DOMAIN endpoints \/ samples[t].counted
          /\ ~samples[t].counted =>
               /\ Redacted(t) \in DOMAIN endpoints =>
                    endpoints'[Redacted(t)] = endpoints[Redacted(t)]
          /\ samples[t].counted =>
               /\ endpoints'[Redacted(t)] = [value |-> samples[t].value, at |-> now]
  BY <1>1, CycleNext
<1>3. served' = served /\ counter' = counter /\ now' \in 0..MaxTime
  BY DEF Rates!Cycle
<1>4. /\ served' \in [Rates!TargetSet -> 0..MaxCount]
      /\ counter' \in [Rates!TargetSet -> Nat]
  BY <1>3 DEF RateInv
<1>5. base' \in [Rates!TargetSet -> {None} \cup [served : 0..MaxCount, at : 0..MaxTime]]
  <2>1. DOMAIN base' = Rates!TargetSet
            /\ base' = [t \in Rates!TargetSet |-> base'[t]]
    BY DEF Rates!Cycle
  <2>2. ASSUME NEW t \in Rates!TargetSet
        PROVE  base'[t] \in {None} \cup [served : 0..MaxCount, at : 0..MaxTime]
    <3>1. /\ base[t] \in {None} \cup [served : 0..MaxCount, at : 0..MaxTime]
          /\ served[t] \in 0..MaxCount
      BY DEF RateInv
    <3>2. [served |-> served[t], at |-> now] \in [served : 0..MaxCount, at : 0..MaxTime]
      BY <1>1, <3>1
    <3> QED BY <1>2, <3>1, <3>2
  <2> QED BY <2>1, <2>2
<1>6. ASSUME NEW t \in Rates!TargetSet
      PROVE  /\ base'[t] # None <=> Redacted(t) \in DOMAIN endpoints'
             /\ base'[t] # None =>
                  /\ endpoints'[Redacted(t)].at = base'[t].at
                  /\ endpoints'[Redacted(t)].value # None =>
                       /\ endpoints'[Redacted(t)].value \in Nat
                       /\ counter[t] - endpoints'[Redacted(t)].value
                            <= served[t] - base'[t].served
  <2> DEFINE key == Redacted(t)
  <2>1. /\ base[t] # None <=> key \in DOMAIN endpoints
        /\ base[t] # None =>
             /\ endpoints[key].at = base[t].at
             /\ endpoints[key].value # None =>
                  /\ endpoints[key].value \in Nat
                  /\ counter[t] - endpoints[key].value <= served[t] - base[t].served
        /\ counter[t] \in Nat /\ served[t] \in 0..MaxCount
    BY DEF RateInv
  <2>2. CASE samples[t].counted
    <3> DEFINE new == [served |-> served[t], at |-> now]
               sample == [value |-> samples[t].value, at |-> now]
    <3>1. base'[t] = new /\ endpoints'[key] = sample /\ key \in DOMAIN endpoints'
          /\ samples[t].value \in {None, counter[t]}
      BY <1>2, <2>2
    <3>2. new # None
      <4>1. new \in [served : 0..MaxCount, at : 0..MaxTime]
        BY <1>1, <2>1
      <4> HIDE DEF new
      <4> QED BY <4>1 DEF Rates!RatesAssumption
    <3>3. new.served = served[t] /\ new.at = now /\ sample.at = now
          /\ sample.value = samples[t].value
      OBVIOUS
    <3>4. served[t] - served[t] = 0 /\ counter[t] - counter[t] = 0
      BY <1>1, <2>1
    <3> HIDE DEF new, sample, key
    <3>5. base'[t].served = served[t] /\ base'[t].at = now
          /\ endpoints'[key].at = now /\ endpoints'[key].value \in {None, counter[t]}
      BY <3>1, <3>3
    <3>6. ASSUME endpoints'[key].value # None
          PROVE  /\ endpoints'[key].value \in Nat
                 /\ counter[t] - endpoints'[key].value <= served[t] - base'[t].served
      BY <2>1, <3>4, <3>5, <3>6
    <3> QED BY <3>1, <3>2, <3>5, <3>6 DEF key
  <2>3. CASE ~samples[t].counted
    <3>1. base'[t] = base[t] /\ (key \in DOMAIN endpoints' <=> key \in DOMAIN endpoints)
          /\ (key \in DOMAIN endpoints => endpoints'[key] = endpoints[key])
      BY <1>2, <2>3
    <3> HIDE DEF key
    <3> QED BY <2>1, <3>1 DEF key
  <2> QED BY <1>2, <2>2, <2>3
<1> QED BY <1>3, <1>4, <1>5, <1>6 DEF RateInv

\* So does every step: a counter and the work behind it grow together, and a
\* restart only takes from the counter.
LEMMA RatesStep ==
  ASSUME Rates!RatesAssumption, WholeScans, OwnKeys
  PROVE  RateInv /\ [Rates!Next]_(Rates!vars) => RateInv'
<1> SUFFICES ASSUME RateInv, [Rates!Next]_(Rates!vars)
             PROVE  RateInv'
  OBVIOUS
<1>1. CASE Rates!Cycle
  BY <1>1, RatesCycle
<1>2. CASE Rates!CycleWithoutProbes
  BY <1>2 DEF Rates!CycleWithoutProbes, Rates!Nothing, RateInv
<1>3. ASSUME NEW u \in Rates!TargetSet, Rates!Serve(u)
      PROVE  RateInv'
  <2>1. /\ served' = [served EXCEPT ![u] = @ + 1] /\ counter' = [counter EXCEPT ![u] = @ + 1]
        /\ UNCHANGED <<now, endpoints, rates, base>> /\ served[u] < MaxCount
    BY <1>3 DEF Rates!Serve
  <2>2. /\ served \in [Rates!TargetSet -> 0..MaxCount] /\ MaxCount \in Nat
        /\ counter \in [Rates!TargetSet -> Nat]
    BY DEF RateInv, Rates!RatesAssumption
  <2>3. served' \in [Rates!TargetSet -> 0..MaxCount] /\ counter' \in [Rates!TargetSet -> Nat]
    BY <2>1, <2>2
  <2>4. ASSUME NEW t \in Rates!TargetSet, base[t] # None, endpoints[Redacted(t)].value # None
        PROVE  /\ endpoints[Redacted(t)].value \in Nat
               /\ counter'[t] - endpoints[Redacted(t)].value <= served'[t] - base[t].served
    <3>1. /\ endpoints[Redacted(t)].value \in Nat
          /\ counter[t] - endpoints[Redacted(t)].value <= served[t] - base[t].served
          /\ base[t].served \in Int
      BY <2>4 DEF RateInv
    <3>2. CASE t = u
      <4>1. counter'[t] = counter[t] + 1 /\ served'[t] = served[t] + 1
            /\ counter[t] \in Nat /\ served[t] \in Int
        BY <2>1, <2>2, <3>2
      <4> QED BY <3>1, <4>1
    <3>3. CASE t # u
      <4>1. counter'[t] = counter[t] /\ served'[t] = served[t]
        BY <2>1, <2>2, <3>3
      <4> QED BY <3>1, <4>1
    <3> QED BY <3>2, <3>3
  <2> QED BY <2>1, <2>3, <2>4 DEF RateInv
<1>4. ASSUME NEW u \in Rates!TargetSet, Rates!Restart(u)
      PROVE  RateInv'
  <2>1. /\ counter' = [counter EXCEPT ![u] = 0]
        /\ UNCHANGED <<now, served, endpoints, rates, base>>
    BY <1>4 DEF Rates!Restart
  <2>2. counter \in [Rates!TargetSet -> Nat] /\ served \in [Rates!TargetSet -> 0..MaxCount]
    BY DEF RateInv
  <2>3. counter' \in [Rates!TargetSet -> Nat]
    BY <2>1, <2>2
  <2>4. ASSUME NEW t \in Rates!TargetSet, base[t] # None, endpoints[Redacted(t)].value # None
        PROVE  /\ endpoints[Redacted(t)].value \in Nat
               /\ counter'[t] - endpoints[Redacted(t)].value <= served[t] - base[t].served
    <3>1. /\ endpoints[Redacted(t)].value \in Nat
          /\ counter[t] - endpoints[Redacted(t)].value <= served[t] - base[t].served
          /\ base[t].served \in Int /\ served[t] \in Int /\ counter[t] \in Nat
      BY <2>2, <2>4 DEF RateInv
    <3>2. counter'[t] \in Int /\ counter'[t] <= counter[t]
      BY <2>1, <2>2, <3>1
    <3> QED BY <3>1, <3>2
  <2> QED BY <2>1, <2>3, <2>4 DEF RateInv
<1>5. CASE UNCHANGED Rates!vars
  BY <1>5 DEF Rates!vars, RateInv
<1> QED BY <1>1, <1>2, <1>3, <1>4, <1>5 DEF Rates!Next

\* What a cycle reports is a growth of the counter, which RateInv bounds.
LEMMA EarnedCycle ==
  ASSUME Rates!RatesAssumption, WholeScans, OwnKeys, RateInv, Rates!Cycle
  PROVE  \A t \in Rates!TargetSet : rates'[t] # None =>
           /\ base[t] # None
           /\ rates'[t].over = now - base[t].at /\ rates'[t].over > 0
           /\ rates'[t].delta >= 0
           /\ rates'[t].delta <= served[t] - base[t].served
<1> SUFFICES ASSUME NEW t \in Rates!TargetSet, rates'[t] # None
             PROVE  /\ base[t] # None
                    /\ rates'[t].over = now - base[t].at /\ rates'[t].over > 0
                    /\ rates'[t].delta >= 0
                    /\ rates'[t].delta <= served[t] - base[t].served
  OBVIOUS
<1> DEFINE previous == endpoints[Redacted(t)]
<1>1. now \in 0..MaxTime /\ MaxTime \in Nat
  BY DEF RateInv, Rates!RatesAssumption
<1>2. PICK samples :
        \A u \in Rates!TargetSet :
          /\ samples[u].counted \in BOOLEAN
          /\ samples[u].counted => samples[u].value \in {None, counter[u]}
          /\ ~samples[u].counted => rates'[u] = None
          /\ samples[u].counted /\ rates'[u] # None =>
               /\ Redacted(u) \in DOMAIN endpoints
               /\ rates'[u] = Rates!Rate(endpoints[Redacted(u)], samples[u].value)
  <2>1. PICK samples :
          \A u \in Rates!TargetSet :
            /\ samples[u].counted \in BOOLEAN
            /\ samples[u].counted => samples[u].value \in {None, counter[u]}
            /\ ~samples[u].counted =>
                 /\ rates'[u] = None
                 /\ Redacted(u) \in DOMAIN endpoints =>
                      endpoints'[Redacted(u)] = endpoints[Redacted(u)]
            /\ samples[u].counted =>
                 /\ endpoints'[Redacted(u)] = [value |-> samples[u].value, at |-> now]
                 /\ rates'[u] # None =>
                      /\ Redacted(u) \in DOMAIN endpoints
                      /\ rates'[u] = Rates!Rate(endpoints[Redacted(u)], samples[u].value)
    BY <1>1, CycleNext
  <2> QED BY <2>1
<1> DEFINE value == samples[t].value
<1>3. /\ Redacted(t) \in DOMAIN endpoints /\ value \in {None, counter[t]}
      /\ rates'[t] = Rates!Rate(previous, value)
  BY <1>2
<1>4. /\ base[t] # None /\ previous.at = base[t].at
      /\ previous.value # None =>
           /\ previous.value \in Nat
           /\ counter[t] - previous.value <= served[t] - base[t].served
      /\ counter[t] \in Nat /\ base[t] \in [served : 0..MaxCount, at : 0..MaxTime]
  BY <1>3 DEF RateInv
<1> HIDE DEF previous, value
<1>5. /\ ~(now <= previous.at) /\ Rates!Delta(previous.value, value) # None
      /\ rates'[t] = [delta |-> Rates!Delta(previous.value, value),
                      over |-> now - previous.at]
  BY <1>3 DEF Rates!Rate
<1>6. /\ previous.value # None /\ value = counter[t] /\ value >= previous.value
      /\ Rates!Delta(previous.value, value) = value - previous.value
  BY <1>3, <1>5 DEF Rates!Delta
<1>7. rates'[t].delta = counter[t] - previous.value /\ rates'[t].over = now - previous.at
  BY <1>5, <1>6
<1>8. base[t].at \in Int /\ now \in Int
  BY <1>1, <1>4
<1> QED BY <1>4, <1>5, <1>6, <1>7, <1>8

\* A rate is earned: for any targets with keys of their own and scans that reach
\* the end, any counters, restarts and clock, what a cycle reports is no more
\* than the endpoint did since its own previous sample, over the time between.
THEOREM RatesAreEarned ==
  ASSUME Rates!RatesAssumption, WholeScans, OwnKeys
  PROVE  Rates!Spec => Rates!RateNeverFabricated
<1> DEFINE Earned == base' # base =>
             \A t \in Rates!TargetSet : rates'[t] # None =>
               /\ base[t] # None
               /\ rates'[t].over = now - base[t].at /\ rates'[t].over > 0
               /\ rates'[t].delta >= 0
               /\ rates'[t].delta <= served[t] - base[t].served
<1>1. RateInv /\ [Rates!Next]_(Rates!vars) => [Earned]_(Rates!vars)
  <2> SUFFICES ASSUME RateInv, Rates!Next, base' # base
               PROVE  Earned
    OBVIOUS
  <2>1. CASE Rates!CycleWithoutProbes
    BY <2>1 DEF Rates!CycleWithoutProbes
  <2>2. CASE Rates!Cycle
    BY <2>2, EarnedCycle
  <2>3. CASE \E t \in Rates!TargetSet : Rates!Serve(t) \/ Rates!Restart(t)
    BY <2>3 DEF Rates!Serve, Rates!Restart
  <2> QED BY <2>1, <2>2, <2>3 DEF Rates!Next
<1>2. Rates!Init => RateInv
  BY RatesInitially
<1>3. RateInv /\ [Rates!Next]_(Rates!vars) => RateInv'
  BY RatesStep
<1> HIDE DEF Earned
<1>4. Rates!Spec => [][Earned]_(Rates!vars)
  BY <1>1, <1>2, <1>3, PTL DEF Rates!Spec
<1> QED BY <1>4 DEF Earned, Rates!RateNeverFabricated

-----------------------------------------------------------------------------
(* Fingerprints of processes.                                              *)

CONSTANTS Pids, Images, Zombie, Versions, MaxArgs, MaxLibraries, MaxChanges
VARIABLES procs, pins, changes, files, todo, pid, handle, reads, driver, fingerprints, held

Runtime == INSTANCE Fingerprint WITH processes <- fingerprints

\* What may run, and what a read may return.
Programs == Images \cup {Zombie}
Alive == [born : Nat, image : Programs]
Replies == [ok : Nat \cup {i.argv : i \in Programs} \cup {i.maps : i \in Programs}]
           \cup [error : {"exited", "denied"}]

\* The parts of FingerprintSound, of a fingerprint f and the programs h that
\* had its number.
Ran(h) == {h[k].image : k \in DOMAIN h}
Tells(f, i) ==
  /\ f.sources.command.state = "observed" => Runtime!ParseCommand(i.argv) = f.command
  /\ f.sources.maps.state = "observed" => i.maps # None /\ Runtime!ParseMaps(i.maps) = f.maps
OneProcess(f, h) ==
  IF f.identity = "stable" THEN \A k \in DOMAIN h : h[k].born = h[1].born
  ELSE f.command = Runtime!NoCommand /\ f.maps = Runtime!NoMaps
OneProgram(f, h) == f.identity = "stable" /\ Len(h) <= 2 => \E i \in Ran(h) : Tells(f, i)
SaidOnce(argv, e, field, value) ==
  LET said == Runtime!ValuesOf(argv, e, field)
  IN  /\ e \in Runtime!ParseCommand(argv).engines
      /\ said.count <= 1
      /\ field # "model" =>
           /\ said.count = 1
           /\ \E v \in said.values : Runtime!Parsed(field, v) = value
OneValue(f, h) ==
  \A e \in f.command.engines, field \in Runtime!Fields :
    f.command.launch[field].state = "observed" =>
      \E i \in Ran(h) : SaidOnce(i.argv, e, field, f.command.launch[field].value)
Whole(f, h) ==
  /\ f.identity = "stable"
  /\ f.sources.command = Runtime!Source("observed", None)
  /\ f.sources.maps = Runtime!Source("observed", None)
  => \E i, j \in Ran(h) : i.argv # <<>> /\ j.maps # None
Told(f, h) ==
  /\ {"command", "maps"} \subseteq DOMAIN f.sources
  /\ OneProcess(f, h) /\ OneProgram(f, h) /\ OneValue(f, h) /\ Whole(f, h)

\* The reads r so far, each of a program that had the number, in order.
Failed(x) == "error" \in DOMAIN x
OfCommand(x, i) == Failed(x) \/ x = [ok |-> i.argv]
OfMaps(x, i) == Failed(x) \/ (i.maps # None /\ x = [ok |-> i.maps])
Ordered(h, r, a, b, c) ==
  /\ a <= b /\ b <= c
  /\ Len(r) >= 2 => OfCommand(r[2], h[a].image)
  /\ Len(r) >= 3 => OfMaps(r[3], h[b].image)
  /\ Len(r) >= 4 => OfCommand(r[4], h[c].image)
Witnessed(h, r) ==
  /\ Len(h) >= 1 /\ r[1] = [ok |-> h[1].born]
  /\ \E a, b, c \in 1..Len(h) : Ordered(h, r, a, b, c)

\* A process keeps its start time and a successor has a later one.
ProcessInv ==
  /\ procs \in [Pids -> {None} \cup Alive] /\ changes \in Nat
  /\ held \in [Pids -> Seq(Alive)]
  /\ \A p \in Pids :
       /\ procs[p] # None => procs[p].born <= changes
       /\ \A k \in DOMAIN held[p] :
            /\ held[p][k].born <= changes
            /\ procs[p] # None => held[p][k].born <= procs[p].born
            /\ \A j \in 1..k : held[p][j].born <= held[p][k].born

\* What was read of the process that is inspected.
InspectionInv ==
  /\ todo \subseteq Pids /\ pid \in todo \cup {None}
  /\ reads \in Seq(Replies) /\ Len(reads) <= 4
  /\ pid = None => reads = <<>>
  /\ Len(reads) >= 2 => ~Failed(reads[1])
  /\ reads # <<>> /\ ~Failed(reads[1]) =>
       /\ Witnessed(held[pid], reads)
       /\ procs[pid] # None => procs[pid] = held[pid][Len(held[pid])]

\* And what was told of the others, whose histories have ended.
ToldInv ==
  /\ DOMAIN fingerprints = Pids \ todo
  /\ driver \in {None, Runtime!Driver(files.sys, files.proc)}
  /\ DOMAIN fingerprints # {} \/ pid # None => driver = Runtime!Driver(files.sys, files.proc)
  /\ \A p \in DOMAIN fingerprints : Told(fingerprints[p], held[p])

RuntimeInv == ProcessInv /\ InspectionInv /\ ToldInv

-----------------------------------------------------------------------------
(* What a command line says.                                               *)

\* The instance counts as this module does.
LEMMA SameCount ==
  ASSUME NEW S
  PROVE  Runtime!Cardinality(S) = Cardinality(S)
BY DEF Runtime!Cardinality, Runtime!IsFiniteSet, Cardinality, IsFiniteSet

\* The values of a function on a finite set are finitely many.
LEMMA FiniteImage ==
  ASSUME NEW S, IsFiniteSet(S), NEW f
  PROVE  IsFiniteSet({f[x] : x \in S})
<1> DEFINE T == {f[x] : x \in S}
           g == [x \in S |-> f[x]]
<1>1. g \in Surjection(S, T)
  BY DEF Surjection
<1> HIDE DEF g, T
<1>2. IsFiniteSet(T)
  BY <1>1, FS_Surjection
<1> QED BY <1>2 DEF T

\* A finite set that has no more than one element has no two.
LEMMA AtMostOne ==
  ASSUME NEW S, IsFiniteSet(S), ~(Runtime!Cardinality(S) > 1), NEW x \in S
  PROVE  S = {x}
<1>1. Cardinality(S) \in Nat /\ Cardinality(S) <= 1
  BY FS_CardinalityType, SameCount
<1>2. IsFiniteSet(S \ {x}) /\ Cardinality(S \ {x}) = Cardinality(S) - 1
  BY FS_RemoveElement
<1>3. Cardinality(S \ {x}) \in Nat
  BY <1>2, FS_CardinalityType
<1>4. Cardinality(S \ {x}) = 0
  BY <1>1, <1>2, <1>3
<1>5. S \ {x} = {}
  BY <1>2, <1>4, FS_EmptySet
<1> QED BY <1>5

\* A command line starts at most one engine: the first word is a program or
\* the interpreter, and of that only the first -m that is no value counts.
LEMMA OneLaunch ==
  ASSUME NEW argv, Len(argv) \in Nat,
         NEW l \in Runtime!Launch(argv), NEW m \in Runtime!Launch(argv)
  PROVE  l = m /\ l.after \in Nat
<1> DEFINE Native == {[engine |-> Runtime!Engines[e], after |-> 1] :
                        e \in {e \in DOMAIN Runtime!Engines : Runtime!Plain(argv[1], e)}}
           Starts == {i \in Runtime!Entry(argv) :
                        /\ Runtime!Plain(argv[1], "python3")
                        /\ argv[i + 1].text \in DOMAIN Runtime!Modules
                        /\ argv[i + 1].inline = None}
           Started == {[engine |-> Runtime!Modules[argv[i + 1].text], after |-> i + 1] :
                         i \in Starts}
<1>1. \A i, j \in Runtime!Entry(argv) : ~(i < j)
  BY DEF Runtime!Entry, Runtime!OptionValue, Runtime!Plain, Runtime!AsWord
<1>2. Runtime!Entry(argv) \subseteq Nat
  BY DEF Runtime!Entry
<1>3. \A i, j \in Runtime!Entry(argv) : i = j
  BY <1>1, <1>2
<1>4. Runtime!Launch(argv) \subseteq Native \cup Started
  BY DEF Runtime!Launch
<1>5. \A e, d \in DOMAIN Runtime!Engines :
        Runtime!Plain(argv[1], e) /\ Runtime!Plain(argv[1], d) => e = d
  BY DEF Runtime!Plain, Runtime!AsWord
<1>6. \A e \in DOMAIN Runtime!Engines :
        ~(Runtime!Plain(argv[1], e) /\ Runtime!Plain(argv[1], "python3"))
  BY DEF Runtime!Plain, Runtime!AsWord, Runtime!Engines
<1>7. \A a \in Native, b \in Native : a = b /\ a.after \in Nat
  BY <1>5
<1>8. \A a \in Started, b \in Started : a = b /\ a.after \in Nat
  BY <1>2, <1>3
<1>9. \A a \in Native, b \in Started : FALSE
  BY <1>6
<1> HIDE DEF Native, Started
<1> QED BY <1>4, <1>7, <1>8, <1>9

\* The flags of a field among the arguments of an engine.
Flags(argv, l, field) ==
  {i \in Runtime!Arguments(argv, l.after) : argv[i].text \in Runtime!FlagsOf[l.engine][field]}
FlagValue(argv, l, field, i) ==
  Runtime!Parsed(field, Runtime!ValueAt(argv, Runtime!Arguments(argv, l.after), i))
\* The places where vllm is told a model without a flag.
Served(argv, l, field) ==
  IF field = "model" /\ l.engine = "vllm"
  THEN {i \in Runtime!Arguments(argv, l.after) :
          /\ Runtime!Plain(argv[i], "serve") /\ i + 1 \in Runtime!Arguments(argv, l.after)
          /\ ~Runtime!Dashed(argv[i + 1]) /\ ~Runtime!Plain(argv[i + 1], "")}
  ELSE {}

\* What is given of a field: its flags, and for some engines the place.
LEMMA GivenFacts ==
  ASSUME NEW argv, Len(argv) \in Nat, NEW l, l.after \in Nat, NEW field
  PROVE  /\ Runtime!Given(argv, l, field) =
              {<<i, FlagValue(argv, l, field, i)>> : i \in Flags(argv, l, field)}
              \cup {<<-i, TRUE>> : i \in Served(argv, l, field)}
         /\ IsFiniteSet(Runtime!Given(argv, l, field))
         /\ Flags(argv, l, field) \subseteq 1..Len(argv)
<1> DEFINE F == {<<i, FlagValue(argv, l, field, i)>> : i \in Flags(argv, l, field)}
           M == {<<-i, TRUE>> : i \in Served(argv, l, field)}
<1>1. Runtime!Given(argv, l, field) = F \cup M
  BY DEF Runtime!Given, Flags, FlagValue, Served
<1>2. Runtime!Arguments(argv, l.after) \subseteq 1..Len(argv)
  BY DEF Runtime!Arguments
<1>3. Flags(argv, l, field) \subseteq 1..Len(argv) /\ Served(argv, l, field) \subseteq 1..Len(argv)
  BY <1>2 DEF Flags, Served
<1>4. IsFiniteSet(1..Len(argv))
  BY FS_Interval, 1 \in Int, Len(argv) \in Int
<1>5. IsFiniteSet(Flags(argv, l, field)) /\ IsFiniteSet(Served(argv, l, field))
  BY <1>3, <1>4, FS_Subset
<1>6. IsFiniteSet(F)
  <2> DEFINE f == [i \in Flags(argv, l, field) |-> <<i, FlagValue(argv, l, field, i)>>]
  <2>1. F = {f[i] : i \in Flags(argv, l, field)}
    OBVIOUS
  <2> HIDE DEF f, F
  <2> QED BY <1>5, <2>1, FiniteImage
<1>7. IsFiniteSet(M)
  <2> DEFINE f == [i \in Served(argv, l, field) |-> <<-i, TRUE>>]
  <2>1. M = {f[i] : i \in Served(argv, l, field)}
    OBVIOUS
  <2> HIDE DEF f, M
  <2> QED BY <1>5, <2>1, FiniteImage
<1>8. IsFiniteSet(F \cup M)
  <2> HIDE DEF F, M
  <2> QED BY <1>6, <1>7, FS_Union
<1> QED BY <1>1, <1>3, <1>8

\* The words a property counts are those the parser takes for flags.
LEMMA SameFlags ==
  ASSUME NEW argv, Len(argv) \in Nat, DOMAIN argv = 1..Len(argv),
         NEW l \in Runtime!Launch(argv), NEW field
  PROVE  LET said == Runtime!ValuesOf(argv, l.engine, field)
         IN  /\ said.count = Runtime!Cardinality(Flags(argv, l, field))
             /\ \A i \in Flags(argv, l, field) :
                  /\ argv[i].inline # None => Runtime!AsWord(argv[i].inline) \in said.values
                  /\ i < Len(argv) => argv[i + 1] \in said.values
<1> DEFINE words == {i \in DOMAIN argv : \E k \in Runtime!Launch(argv) :
                                           k.engine = l.engine /\ k.after < i}
           end == {i \in words : Runtime!Plain(argv[i], "--")}
           flags == {i \in words : /\ argv[i].text \in Runtime!FlagsOf[l.engine][field]
                                   /\ \A j \in end : i < j}
<1>1. l.after \in Nat /\ \A k \in Runtime!Launch(argv) : k = l
  BY OneLaunch
<1>2. words = {i \in 1..Len(argv) : l.after < i}
  BY <1>1
<1>3. flags = {i \in words : /\ argv[i].text \in Runtime!FlagsOf[l.engine][field]
                             /\ \A j \in words : j <= i => ~Runtime!Plain(argv[j], "--")}
  <2>1. \A i \in words : (\A j \in end : i < j)
                         <=> \A j \in words : j <= i => ~Runtime!Plain(argv[j], "--")
    BY <1>2
  <2> QED BY <2>1
<1>4. flags = Flags(argv, l, field)
  <2>1. \A i \in words : (\A j \in words : j <= i => ~Runtime!Plain(argv[j], "--"))
                         <=> i \in Runtime!Arguments(argv, l.after)
    BY <1>1, <1>2 DEF Runtime!Arguments
  <2>2. Runtime!Arguments(argv, l.after) \subseteq words
    BY <1>1, <1>2 DEF Runtime!Arguments
  <2> QED BY <1>3, <2>1, <2>2 DEF Flags
<1>5. Runtime!ValuesOf(argv, l.engine, field) =
        [count |-> Runtime!Cardinality(flags),
         values |-> {Runtime!AsWord(argv[i].inline) : i \in {i \in flags : argv[i].inline # None}}
                    \cup {argv[i + 1] : i \in {i \in flags : i < Len(argv)}}]
  BY DEF Runtime!ValuesOf
<1> HIDE DEF flags
<1> QED BY <1>4, <1>5

\* An observed value is the only one that is given.
LEMMA ObservedFacts ==
  ASSUME NEW given, IsFiniteSet(given), Runtime!Observed(given).state = "observed"
  PROVE  \E g : /\ given = {g} /\ g[2] # None
                /\ Runtime!Observed(given).value = g[2]
<1> DEFINE g == CHOOSE x \in given : TRUE
<1>1. given # {} /\ ~(Runtime!Cardinality(given) > 1)
  BY DEF Runtime!Observed, Runtime!Observation
<1>2. g \in given
  BY <1>1
<1>3. g[2] # None /\ Runtime!Observed(given).value = g[2]
  BY <1>1 DEF Runtime!Observed, Runtime!Observation
<1> HIDE DEF g
<1> QED BY <1>1, <1>2, <1>3, AtMostOne

\* What is told of a field stands in the command line, once.
LEMMA ParsedOnce ==
  ASSUME NEW argv, Len(argv) \in Nat, DOMAIN argv = 1..Len(argv),
         NEW e \in Runtime!ParseCommand(argv).engines, NEW field \in Runtime!Fields,
         Runtime!ParseCommand(argv).launch[field].state = "observed"
  PROVE  SaidOnce(argv, e, field, Runtime!ParseCommand(argv).launch[field].value)
<1> DEFINE c == Runtime!ParseCommand(argv)
<1>1. PICK l \in Runtime!Launch(argv) : l.engine = e
  BY DEF Runtime!ParseCommand
<1>2. l.after \in Nat /\ Runtime!Launch(argv) = {l}
  BY OneLaunch
<1>3. c.launch[field] = Runtime!Observed(Runtime!Given(argv, l, field))
  <2>1. (CHOOSE k \in Runtime!Launch(argv) : TRUE) = l
    BY <1>2
  <2>2. c.launch = [f \in Runtime!Fields |->
          Runtime!Observed(Runtime!Given(argv, CHOOSE k \in Runtime!Launch(argv) : TRUE, f))]
    BY <1>1 DEF Runtime!ParseCommand
  <2> HIDE DEF c
  <2> QED BY <2>1, <2>2
<1> DEFINE given == Runtime!Given(argv, l, field)
           F == {<<i, FlagValue(argv, l, field, i)>> : i \in Flags(argv, l, field)}
           M == {<<-i, TRUE>> : i \in Served(argv, l, field)}
           said == Runtime!ValuesOf(argv, e, field)
<1>4. given = F \cup M /\ IsFiniteSet(given) /\ Flags(argv, l, field) \subseteq 1..Len(argv)
  BY <1>2, GivenFacts
<1>5. PICK g : given = {g} /\ g[2] # None /\ c.launch[field].value = g[2]
  <2>1. c.launch[field] = Runtime!Observed(given) /\ c.launch[field].state = "observed"
    BY <1>3
  <2>2. IsFiniteSet(given)
    BY <1>4
  <2> HIDE DEF given, c
  <2> QED BY <2>1, <2>2, ObservedFacts
<1>6. \A i \in Flags(argv, l, field) : <<i, FlagValue(argv, l, field, i)>> = g
  BY <1>4, <1>5
<1>7. \A i, j \in Flags(argv, l, field) : i = j
  BY <1>6
<1>8. said.count <= 1 /\ (Flags(argv, l, field) # {} => said.count = 1)
  <2>1. said.count = Cardinality(Flags(argv, l, field))
    BY <1>1, SameFlags, SameCount
  <2> HIDE DEF said
  <2>2. CASE Flags(argv, l, field) = {}
    BY <2>1, <2>2, FS_EmptySet
  <2>3. CASE Flags(argv, l, field) # {}
    <3>1. PICK i : Flags(argv, l, field) = {i}
      BY <1>7, <2>3
    <3>2. Cardinality({i}) = 1
      BY FS_Singleton
    <3> QED BY <2>1, <3>1, <3>2
  <2> QED BY <2>2, <2>3
<1>9. ASSUME field # "model"
      PROVE  /\ Flags(argv, l, field) # {}
             /\ \E v \in said.values :
                  Runtime!Parsed(field, v) = c.launch[field].value
  <2>1. M = {}
    BY <1>9 DEF Served
  <2>2. PICK i \in Flags(argv, l, field) : g = <<i, FlagValue(argv, l, field, i)>>
    BY <1>4, <1>5, <2>1
  <2> DEFINE v == Runtime!ValueAt(argv, Runtime!Arguments(argv, l.after), i)
  <2>3. c.launch[field].value = Runtime!Parsed(field, v)
    BY <1>5, <2>2 DEF FlagValue
  <2>4. v # None
    <3>1. c.launch[field].value # None
      BY <1>5
    <3>2. Runtime!Parsed(field, None) = None
      BY DEF Runtime!Parsed
    <3> HIDE DEF v, c
    <3> QED BY <2>3, <3>1, <3>2
  <2>5. v \in said.values
    <3>1. /\ argv[i].inline # None => Runtime!AsWord(argv[i].inline) \in said.values
          /\ i < Len(argv) => argv[i + 1] \in said.values
      BY <1>1, SameFlags
    <3>2. \/ argv[i].inline # None /\ v = Runtime!AsWord(argv[i].inline)
          \/ i + 1 \in Runtime!Arguments(argv, l.after) /\ v = argv[i + 1]
      BY <2>4 DEF Runtime!ValueAt
    <3>3. i + 1 \in Runtime!Arguments(argv, l.after) => i < Len(argv)
      BY <1>2, <1>4 DEF Runtime!Arguments
    <3> HIDE DEF said, v
    <3> QED BY <3>1, <3>2, <3>3
  <2> HIDE DEF said, v, c
  <2> QED BY <2>2, <2>3, <2>4, <2>5
<1> HIDE DEF said, c
<1>10. e \in c.engines
  BY DEF c
<1> QED BY <1>8, <1>9, <1>10 DEF SaidOnce, said, c

-----------------------------------------------------------------------------
(* What is told of a process.                                              *)

\* What may run has a command line.
LEMMA ProgramFacts ==
  ASSUME Runtime!FingerprintAssumption, NEW i \in Programs
  PROVE  Len(i.argv) \in Nat /\ DOMAIN i.argv = 1..Len(i.argv)
<1>1. i.argv \in Seq({i.argv[k] : k \in DOMAIN i.argv})
  BY DEF Runtime!FingerprintAssumption, Programs
<1> QED BY <1>1

\* What is told of a process that could not be read is that alone.
LEMMA UnavailableTold ==
  ASSUME NEW reason, NEW h
  PROVE  Told(Runtime!Unavailable(reason), h)
<1> DEFINE f == Runtime!Unavailable(reason)
<1>1. f.identity \in {"exited", "reused", "unavailable"}
  BY DEF Runtime!Unavailable, Runtime!Fingerprint
<1>2. f.command = Runtime!NoCommand /\ f.maps = Runtime!NoMaps
  BY DEF Runtime!Unavailable, Runtime!Fingerprint
<1>3. f.command.engines = {}
  BY <1>2 DEF Runtime!NoCommand
<1>4. {"command", "maps"} \subseteq DOMAIN f.sources
  BY DEF Runtime!Unavailable, Runtime!Fingerprint
<1> HIDE DEF f
<1>5. Told(f, h)
  BY <1>1, <1>2, <1>3, <1>4 DEF Told, OneProcess, OneProgram, OneValue, Whole
<1> QED BY <1>5 DEF f

\* What is reduced of two reads of the command line: only if they agree.
LEMMA CommandFacts ==
  ASSUME NEW x \in Replies, NEW y \in Replies
  PROVE  LET c == Runtime!Command(x, y)
         IN  \/ /\ c.source.state \in {"observed", "not_present"} /\ ~Failed(x) /\ x = y
                /\ c.evidence = Runtime!ParseCommand(x.ok)
                /\ c.source.state = "observed" => x.ok # <<>>
             \/ c.source.state = "unavailable" /\ c.evidence = Runtime!NoCommand
BY DEF Runtime!Command, Runtime!Source, Failed

\* And of the mappings.
LEMMA MapsFacts ==
  ASSUME NEW x \in Replies
  PROVE  LET m == Runtime!Maps(x)
         IN  \/ m.source.state = "observed" /\ ~Failed(x) /\ m.evidence = Runtime!ParseMaps(x.ok)
             \/ m.source.state = "unavailable" /\ m.evidence = Runtime!NoMaps
BY DEF Runtime!Maps, Runtime!Source, Failed

\* Five reads, of which the last found the process of the first: what is told
\* was true of one program, or of those that had the number in between.
LEMMA PublishedTold ==
  ASSUME Runtime!FingerprintAssumption, NEW h \in Seq(Alive), NEW r \in Seq(Replies),
         Len(r) = 5, Witnessed(h, r),
         \A j, k \in DOMAIN h : j <= k => h[j].born <= h[k].born,
         Failed(r[5]) \/ r[5] = [ok |-> h[Len(h)].born]
  PROVE  Told(Runtime!Published(r), h)
<1> DEFINE command == Runtime!Command(r[2], r[4])
           maps == Runtime!Maps(r[3])
           f == Runtime!Fingerprint("stable",
                  [identity |-> Runtime!Source("observed", None), command |-> command.source,
                   maps |-> maps.source], command.evidence, maps.evidence)
           n == Len(h)
<1>1. CASE Failed(r[5])
  BY <1>1, UnavailableTold DEF Runtime!Published, Failed
<1>2. CASE ~Failed(r[5]) /\ r[1] # r[5]
  BY <1>2, UnavailableTold DEF Runtime!Published, Failed
<1>3. CASE ~Failed(r[5]) /\ r[1] = r[5]
  <2>1. Runtime!Published(r) = f
    BY <1>3 DEF Runtime!Published, Failed
  <2>2. /\ n \in Nat /\ n >= 1 /\ DOMAIN h = 1..n
        /\ \A k \in 1..n : h[k] \in Alive
    BY DEF Witnessed
  <2>3. r[2] \in Replies /\ r[3] \in Replies /\ r[4] \in Replies
    <3>1. 2 \in 1..Len(r) /\ 3 \in 1..Len(r) /\ 4 \in 1..Len(r)
      OBVIOUS
    <3> QED BY <3>1, ElementOfSeq
  <2>4. PICK a \in 1..n, b \in 1..n, c \in 1..n : Ordered(h, r, a, b, c)
    BY DEF Witnessed
  <2>5. /\ a <= b /\ b <= c
        /\ OfCommand(r[2], h[a].image) /\ OfMaps(r[3], h[b].image)
        /\ OfCommand(r[4], h[c].image)
    BY <2>4 DEF Ordered
  <2>6. /\ f.identity = "stable"
        /\ f.sources.command = command.source /\ f.sources.maps = maps.source
        /\ f.command = command.evidence /\ f.maps = maps.evidence
        /\ {"command", "maps"} \subseteq DOMAIN f.sources
    BY DEF Runtime!Fingerprint
  <2>7. \A k \in 1..n : h[k].image \in Programs /\ h[k].image \in Ran(h)
    BY <2>2 DEF Alive, Ran
  <2>8. \/ /\ f.sources.command.state \in {"observed", "not_present"}
           /\ r[2] = [ok |-> h[a].image.argv] /\ r[4] = [ok |-> h[c].image.argv]
           /\ h[a].image.argv = h[c].image.argv
           /\ f.command = Runtime!ParseCommand(h[a].image.argv)
           /\ f.sources.command.state = "observed" => h[a].image.argv # <<>>
        \/ f.sources.command.state = "unavailable" /\ f.command = Runtime!NoCommand
    <3>1. \/ /\ command.source.state \in {"observed", "not_present"} /\ ~Failed(r[2])
             /\ r[2] = r[4] /\ command.evidence = Runtime!ParseCommand(r[2].ok)
             /\ command.source.state = "observed" => r[2].ok # <<>>
          \/ command.source.state = "unavailable" /\ command.evidence = Runtime!NoCommand
      BY <2>3, CommandFacts
    <3> HIDE DEF command, f
    <3>2. CASE /\ command.source.state \in {"observed", "not_present"} /\ ~Failed(r[2])
               /\ r[2] = r[4] /\ command.evidence = Runtime!ParseCommand(r[2].ok)
               /\ command.source.state = "observed" => r[2].ok # <<>>
      <4>1. r[2] = [ok |-> h[a].image.argv] /\ r[4] = [ok |-> h[c].image.argv]
        BY <2>5, <3>2 DEF OfCommand
      <4>2. r[2].ok = h[a].image.argv /\ r[4].ok = h[c].image.argv
        BY <4>1
      <4> QED BY <2>6, <3>2, <4>1, <4>2
    <3> QED BY <2>6, <3>1, <3>2
  <2>9. \/ /\ f.sources.maps.state = "observed" /\ h[b].image.maps # None
           /\ f.maps = Runtime!ParseMaps(h[b].image.maps)
        \/ f.sources.maps.state = "unavailable" /\ f.maps = Runtime!NoMaps
    <3>1. \/ /\ maps.source.state = "observed" /\ ~Failed(r[3])
             /\ maps.evidence = Runtime!ParseMaps(r[3].ok)
          \/ maps.source.state = "unavailable" /\ maps.evidence = Runtime!NoMaps
      BY <2>3, MapsFacts
    <3> HIDE DEF maps, f
    <3>2. CASE /\ maps.source.state = "observed" /\ ~Failed(r[3])
               /\ maps.evidence = Runtime!ParseMaps(r[3].ok)
      <4>1. h[b].image.maps # None /\ r[3] = [ok |-> h[b].image.maps]
        BY <2>5, <3>2 DEF OfMaps
      <4>2. r[3].ok = h[b].image.maps
        BY <4>1
      <4> QED BY <2>6, <3>2, <4>1, <4>2
    <3> QED BY <2>6, <3>1, <3>2
  <2>10. OneProcess(f, h)
    <3>1. h[1].born = h[n].born
      <4>1. [ok |-> h[1].born] = [ok |-> h[n].born]
        BY <1>3 DEF Witnessed
      <4>2. [ok |-> h[1].born].ok = [ok |-> h[n].born].ok
        BY <4>1
      <4> QED BY <4>2
    <3>2. ASSUME NEW k \in 1..n
          PROVE  h[k].born = h[1].born
      <4>0. 1 \in 1..n /\ n \in 1..n /\ 1 <= k /\ k <= n
        BY <2>2
      <4>1. h[1].born \in Nat /\ h[k].born \in Nat /\ h[n].born \in Nat
        <5> HIDE DEF n
        <5>1. h[1] \in Alive /\ h[k] \in Alive /\ h[n] \in Alive
          BY <2>2, <4>0
        <5> QED BY <5>1 DEF Alive
      <4>2. h[1].born <= h[k].born /\ h[k].born <= h[n].born
        <5> HIDE DEF n
        <5> QED BY <2>2, <4>0
      <4> QED BY <3>1, <4>1, <4>2
    <3> HIDE DEF f
    <3> QED BY <2>2, <2>6, <3>2 DEF OneProcess
  <2> HIDE DEF f
  <2>11. OneProgram(f, h)
    <3> SUFFICES ASSUME n <= 2
                 PROVE  \E i \in Ran(h) : Tells(f, i)
      BY DEF OneProgram
    <3>1. CASE f.sources.maps.state # "observed"
      BY <2>7, <2>8, <3>1 DEF Tells
    <3>2. CASE f.sources.maps.state = "observed"
      <4>1. h[b].image.maps # None /\ f.maps = Runtime!ParseMaps(h[b].image.maps)
        BY <2>9, <3>2
      <4>2. b = a \/ b = c
        BY <2>2, <2>5
      <4>3. f.sources.command.state = "observed" =>
              Runtime!ParseCommand(h[b].image.argv) = f.command
        BY <2>8, <4>2
      <4> QED BY <2>7, <4>1, <4>3 DEF Tells
    <3> QED BY <3>1, <3>2
  <2>12. OneValue(f, h)
    <3> SUFFICES ASSUME NEW e \in f.command.engines, NEW field \in Runtime!Fields,
                        f.command.launch[field].state = "observed"
                 PROVE  \E i \in Ran(h) :
                          SaidOnce(i.argv, e, field, f.command.launch[field].value)
      BY DEF OneValue
    <3>1. f.command # Runtime!NoCommand
      BY DEF Runtime!NoCommand
    <3>2. f.command = Runtime!ParseCommand(h[a].image.argv)
      BY <2>8, <3>1
    <3>3. Len(h[a].image.argv) \in Nat /\ DOMAIN h[a].image.argv = 1..Len(h[a].image.argv)
      BY <2>7, ProgramFacts
    <3>4. SaidOnce(h[a].image.argv, e, field, f.command.launch[field].value)
      BY <3>2, <3>3, ParsedOnce
    <3> QED BY <2>7, <3>4
  <2>13. Whole(f, h)
    <3> SUFFICES ASSUME f.sources.command = Runtime!Source("observed", None),
                        f.sources.maps = Runtime!Source("observed", None)
                 PROVE  \E i, j \in Ran(h) : i.argv # <<>> /\ j.maps # None
      BY DEF Whole
    <3>1. f.sources.command.state = "observed" /\ f.sources.maps.state = "observed"
      BY DEF Runtime!Source
    <3> QED BY <2>7, <2>8, <2>9, <3>1
  <2> QED BY <2>1, <2>6, <2>10, <2>11, <2>12, <2>13 DEF Told
<1> QED BY <1>1, <1>2, <1>3

-----------------------------------------------------------------------------
(* The inspection.                                                         *)

\* One more program leaves what was read of the others.
LEMMA WitnessedGrows ==
  ASSUME NEW h \in Seq(Alive), NEW x \in Alive, NEW r, Witnessed(h, r)
  PROVE  Witnessed(Append(h, x), r)
<1> DEFINE g == Append(h, x)
<1>1. /\ Len(h) \in Nat /\ Len(g) = Len(h) + 1
      /\ \A k \in 1..Len(h) : g[k] = h[k]
  OBVIOUS
<1> HIDE DEF g
<1>2. Len(h) >= 1 /\ r[1] = [ok |-> h[1].born]
  BY DEF Witnessed
<1>3. PICK a \in 1..Len(h), b \in 1..Len(h), c \in 1..Len(h) : Ordered(h, r, a, b, c)
  BY DEF Witnessed
<1>4. Ordered(g, r, a, b, c)
  BY <1>1, <1>3 DEF Ordered
<1>5. a \in 1..Len(g) /\ b \in 1..Len(g) /\ c \in 1..Len(g)
  BY <1>1
<1>6. Len(g) >= 1 /\ g[1] = h[1]
  BY <1>1, <1>2
<1>7. Witnessed(g, r)
  BY <1>2, <1>4, <1>5, <1>6 DEF Witnessed
<1> QED BY <1>7 DEF g

\* What the next read is, if it does not fail: of the program at the end.
Follows(h, l, x) ==
  /\ l \in {1, 3} => OfCommand(x, h[Len(h)].image)
  /\ l = 2 => OfMaps(x, h[Len(h)].image)
\* One more read, of the program that has the number.
LEMMA WitnessedReads ==
  ASSUME NEW h \in Seq(Alive), NEW r \in Seq(Replies), NEW x \in Replies,
         Len(r) \in 1..4, Witnessed(h, r), Follows(h, Len(r), x)
  PROVE  Witnessed(h, Append(r, x))
<1> DEFINE q == Append(r, x)
           n == Len(h)
<1>1. /\ Len(q) = Len(r) + 1 /\ q[Len(r) + 1] = x
      /\ \A i \in 1..Len(r) : q[i] = r[i]
  OBVIOUS
<1>2. n \in Nat /\ n >= 1 /\ q[1] = [ok |-> h[1].born]
  BY <1>1 DEF Witnessed
<1>3. PICK a \in 1..n, b \in 1..n, c \in 1..n : Ordered(h, r, a, b, c)
  BY DEF Witnessed
<1> HIDE DEF q, n
<1>4. n \in 1..n /\ a <= n /\ b <= n /\ c <= n
  BY <1>2, <1>3
<1>5. \E i, j, k \in 1..n : Ordered(h, q, i, j, k)
  <2>1. CASE Len(r) = 1
    <3>1. Ordered(h, q, n, n, n)
      <4>1. OfCommand(q[2], h[n].image) /\ Len(q) = 2
        BY <1>1, <2>1 DEF Follows, n
      <4> QED BY <1>2, <4>1 DEF Ordered
    <3> QED BY <1>4, <3>1
  <2>2. CASE Len(r) = 2
    <3>1. Ordered(h, q, a, n, n)
      <4>1. OfMaps(q[3], h[n].image) /\ Len(q) = 3 /\ q[2] = r[2]
        BY <1>1, <2>2 DEF Follows, n
      <4> QED BY <1>2, <1>3, <1>4, <2>2, <4>1 DEF Ordered
    <3> QED BY <1>3, <1>4, <3>1
  <2>3. CASE Len(r) = 3
    <3>1. Ordered(h, q, a, b, n)
      <4>1. OfCommand(q[4], h[n].image) /\ Len(q) = 4 /\ q[2] = r[2] /\ q[3] = r[3]
        BY <1>1, <2>3 DEF Follows, n
      <4> QED BY <1>2, <1>3, <1>4, <2>3, <4>1 DEF Ordered
    <3> QED BY <1>3, <1>4, <3>1
  <2>4. CASE Len(r) = 4
    <3>1. Ordered(h, q, a, b, c)
      <4>1. q[2] = r[2] /\ q[3] = r[3] /\ q[4] = r[4]
        BY <1>1, <2>4
      <4> QED BY <1>3, <2>4, <4>1 DEF Ordered
    <3> QED BY <1>3, <3>1
  <2> QED BY <2>1, <2>2, <2>3, <2>4
<1>6. Witnessed(h, q)
  BY <1>2, <1>5 DEF Witnessed, n
<1> QED BY <1>6 DEF q

\* A read fails, or shows the program that has the number.
LEMMA ChildFacts ==
  ASSUME ProcessInv, pid \in Pids, Runtime!FingerprintAssumption
  PROVE  /\ \A name \in {"stat", "cmdline", "maps"} : Runtime!Child(name) \in Replies
         /\ ~Runtime!Reachable => Failed(Runtime!Child("stat"))
         /\ Runtime!Reachable => procs[pid] \in Alive
         /\ \/ Failed(Runtime!Child("stat"))
            \/ procs[pid] # None /\ Runtime!Child("stat") = [ok |-> procs[pid].born]
         /\ \/ Failed(Runtime!Child("cmdline"))
            \/ procs[pid] # None /\ OfCommand(Runtime!Child("cmdline"), procs[pid].image)
         /\ \/ Failed(Runtime!Child("maps"))
            \/ procs[pid] # None /\ OfMaps(Runtime!Child("maps"), procs[pid].image)
<1>1. Runtime!Reachable => procs[pid] # None /\ procs[pid] \in Alive
  BY DEF Runtime!Reachable, ProcessInv
<1>2. CASE ~Runtime!Reachable
  BY <1>2 DEF Runtime!Child, Replies, Failed
<1>3. CASE Runtime!Reachable
  <2>1. procs[pid].born \in Nat /\ procs[pid].image \in Programs
    BY <1>1, <1>3 DEF Alive
  <2>2. Runtime!Child("stat") = [ok |-> procs[pid].born]
    BY <1>3 DEF Runtime!Child
  <2>3. Runtime!Child("cmdline") = [ok |-> procs[pid].image.argv]
    BY <1>3 DEF Runtime!Child
  <2>4. Runtime!Child("maps") = IF procs[pid].image.maps = None THEN [error |-> "denied"]
                                ELSE [ok |-> procs[pid].image.maps]
    BY <1>3 DEF Runtime!Child
  <2>5. /\ procs[pid].image.argv \in {i.argv : i \in Programs}
        /\ procs[pid].image.maps \in {i.maps : i \in Programs}
    BY <2>1
  <2>6. Runtime!Child("stat") \in Replies /\ Runtime!Child("cmdline") \in Replies
    BY <2>1, <2>2, <2>3, <2>5 DEF Replies
  <2>7. Runtime!Child("maps") \in Replies
    BY <2>4, <2>5 DEF Replies
  <2>8. OfCommand(Runtime!Child("cmdline"), procs[pid].image)
    BY <2>3 DEF OfCommand
  <2>9. OfMaps(Runtime!Child("maps"), procs[pid].image)
    BY <2>4 DEF OfMaps, Failed
  <2> QED BY <1>1, <1>3, <2>2, <2>6, <2>7, <2>8, <2>9
<1> QED BY <1>2, <1>3

\* Before the driver is inspected nothing was read.
LEMMA RuntimeInitially ==
  ASSUME Runtime!FingerprintAssumption, Runtime!Init
  PROVE  RuntimeInv
<1>1. procs \in [Pids -> {None} \cup Alive]
  BY DEF Runtime!Init, Alive, Programs
<1>2. held \in [Pids -> Seq(Alive)] /\ \A p \in Pids : DOMAIN held[p] = {}
  BY DEF Runtime!Init
<1>3. \A p \in Pids : procs[p] # None => procs[p].born = 0
  BY DEF Runtime!Init
<1>4. ProcessInv
  BY <1>1, <1>2, <1>3 DEF ProcessInv, Runtime!Init
<1>5. InspectionInv
  BY DEF InspectionInv, Runtime!Init
<1>6. DOMAIN fingerprints = {}
  BY DEF Runtime!Init
<1>7. ToldInv
  BY <1>6 DEF ToldInv, Runtime!Init
<1> QED BY <1>4, <1>5, <1>7 DEF RuntimeInv

\* Whatever befalls a process, its number and its successors.
LEMMA BecomeKeeps ==
  ASSUME Runtime!FingerprintAssumption, RuntimeInv, NEW p \in Pids,
         NEW process \in {None} \cup Alive,
         process # None => /\ process.born <= changes + 1
                           /\ \A k \in DOMAIN held[p] : held[p][k].born <= process.born,
         Runtime!Become(p, process)
  PROVE  RuntimeInv'
<1>1. /\ changes' = changes + 1 /\ procs' = [procs EXCEPT ![p] = process]
      /\ held' = IF p = pid /\ reads # <<>> /\ process # None
                   THEN [held EXCEPT ![p] = Append(held[p], process)] ELSE held
      /\ UNCHANGED <<files, todo, pid, reads, driver, fingerprints>>
  BY DEF Runtime!Become
<1>2. /\ procs \in [Pids -> {None} \cup Alive] /\ changes \in Nat
      /\ held \in [Pids -> Seq(Alive)]
      /\ \A q \in Pids :
           /\ procs[q] # None => procs[q].born <= changes
           /\ \A k \in DOMAIN held[q] :
                /\ held[q][k].born <= changes
                /\ procs[q] # None => held[q][k].born <= procs[q].born
                /\ \A j \in 1..k : held[q][j].born <= held[q][k].born
  BY DEF RuntimeInv, ProcessInv
<1>3. \A q \in Pids : \A k \in DOMAIN held[q] : held[q][k] \in Alive /\ k \in 1..Len(held[q])
  BY <1>2
<1> DEFINE g == Append(held[p], process)
<1>4. held' = held \/ (p = pid /\ process \in Alive /\ held' = [held EXCEPT ![p] = g])
  BY <1>1
<1>5. process \in Alive =>
        /\ g \in Seq(Alive) /\ Len(g) = Len(held[p]) + 1
        /\ DOMAIN g = 1..(Len(held[p]) + 1) /\ g[Len(held[p]) + 1] = process
        /\ \A k \in 1..Len(held[p]) : g[k] = held[p][k]
  BY <1>2
<1> HIDE DEF g
<1>6. ProcessInv'
  <2>1. procs' \in [Pids -> {None} \cup Alive] /\ changes' \in Nat
    BY <1>1, <1>2
  <2>2. held' \in [Pids -> Seq(Alive)]
    BY <1>2, <1>4, <1>5
  <2>3. ASSUME NEW q \in Pids
        PROVE  /\ procs'[q] # None => procs'[q].born <= changes'
               /\ \A k \in DOMAIN held'[q] :
                    /\ held'[q][k].born <= changes'
                    /\ procs'[q] # None => held'[q][k].born <= procs'[q].born
                    /\ \A j \in 1..k : held'[q][j].born <= held'[q][k].born
    <3>1. \A k \in DOMAIN held[q] : held[q][k].born \in Nat
      BY <1>3 DEF Alive
    <3>2. procs[q] # None => procs[q].born \in Nat
      BY <1>2 DEF Alive
    <3>3. CASE held'[q] = held[q]
      <4>1. CASE q = p
        BY <1>1, <1>2, <3>1, <3>3, <4>1
      <4>2. CASE q # p
        BY <1>1, <1>2, <3>1, <3>2, <3>3, <4>2
      <4> QED BY <4>1, <4>2
    <3>4. CASE held'[q] # held[q]
      <4>1. q = p /\ process \in Alive /\ held'[q] = g /\ procs'[q] = process
        BY <1>1, <1>2, <1>4, <3>4
      <4>2. process # None /\ process.born \in Nat
        BY <4>1 DEF Alive, Runtime!FingerprintAssumption, Programs
      <4>3. \A k \in 1..Len(held[p]) :
              g[k].born \in Nat /\ g[k].born <= changes /\ g[k].born <= process.born
        BY <1>2, <1>5, <3>1, <4>1, <4>2
      <4>4. Len(held[p]) \in Nat
        BY <1>2
      <4>5. \A k \in 1..(Len(held[p]) + 1) :
              /\ g[k].born <= changes + 1 /\ g[k].born <= process.born
              /\ \A j \in 1..k : g[j].born <= g[k].born
        <5>1. \A k \in 1..Len(held[p]) : \A j \in 1..k : g[j].born <= g[k].born
          <6> SUFFICES ASSUME NEW k \in 1..Len(held[p]), NEW j \in 1..k
                       PROVE  g[j].born <= g[k].born
            OBVIOUS
          <6>1. j \in 1..Len(held[p])
            BY <4>4
          <6> QED BY <1>2, <1>5, <4>1, <6>1
        <5> QED BY <1>2, <1>5, <4>1, <4>2, <4>3, <4>4, <5>1
      <4> QED BY <1>1, <1>5, <4>1, <4>2, <4>5
    <3> QED BY <3>3, <3>4
  <2> QED BY <2>1, <2>2, <2>3 DEF ProcessInv
<1>7. InspectionInv'
  <2>1. ASSUME reads # <<>>, ~Failed(reads[1])
        PROVE  /\ Witnessed(held'[pid], reads)
               /\ procs'[pid] # None => procs'[pid] = held'[pid][Len(held'[pid])]
    <3>1. /\ Witnessed(held[pid], reads) /\ pid \in Pids
          /\ procs[pid] # None => procs[pid] = held[pid][Len(held[pid])]
      BY <2>1 DEF RuntimeInv, InspectionInv
    <3>2. CASE p = pid /\ process # None
      <4>1. held'[pid] = g /\ process \in Alive /\ procs'[pid] = process
        BY <1>1, <1>2, <2>1, <3>2 DEF g
      <4>2. Witnessed(g, reads)
        BY <1>2, <3>1, <3>2, <4>1, WitnessedGrows DEF g
      <4> QED BY <1>5, <4>1, <4>2
    <3>3. CASE p = pid /\ process = None
      BY <1>1, <1>2, <3>1, <3>3
    <3>4. CASE p # pid
      BY <1>1, <1>2, <3>1, <3>4
    <3> QED BY <3>2, <3>3, <3>4
  <2> QED BY <1>1, <2>1 DEF RuntimeInv, InspectionInv
<1>8. ToldInv'
  <2>1. \A q \in DOMAIN fingerprints : held'[q] = held[q]
    <3>1. \A q \in DOMAIN fingerprints : q \in Pids /\ q # pid
      BY DEF RuntimeInv, ToldInv, InspectionInv, Runtime!FingerprintAssumption
    <3> QED BY <1>2, <1>4, <3>1
  <2> QED BY <1>1, <2>1 DEF RuntimeInv, ToldInv
<1> QED BY <1>6, <1>7, <1>8 DEF RuntimeInv

\* What is told at the end of an inspection stays true: the history has ended.
LEMMA CloseKeeps ==
  ASSUME Runtime!FingerprintAssumption, RuntimeInv, NEW p \in todo, NEW f, Told(f, held[p]),
         driver = Runtime!Driver(files.sys, files.proc),
         Runtime!Close(p, f), UNCHANGED <<procs, changes, held, files, driver>>
  PROVE  RuntimeInv'
<1>1. /\ fingerprints' = [q \in DOMAIN fingerprints \cup {p} |->
                            IF q = p THEN f ELSE fingerprints[q]]
      /\ todo' = todo \ {p} /\ pid' = None /\ reads' = <<>>
  BY DEF Runtime!Close
<1>2. ProcessInv'
  BY DEF RuntimeInv, ProcessInv
<1>3. InspectionInv'
  BY <1>1 DEF RuntimeInv, InspectionInv
<1>4. ToldInv'
  <2>1. DOMAIN fingerprints' = Pids \ todo'
    BY <1>1 DEF RuntimeInv, ToldInv, InspectionInv
  <2>2. \A q \in DOMAIN fingerprints' : Told(fingerprints'[q], held[q])
    BY <1>1 DEF RuntimeInv, ToldInv
  <2> QED BY <2>1, <2>2 DEF ToldInv
<1> QED BY <1>2, <1>3, <1>4 DEF RuntimeInv

\* The next process is opened, or has ended.
LEMMA OpenKeeps ==
  ASSUME Runtime!FingerprintAssumption, RuntimeInv, Runtime!Open
  PROVE  RuntimeInv'
<1>1. PICK p \in todo :
        IF procs[p] = None THEN Runtime!Close(p, Runtime!Unavailable("exited"))
        ELSE pid' = p /\ handle' = procs[p].born /\ UNCHANGED <<todo, reads, fingerprints>>
  BY DEF Runtime!Open
<1>2. /\ driver = Runtime!Driver(files.sys, files.proc) /\ reads = <<>>
      /\ UNCHANGED <<procs, changes, held, files, driver>>
  BY DEF Runtime!Open, Runtime!world, RuntimeInv, ToldInv, InspectionInv
<1>3. CASE procs[p] = None
  BY <1>1, <1>2, <1>3, UnavailableTold, CloseKeeps
<1>4. CASE procs[p] # None
  BY <1>1, <1>2, <1>4 DEF RuntimeInv, ProcessInv, InspectionInv, ToldInv
<1> QED BY <1>3, <1>4

\* One read, or the end of the five.
LEMMA ReadKeeps ==
  ASSUME Runtime!FingerprintAssumption, RuntimeInv, Runtime!Read
  PROVE  RuntimeInv'
<1>1. /\ pid \in todo /\ pid \in Pids /\ reads \in Seq(Replies)
      /\ driver = Runtime!Driver(files.sys, files.proc)
      /\ UNCHANGED <<procs, changes, files, driver>>
  BY DEF Runtime!Read, RuntimeInv, InspectionInv, ToldInv
<1>2. held' = IF reads = <<>> /\ Runtime!Reachable
              THEN [held EXCEPT ![pid] = <<procs[pid]>>] ELSE held
  BY DEF Runtime!Read
<1> DEFINE x == Runtime!Child(Runtime!Order[Len(reads) + 1])
           r == Append(reads, x)
<1>3. CASE Len(reads) = 1 /\ Failed(reads[1])
  <2>1. PICK reason : Runtime!Close(pid, Runtime!Unavailable(reason))
    BY <1>3 DEF Runtime!Read, Failed
  <2>2. held' = held
    BY <1>2, <1>3
  <2> QED BY <1>1, <2>1, <2>2, UnavailableTold, CloseKeeps
<1>4. CASE ~(Len(reads) = 1 /\ Failed(reads[1]))
  <2>1. IF Len(r) < 5 THEN reads' = r /\ UNCHANGED <<todo, pid, handle, fingerprints>>
        ELSE Runtime!Close(pid, Runtime!Published(r))
    BY <1>4 DEF Runtime!Read, Runtime!Order, Failed
  <2>2. Len(reads) \in 0..4
    <3>1. Len(reads) \in Nat /\ Len(reads) <= 4
      BY <1>1 DEF RuntimeInv, InspectionInv
    <3>2. \A n \in Nat : n <= 4 => n \in 0..4
      OBVIOUS
    <3> QED BY <3>1, <3>2
  <2>3. /\ Len(reads) \in {0, 4} => x = Runtime!Child("stat")
        /\ Len(reads) \in {1, 3} => x = Runtime!Child("cmdline")
        /\ Len(reads) = 2 => x = Runtime!Child("maps")
    <3>1. /\ Runtime!Order[1] = "stat" /\ Runtime!Order[2] = "cmdline"
          /\ Runtime!Order[3] = "maps" /\ Runtime!Order[4] = "cmdline"
          /\ Runtime!Order[5] = "stat"
      BY DEF Runtime!Order
    <3>2. ASSUME NEW n, Len(reads) = n
          PROVE  x = Runtime!Child(Runtime!Order[n + 1])
      BY <3>2
    <3>3. /\ 0 + 1 = 1 /\ 1 + 1 = 2 /\ 2 + 1 = 3 /\ 3 + 1 = 4 /\ 4 + 1 = 5
      OBVIOUS
    <3> HIDE DEF x
    <3>4. CASE Len(reads) = 0
      <4>1. x = Runtime!Child(Runtime!Order[1])
        BY <3>2, <3>3, <3>4
      <4> QED BY <3>1, <3>4, <4>1
    <3>5. CASE Len(reads) = 1
      <4>1. x = Runtime!Child(Runtime!Order[2])
        BY <3>2, <3>3, <3>5
      <4> QED BY <3>1, <3>5, <4>1
    <3>6. CASE Len(reads) = 2
      <4>1. x = Runtime!Child(Runtime!Order[3])
        BY <3>2, <3>3, <3>6
      <4> QED BY <3>1, <3>6, <4>1
    <3>7. CASE Len(reads) = 3
      <4>1. x = Runtime!Child(Runtime!Order[4])
        BY <3>2, <3>3, <3>7
      <4> QED BY <3>1, <3>7, <4>1
    <3>8. CASE Len(reads) = 4
      <4>1. x = Runtime!Child(Runtime!Order[5])
        BY <3>2, <3>3, <3>8
      <4> QED BY <3>1, <3>8, <4>1
    <3> QED BY <2>2, <3>4, <3>5, <3>6, <3>7, <3>8
  <2>4. ProcessInv
    BY DEF RuntimeInv
  <2>5. x \in Replies
    BY <1>1, <2>2, <2>3, <2>4, ChildFacts
  <2> HIDE DEF x
  <2>6. /\ r \in Seq(Replies) /\ Len(r) = Len(reads) + 1 /\ r[Len(reads) + 1] = x
        /\ \A i \in 1..Len(reads) : r[i] = reads[i]
    BY <1>1, <2>5
  <2> HIDE DEF r
  <2>7. CASE reads = <<>>
    <3>1. Len(reads) = 0 /\ Len(r) = 1 /\ r[1] = x /\ x = Runtime!Child("stat")
      BY <2>3, <2>6, <2>7
    <3>2. reads' = r /\ UNCHANGED <<todo, pid, fingerprints>>
      BY <2>1, <3>1
    <3>3. CASE ~Runtime!Reachable
      <4>1. held' = held /\ Failed(r[1])
        BY <1>1, <1>2, <2>4, <3>1, <3>3, ChildFacts
      <4>2. ProcessInv'
        BY <1>1, <2>4, <4>1 DEF ProcessInv
      <4>3. InspectionInv'
        <5>1. Len(r) <= 4 /\ ~(Len(r) >= 2) /\ pid # None
          BY <1>1, <3>1 DEF Runtime!FingerprintAssumption
        <5>2. todo \subseteq Pids /\ pid \in todo \cup {None}
          BY <1>1 DEF RuntimeInv, InspectionInv
        <5> QED BY <2>6, <3>2, <4>1, <5>1, <5>2 DEF InspectionInv
      <4>4. ToldInv'
        BY <1>1, <3>2, <4>1 DEF RuntimeInv, ToldInv
      <4> QED BY <4>2, <4>3, <4>4 DEF RuntimeInv
    <3>4. CASE Runtime!Reachable
      <4>1. procs[pid] \in Alive /\ procs[pid] # None
        BY <1>1, <2>4, <3>4, ChildFacts DEF Runtime!Reachable
      <4>2. held' = [held EXCEPT ![pid] = <<procs[pid]>>]
        BY <1>2, <2>7, <3>4
      <4>3. held' \in [Pids -> Seq(Alive)] /\ held'[pid] = <<procs[pid]>>
        BY <1>1, <2>4, <4>1, <4>2 DEF ProcessInv
      <4>4. \A q \in Pids : q # pid => held'[q] = held[q]
        BY <2>4, <4>2 DEF ProcessInv
      <4> DEFINE one == <<procs[pid]>>
      <4>5. Len(one) = 1 /\ DOMAIN one = 1..1 /\ one[1] = procs[pid]
        OBVIOUS
      <4> HIDE DEF one
      <4>6. procs[pid].born \in Nat /\ procs[pid].born <= changes
        BY <1>1, <2>4, <4>1 DEF ProcessInv, Alive
      <4>7. ProcessInv'
        <5>1. ASSUME NEW q \in Pids
              PROVE  /\ procs[q] # None => procs[q].born <= changes
                     /\ \A k \in DOMAIN held'[q] :
                          /\ held'[q][k].born <= changes
                          /\ procs[q] # None => held'[q][k].born <= procs[q].born
                          /\ \A j \in 1..k : held'[q][j].born <= held'[q][k].born
          <6>1. CASE q = pid
            <7>1. held'[q] = one
              BY <4>3, <6>1 DEF one
            <7> QED BY <4>5, <4>6, <6>1, <7>1
          <6>2. CASE q # pid
            BY <2>4, <4>4, <6>2 DEF ProcessInv
          <6> QED BY <6>1, <6>2
        <5> QED BY <1>1, <2>4, <4>3, <5>1 DEF ProcessInv
      <4>8. Witnessed(one, r)
        <5>1. ~Failed(x) => r[1] = [ok |-> procs[pid].born]
          BY <1>1, <2>4, <3>1, ChildFacts
        <5>2. x = [ok |-> procs[pid].born]
          BY <3>1, <3>4 DEF Runtime!Child
        <5>3. Ordered(one, r, 1, 1, 1)
          BY <3>1 DEF Ordered
        <5>4. \E a, b, c \in 1..Len(one) : Ordered(one, r, a, b, c)
          BY <4>5, <5>3
        <5> QED BY <3>1, <4>5, <5>2, <5>4 DEF Witnessed
      <4>9. InspectionInv'
        <5>1. Witnessed(held'[pid], r) /\ procs[pid] = held'[pid][Len(held'[pid])]
          BY <4>3, <4>5, <4>8 DEF one
        <5>2. Len(r) <= 4 /\ ~(Len(r) >= 2) /\ pid # None
          BY <1>1, <3>1 DEF Runtime!FingerprintAssumption
        <5>3. todo \subseteq Pids /\ pid \in todo \cup {None}
          BY <1>1 DEF RuntimeInv, InspectionInv
        <5> QED BY <1>1, <2>6, <3>2, <5>1, <5>2, <5>3 DEF InspectionInv
      <4>10. ToldInv'
        <5>1. \A q \in DOMAIN fingerprints : held'[q] = held[q]
          <6>1. \A q \in DOMAIN fingerprints : q \in Pids /\ q # pid
            BY <1>1 DEF RuntimeInv, ToldInv
          <6> QED BY <4>4, <6>1
        <5> QED BY <1>1, <3>2, <5>1 DEF RuntimeInv, ToldInv
      <4> QED BY <4>7, <4>9, <4>10 DEF RuntimeInv
    <3> QED BY <3>3, <3>4
  <2>8. CASE reads # <<>>
    <3>1. Len(reads) \in 1..4 /\ held' = held
      BY <1>1, <1>2, <2>2, <2>8
    <3>2. ~Failed(reads[1])
      <4>1. Len(reads) >= 2 => ~Failed(reads[1])
        BY DEF RuntimeInv, InspectionInv
      <4>2. Len(reads) = 1 \/ Len(reads) >= 2
        <5>1. \A n \in 1..4 : n = 1 \/ n >= 2
          OBVIOUS
        <5> QED BY <3>1, <5>1
      <4> QED BY <1>4, <4>1, <4>2
    <3> DEFINE h == held[pid]
    <3>3. /\ h \in Seq(Alive) /\ Witnessed(h, reads)
          /\ procs[pid] # None => procs[pid] = h[Len(h)]
      BY <1>1, <2>4, <2>8, <3>2 DEF RuntimeInv, InspectionInv, ProcessInv
    <3>4. Follows(h, Len(reads), x)
      <4>1. Len(reads) \in {1, 3} => OfCommand(x, h[Len(h)].image)
        BY <1>1, <2>3, <2>4, <3>3, ChildFacts DEF OfCommand
      <4>2. Len(reads) = 2 => OfMaps(x, h[Len(h)].image)
        BY <1>1, <2>3, <2>4, <3>3, ChildFacts DEF OfMaps
      <4> QED BY <4>1, <4>2 DEF Follows
    <3>5. Witnessed(h, r)
      BY <1>1, <2>5, <3>1, <3>3, <3>4, WitnessedReads DEF r
    <3>6. CASE Len(r) < 5
      <4>1. reads' = r /\ UNCHANGED <<todo, pid, fingerprints>>
        BY <2>1, <3>6
      <4>2. r # <<>> /\ r[1] = reads[1]
        BY <2>6, <3>1
      <4>3. InspectionInv'
        <5> HIDE DEF h
        <5>1. Len(r) <= 4
          BY <2>6, <3>1, <3>6
        <5> QED BY <1>1, <2>6, <3>1, <3>2, <3>3, <3>5, <4>1, <4>2, <5>1
                DEF RuntimeInv, InspectionInv, h
      <4> QED BY <1>1, <3>1, <4>1, <4>3 DEF RuntimeInv, ProcessInv, ToldInv
    <3>7. CASE ~(Len(r) < 5)
      <4>1. Len(r) = 5 /\ r[5] = x /\ Len(reads) = 4
        BY <2>6, <3>1, <3>7
      <4>2. Failed(r[5]) \/ r[5] = [ok |-> h[Len(h)].born]
        BY <1>1, <2>3, <2>4, <3>3, <4>1, ChildFacts
      <4>3. \A j, k \in DOMAIN h : j <= k => h[j].born <= h[k].born
        <5>1. \A k \in DOMAIN h : \A j \in 1..k : h[j].born <= h[k].born
          BY <1>1, <2>4 DEF ProcessInv
        <5>2. DOMAIN h = 1..Len(h) /\ Len(h) \in Nat
          BY <3>3
        <5> HIDE DEF h
        <5> QED BY <5>1, <5>2
      <4>4. Told(Runtime!Published(r), h)
        <5> HIDE DEF h
        <5> QED BY <2>6, <3>3, <3>5, <4>1, <4>2, <4>3, PublishedTold
      <4>5. Runtime!Close(pid, Runtime!Published(r))
        BY <2>1, <3>7
      <4> QED BY <1>1, <3>1, <4>4, <4>5, CloseKeeps
    <3> QED BY <3>6, <3>7
  <2> QED BY <2>7, <2>8
<1> QED BY <1>3, <1>4

\* Every step keeps the invariant.
LEMMA RuntimeStep ==
  ASSUME Runtime!FingerprintAssumption, RuntimeInv, [Runtime!Next]_(Runtime!vars)
  PROVE  RuntimeInv'
<1>1. CASE UNCHANGED Runtime!vars
  BY <1>1 DEF Runtime!vars, RuntimeInv, ProcessInv, InspectionInv, ToldInv
<1>2. CASE Runtime!InspectDriver
  BY <1>2 DEF Runtime!InspectDriver, Runtime!world, RuntimeInv, ProcessInv, InspectionInv, ToldInv
<1>3. CASE Runtime!Open
  BY <1>3, OpenKeeps
<1>4. CASE Runtime!Read
  BY <1>4, ReadKeeps
<1>5. ASSUME NEW p \in Pids, Runtime!Exec(p) \/ Runtime!Exit(p) \/ Runtime!Spawn(p)
      PROVE  RuntimeInv'
  <2>1. /\ procs[p] \in {None} \cup Alive /\ changes \in Nat
        /\ procs[p] # None => procs[p].born <= changes
        /\ \A k \in DOMAIN held[p] :
             /\ held[p][k].born <= changes
             /\ procs[p] # None => held[p][k].born <= procs[p].born
    BY DEF RuntimeInv, ProcessInv
  <2>2. CASE Runtime!Exit(p)
    BY <2>2, BecomeKeeps DEF Runtime!Exit
  <2>3. CASE Runtime!Exec(p)
    <3>1. PICK i \in Programs : Runtime!Become(p, [procs[p] EXCEPT !.image = i])
      BY <2>3 DEF Runtime!Exec, Programs
    <3> DEFINE process == [procs[p] EXCEPT !.image = i]
    <3>2. procs[p] # None /\ procs[p] \in Alive
      BY <2>1, <2>3 DEF Runtime!Exec
    <3>3. process \in Alive /\ process.born = procs[p].born /\ procs[p].born \in Nat
      BY <3>2 DEF Alive
    <3>4. /\ process.born <= changes + 1
          /\ \A k \in DOMAIN held[p] : held[p][k].born <= process.born
      BY <2>1, <3>2, <3>3
    <3> HIDE DEF process
    <3> QED BY <3>1, <3>3, <3>4, BecomeKeeps DEF process
  <2>4. CASE Runtime!Spawn(p)
    <3>1. PICK i \in Images : Runtime!Become(p, [born |-> changes + 1, image |-> i])
      BY <2>4 DEF Runtime!Spawn
    <3> DEFINE process == [born |-> changes + 1, image |-> i]
    <3>2. process \in Alive /\ process.born = changes + 1
      BY <2>1 DEF Alive, Programs
    <3>3. \A k \in DOMAIN held[p] : held[p][k].born \in Nat
      <4>1. held[p] \in Seq(Alive)
        BY DEF RuntimeInv, ProcessInv
      <4>2. \A k \in DOMAIN held[p] : held[p][k] \in Alive
        BY <4>1
      <4> QED BY <4>2 DEF Alive
    <3>4. /\ process.born <= changes + 1
          /\ \A k \in DOMAIN held[p] : held[p][k].born <= process.born
      BY <2>1, <3>2, <3>3
    <3> HIDE DEF process
    <3> QED BY <3>1, <3>2, <3>4, BecomeKeeps DEF process
  <2> QED BY <1>5, <2>2, <2>3, <2>4
<1> QED BY <1>1, <1>2, <1>3, <1>4, <1>5 DEF Runtime!Next

\* The invariant is the property, part by part.
LEMMA RuntimeSound ==
  ASSUME RuntimeInv
  PROVE  Runtime!FingerprintSound
<1> SUFFICES ASSUME NEW p \in DOMAIN fingerprints
             PROVE  LET f == fingerprints[p]
                        ran == Ran(held[p])
                    IN  /\ OneProcess(f, held[p]) /\ OneProgram(f, held[p])
                        /\ OneValue(f, held[p])
                        /\ Runtime!Complete(fingerprints) =>
                             \E i, j \in ran : i.argv # <<>> /\ j.maps # None
                        /\ driver.state = "observed" =>
                             /\ driver.versions # {}
                             /\ driver.versions \subseteq {files.sys, files.proc}
  BY DEF Runtime!FingerprintSound, OneProcess, OneProgram, OneValue, Ran, Tells, SaidOnce
<1>1. Told(fingerprints[p], held[p]) /\ driver = Runtime!Driver(files.sys, files.proc)
      /\ p \in Pids
  BY DEF RuntimeInv, ToldInv
<1>2. Runtime!Complete(fingerprints) =>
        \E i, j \in Ran(held[p]) : i.argv # <<>> /\ j.maps # None
  <2> SUFFICES ASSUME Runtime!Complete(fingerprints)
               PROVE  \E i, j \in Ran(held[p]) : i.argv # <<>> /\ j.maps # None
    OBVIOUS
  <2>1. /\ fingerprints[p].identity = "stable"
        /\ \A s \in DOMAIN fingerprints[p].sources :
              fingerprints[p].sources[s] = Runtime!Source("observed", None)
    BY <1>1 DEF Runtime!Complete
  <2>2. /\ {"command", "maps"} \subseteq DOMAIN fingerprints[p].sources
        /\ Whole(fingerprints[p], held[p])
    BY <1>1 DEF Told
  <2>3. /\ fingerprints[p].sources["command"] = Runtime!Source("observed", None)
        /\ fingerprints[p].sources["maps"] = Runtime!Source("observed", None)
    BY <2>1, <2>2
  <2> QED BY <2>1, <2>2, <2>3 DEF Whole
<1>3. driver.state = "observed" =>
        driver.versions # {} /\ driver.versions \subseteq {files.sys, files.proc}
  BY <1>1 DEF Runtime!Driver
<1> QED BY <1>1, <1>2, <1>3 DEF Told

\* Fingerprint.FingerprintSound for any processes, programs and command lines
\* and any number of changes between the reads (src/telemetry/runtime.rs): no
\* mix of two processes under one number, and no value that is not said once.
THEOREM FingerprintsAreSound ==
  ASSUME Runtime!FingerprintAssumption
  PROVE  Runtime!Spec => []Runtime!FingerprintSound
<1>1. Runtime!Init => RuntimeInv
  BY RuntimeInitially
<1>2. RuntimeInv /\ [Runtime!Next]_(Runtime!vars) => RuntimeInv'
  BY RuntimeStep
<1>3. RuntimeInv => Runtime!FingerprintSound
  BY RuntimeSound
<1> QED BY <1>1, <1>2, <1>3, PTL DEF Runtime!Spec

=============================================================================
