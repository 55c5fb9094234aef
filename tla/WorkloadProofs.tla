--------------------------- MODULE WorkloadProofs ---------------------------
(***************************************************************************)
(* Proofs about Workload, for batches of every size on any number of       *)
(* workers: what a batch measures is what it ran, and the executor         *)
(* implements the abstract batch (its safety part).                        *)
(***************************************************************************)
EXTENDS Workload, FiniteSetTheorems, SequenceTheorems, TLAPS

CallerStates == {"begin", "spawn", "joinCancelled", "waitReady", "blocked", "release", "join", "done"}
WorkerStates == {"unborn", "enter", "blocked", "woken", "run", "returned"}
Outcomes == {"no", "ok", "panic"}

TypeOK ==
  /\ count \in 0..MaxCount /\ concurrency \in 0..MaxConcurrency
  /\ pc \in CallerStates /\ slot \in 0..MaxConcurrency
  /\ ready \in Nat /\ started \in Nat \cup {None} /\ cancelled \in BOOLEAN
  /\ wpc \in [Slots -> WorkerStates]
  /\ cursor \in [Slots -> Nat]
  /\ mine \in [Slots -> Seq(Nat)]
  /\ panicked \in [Slots -> Nat \cup {None}]
  /\ duration \in [Slots -> Nat]
  /\ merged \in Seq(Nat) /\ firstPanic \in Nat \cup {None} /\ total \in Nat
  /\ ran \in [Indexes -> Outcomes] /\ runs \in [Indexes -> Nat] /\ now \in Nat

First(s) == RangeStart(count, WorkerCount, s)
Past(s) == RangeEnd(count, WorkerCount, s)
Active == {s \in Slots : s < WorkerCount}
Arrived == {s \in Slots : wpc[s] \notin {"unborn", "enter"}}

-----------------------------------------------------------------------------
(* The invariant.                                                          *)

\* Which workers exist, and what the place of the caller says of the gate.
GateInv ==
  /\ pc \notin {"begin", "done"} => count > 0 /\ concurrency > 0 /\ slot <= WorkerCount
  /\ pc = "begin" => slot = 0 /\ \A s \in Slots : wpc[s] = "unborn"
  /\ pc \in {"spawn", "joinCancelled"} => \A s \in Slots : wpc[s] # "unborn" <=> s < slot
  /\ pc \in {"waitReady", "blocked", "release", "join"} =>
       \A s \in Slots : wpc[s] # "unborn" <=> s < WorkerCount
  /\ pc = "done" => \A s \in Slots : wpc[s] \in {"unborn", "returned"}
  /\ pc = "join" => started # None /\ \A s \in Slots : s < slot => wpc[s] = "returned"
  /\ started # None => pc \in {"join", "done"} /\ Active # {} /\ started <= now
  /\ cancelled => pc \in {"joinCancelled", "done"} /\ started = None
  /\ \A s \in Slots : wpc[s] # "unborn" => s < WorkerCount
  /\ \A s \in Slots : wpc[s] = "run" => started # None
  /\ \A s \in Slots : wpc[s] = "returned" => started # None \/ cancelled
  /\ ready = Cardinality(Arrived)
  /\ pc = "release" \/ started # None => Active = Arrived

\* Each worker has run its range up to its cursor, and nobody anything else.
RangeInv ==
  /\ \A s \in Slots : wpc[s] = "unborn" => cursor[s] = 0
  /\ \A s \in Slots : wpc[s] # "unborn" => First(s) <= cursor[s] /\ cursor[s] <= Past(s)
  /\ \A s \in Active, i \in Indexes :
       First(s) <= i /\ i < Past(s) => runs[i] = IF i < cursor[s] THEN 1 ELSE 0
  /\ \A i \in Indexes : i >= count => runs[i] = 0
  /\ \A i \in Indexes : ran[i] = "no" <=> runs[i] = 0
  /\ started = None => \A i \in Indexes : runs[i] = 0
  /\ started # None => \A s \in Active : wpc[s] = "returned" => cursor[s] = Past(s)

\* The longest duration of the workers that have returned.
TimeInv ==
  /\ started = None => total = 0 /\ \A s \in Slots : duration[s] = 0
  /\ started # None =>
    /\ \A s \in Slots : duration[s] <= now - started
    /\ (\A s \in Active : wpc[s] = "returned") => \E s \in Active : duration[s] = now - started
    /\ total <= now - started
    /\ \A s \in Active : s < slot => duration[s] <= total

\* What the call returned.
ResultInv ==
  /\ pc # "done" => result = Pending
  /\ result.kind \in {"pending", "ok", "panicked", "zeroConcurrency", "spawnFailed", "incomplete"}
  /\ pc = "done" =>
       \/ result.kind = "ok" /\ count = 0
       \/ result.kind \in {"zeroConcurrency", "spawnFailed"} /\ started = None
       \/ started # None /\ slot = WorkerCount /\ \A s \in Active : wpc[s] = "returned"

-----------------------------------------------------------------------------
(* The results.                                                            *)

\* The n numbers from a on.
From(a, n) == [k \in 1..n |-> a + k - 1]

\* A worker's results are its range in order, or it knows its lowest panic.
WorkerResult(s) ==
  /\ wpc[s] = "unborn" => mine[s] = <<>> /\ panicked[s] = None
  /\ wpc[s] # "unborn" /\ panicked[s] = None =>
       /\ mine[s] = From(First(s), cursor[s] - First(s))
       /\ \A i \in Indexes : First(s) <= i /\ i < cursor[s] => ran[i] = "ok"
  /\ wpc[s] # "unborn" /\ panicked[s] # None =>
       /\ First(s) <= panicked[s] /\ panicked[s] < cursor[s] /\ ran[panicked[s]] = "panic"
       /\ \A i \in Indexes : First(s) <= i /\ i < panicked[s] => ran[i] # "panic"

WorkerResultInv == \A s \in Active : WorkerResult(s)

\* The caller holds the results, or the lowest panic, of the slots it joined.
MergedInv ==
  /\ pc \in {"begin", "spawn", "joinCancelled", "waitReady", "blocked", "release"} =>
       merged = <<>> /\ firstPanic = None
  /\ pc = "join" =>
       /\ firstPanic = None =>
            /\ merged = From(0, First(slot))
            /\ \A i \in Indexes : i < First(slot) => ran[i] = "ok"
       /\ firstPanic # None =>
            /\ firstPanic < First(slot) /\ ran[firstPanic] = "panic"
            /\ \A i \in Indexes : i < firstPanic => ran[i] # "panic"

-----------------------------------------------------------------------------
(* The ranges.                                                             *)

\* Division with a remainder.
LEMMA Division ==
  ASSUME NEW n \in Nat, NEW w \in Nat, w > 0
  PROVE  /\ n \div w \in Nat /\ n % w \in Nat /\ n % w < w
         /\ n = w * (n \div w) + (n % w)
  BY Z3

\* The ranges lie one after the other.
LEMMA RangeStep ==
  ASSUME NEW n \in Nat, NEW w \in Nat, w > 0, NEW s \in Nat
  PROVE  /\ RangeStart(n, w, s) \in Nat /\ RangeEnd(n, w, s) \in Nat
         /\ RangeEnd(n, w, s) = RangeStart(n, w, s + 1)
         /\ RangeStart(n, w, s) <= RangeEnd(n, w, s)
<1>. DEFINE q == n \div w
            r == n % w
<1>1. q \in Nat /\ r \in Nat BY Division
<1>. HIDE DEF q, r
<1>2. s * q \in Nat /\ (s + 1) * q = s * q + q BY <1>1
<1>3. RangeStart(n, w, s) = s * q + Least(s, r) BY DEF RangeStart, q, r
<1>4. RangeStart(n, w, s + 1) = (s + 1) * q + Least(s + 1, r) BY DEF RangeStart, q, r
<1>5. RangeEnd(n, w, s) = s * q + Least(s, r) + q + IF s < r THEN 1 ELSE 0
  BY DEF RangeEnd, RangeStart, q, r
<1> QED BY <1>1, <1>2, <1>3, <1>4, <1>5 DEF Least

\* The first range starts at the first operation, the last one ends at the last.
LEMMA RangeEnds ==
  ASSUME NEW n \in Nat, NEW w \in Nat, w > 0
  PROVE  RangeStart(n, w, 0) = 0 /\ RangeStart(n, w, w) = n
<1>. DEFINE q == n \div w
            r == n % w
<1>1. q \in Nat /\ r \in Nat /\ r < w /\ n = w * q + r BY Division
<1>. HIDE DEF q, r
<1>3. RangeStart(n, w, 0) = 0 * q + Least(0, r) BY DEF RangeStart, q, r
<1>4. RangeStart(n, w, w) = w * q + Least(w, r) BY DEF RangeStart, q, r
<1>5. 0 * q = 0 BY <1>1
<1> QED BY <1>1, <1>3, <1>4, <1>5 DEF Least

\* A later range starts after an earlier one has ended.
LEMMA RangesOrdered ==
  ASSUME NEW n \in Nat, NEW w \in Nat, w > 0, NEW s \in Nat, NEW t \in Nat, s < t
  PROVE  RangeEnd(n, w, s) <= RangeStart(n, w, t)
<1>. DEFINE q == n \div w
            r == n % w
            d == t - (s + 1)
<1>1. q \in Nat /\ r \in Nat /\ d \in Nat BY Division
<1>. HIDE DEF q, r
<1>2. t * q = (s + 1) * q + d * q /\ d * q >= 0 BY <1>1
<1>3. RangeStart(n, w, t) = t * q + Least(t, r) BY DEF RangeStart, q, r
<1>4. RangeStart(n, w, s + 1) = (s + 1) * q + Least(s + 1, r) BY DEF RangeStart, q, r
<1>5. RangeEnd(n, w, s) = RangeStart(n, w, s + 1) BY RangeStep
<1>6. Least(s + 1, r) <= Least(t, r) BY <1>1 DEF Least
<1>7. (s + 1) * q \in Nat /\ t * q \in Nat /\ d * q \in Nat BY <1>1
<1>8. Least(s + 1, r) \in Nat /\ Least(t, r) \in Nat BY <1>1 DEF Least
<1> QED BY <1>2, <1>3, <1>4, <1>5, <1>6, <1>7, <1>8

\* Every operation of the batch lies in the range of some slot.
LEMMA RangesCover ==
  ASSUME NEW n \in Nat, NEW w \in Nat, w > 0, NEW i \in Nat, i < n
  PROVE  \E s \in 0..(w - 1) : RangeStart(n, w, s) <= i /\ i < RangeEnd(n, w, s)
<1>. DEFINE q == n \div w
            r == n % w
<1>1. q \in Nat /\ r \in Nat /\ r < w /\ n = w * q + r BY Division
<1>2. \A s \in Nat : /\ RangeStart(n, w, s) = s * q + Least(s, r)
                     /\ RangeEnd(n, w, s) = s * q + Least(s, r) + q + IF s < r THEN 1 ELSE 0
  BY DEF RangeEnd, RangeStart, q, r
<1>. HIDE DEF q, r
<1>3. CASE i < r * (q + 1)
  <2>. DEFINE s == i \div (q + 1)
              m == i % (q + 1)
  <2>0. q + 1 \in Nat /\ q + 1 > 0 BY <1>1
  <2>1. s \in Nat /\ m \in Nat /\ m < q + 1 /\ i = (q + 1) * s + m BY <2>0, Division, Zenon
  <2>. HIDE DEF s, m
  <2>2. (q + 1) * s = s * q + s /\ s * q \in Nat BY <1>1, <2>1
  <2>3. s < r
    <3>1. SUFFICES ASSUME s >= r PROVE FALSE BY <1>1, <2>1
    <3>2. (q + 1) * s >= r * (q + 1)
      <4>1. PICK d \in Nat : s = r + d BY <1>1, <2>1, <3>1
      <4>2. (q + 1) * s = r * (q + 1) + d * (q + 1) /\ d * (q + 1) >= 0 BY <1>1, <4>1
      <4>3. r * (q + 1) \in Nat /\ d * (q + 1) \in Nat BY <1>1, <4>1
      <4> QED BY <4>2, <4>3
    <3>3. (q + 1) * s \in Nat /\ r * (q + 1) \in Nat BY <1>1, <2>1
    <3> QED BY <1>3, <2>1, <3>2, <3>3
  <2>4. RangeStart(n, w, s) = s * q + s /\ RangeEnd(n, w, s) = s * q + s + q + 1
    BY <1>1, <1>2, <2>1, <2>3 DEF Least
  <2> QED BY <1>1, <2>1, <2>2, <2>3, <2>4
<1>4. CASE i >= r * (q + 1)
  <2>. DEFINE b == i - r * (q + 1)
  <2>1. b \in Nat /\ r * (q + 1) = r * q + r /\ r * q \in Nat BY <1>1, <1>4
  <2>2. i = r * q + r + b BY <1>1, <2>1
  <2>. HIDE DEF b
  <2>3. PICK v \in Nat : w = r + v BY <1>1
  <2>4. w * q = r * q + v * q /\ v * q \in Nat BY <1>1, <2>3
  <2>5. b < v * q BY <1>1, <2>1, <2>2, <2>4
  <2>6. q > 0
    <3>1. SUFFICES ASSUME q = 0 PROVE FALSE BY <1>1
    <3>2. v * q = 0 BY <3>1, <2>3
    <3> QED BY <2>1, <2>5, <3>2
  <2>. DEFINE d == b \div q
              m == b % q
  <2>7. d \in Nat /\ m \in Nat /\ m < q /\ b = q * d + m BY <1>1, <2>1, <2>6, Division
  <2>. HIDE DEF d, m
  <2>8. d < v
    <3>1. SUFFICES ASSUME d >= v PROVE FALSE BY <2>3, <2>7
    <3>2. PICK e \in Nat : d = v + e BY <2>3, <2>7, <3>1
    <3>3. q * d = v * q + e * q /\ e * q \in Nat BY <1>1, <2>3, <3>2
    <3> QED BY <1>1, <2>4, <2>5, <2>7, <3>3
  <2>. DEFINE s == r + d
  <2>9. s \in 0..(w - 1) /\ s \in Nat /\ s >= r BY <1>1, <2>3, <2>7, <2>8
  <2>10. s * q = r * q + q * d BY <1>1, <2>7
  <2>11. q * d \in Nat /\ s * q \in Nat BY <1>1, <2>7, <2>9
  <2>. HIDE DEF s
  <2>12. RangeStart(n, w, s) = s * q + r /\ RangeEnd(n, w, s) = s * q + r + q
    <3>1. Least(s, r) = r /\ ~(s < r) BY <1>1, <2>9 DEF Least
    <3> QED BY <1>1, <1>2, <2>9, <2>11, <3>1
  <2>13. RangeStart(n, w, s) <= i /\ i < RangeEnd(n, w, s)
    BY <1>1, <2>1, <2>2, <2>7, <2>10, <2>11, <2>12
  <2> QED BY <2>9, <2>13
<1>5. r * (q + 1) \in Nat BY <1>1
<1> QED BY <1>3, <1>4, <1>5

\* The slots in use, of a batch that is neither empty nor without workers.
LEMMA ActiveFacts ==
  ASSUME TypeOK, count > 0, concurrency > 0
  PROVE  /\ WorkerCount \in Nat /\ WorkerCount > 0 /\ WorkerCount <= MaxConcurrency
         /\ Active = 0..(WorkerCount - 1) /\ 0 \in Active
         /\ IsFiniteSet(Active) /\ Cardinality(Active) = WorkerCount
<1>1. /\ WorkerCount \in Nat /\ WorkerCount > 0 /\ WorkerCount <= MaxConcurrency
  BY BatchAssumption DEF TypeOK, WorkerCount, Least
<1>2. Active = 0..(WorkerCount - 1) /\ 0 \in Active
  BY <1>1, BatchAssumption DEF Active, Slots
<1>3. IsFiniteSet(Active) /\ Cardinality(Active) = WorkerCount
  BY <1>1, <1>2, FS_Interval
<1> QED BY <1>1, <1>2, <1>3

\* Their ranges divide the operations of the batch.
LEMMA RangeFacts ==
  ASSUME TypeOK, count > 0, concurrency > 0
  PROVE  /\ \A s \in Active : /\ First(s) \in Nat /\ Past(s) \in Nat
                              /\ First(s) <= Past(s) /\ Past(s) <= count
                              /\ Past(s) = First(s + 1)
         /\ First(0) = 0 /\ First(WorkerCount) = count
         /\ \A s, t \in Active : s < t => Past(s) <= First(t)
         /\ \A i \in 0..(count - 1) : \E s \in Active : First(s) <= i /\ i < Past(s)
<1>1. WorkerCount \in Nat /\ WorkerCount > 0 /\ count \in Nat /\ Active = 0..(WorkerCount - 1)
  BY ActiveFacts, BatchAssumption DEF TypeOK
<1>2. ASSUME NEW s \in Active
      PROVE  /\ First(s) \in Nat /\ Past(s) \in Nat /\ First(s) <= Past(s)
             /\ Past(s) = First(s + 1)
  BY <1>1, RangeStep DEF First, Past
<1>3. First(0) = 0 /\ First(WorkerCount) = count BY <1>1, RangeEnds DEF First
<1>4. ASSUME NEW s \in Active, NEW t \in Active, s < t PROVE Past(s) <= First(t)
  BY <1>1, <1>4, RangesOrdered DEF First, Past
<1>5. ASSUME NEW s \in Active PROVE Past(s) <= count
  <2>1. CASE s + 1 = WorkerCount BY <1>1, <1>2, <1>3, <2>1
  <2>2. CASE s < WorkerCount - 1
    <3>1. s < WorkerCount BY <1>1
    <3> QED BY <1>1, <1>3, <3>1, RangesOrdered DEF First, Past
  <2> QED BY <1>1, <2>1, <2>2
<1>6. ASSUME NEW i \in 0..(count - 1)
      PROVE  \E s \in Active : First(s) <= i /\ i < Past(s)
  BY <1>1, RangesCover DEF First, Past
<1> QED BY <1>2, <1>3, <1>4, <1>5, <1>6

-----------------------------------------------------------------------------
(* Type correctness and the gate.                                          *)

\* A notification only moves workers out of the wait set.
LEMMA WokenFacts ==
  ASSUME TypeOK
  PROVE  /\ Woken(wpc) \in [Slots -> WorkerStates]
         /\ \A s \in Slots : Woken(wpc)[s] = IF wpc[s] = "blocked" THEN "woken" ELSE wpc[s]
         /\ WokenPc \in CallerStates
  BY DEF TypeOK, Woken, WokenPc, WorkerStates, CallerStates

\* The arguments never change.
LEMMA ArgumentsFixed ==
  ASSUME Next
  PROVE  /\ count' = count /\ concurrency' = concurrency
         /\ WorkerCount' = WorkerCount /\ Active' = Active
<1>1. count' = count /\ concurrency' = concurrency
  BY DEF Next, CallerStep, CBegin, CSpawn, CSpawnFails, CJoinCancelled, CSpawned,
         CWaitReady, CRelease, CJoin, CReturn, SpuriousCallerWakeup, Finished, vars,
         WorkerStep, WReady, WWake, WInvokeOk, WInvokePanics, WReturn, SpuriousWakeup
<1> QED BY <1>1 DEF WorkerCount, Active

\* A step keeps every variable in its type.
LEMMA TypeStep ==
  ASSUME TypeOK, GateInv, [Next]_vars
  PROVE  TypeOK'
<1>0. pc \in {"spawn", "join"} /\ slot < WorkerCount =>
        /\ slot \in Slots /\ slot + 1 \in 0..MaxConcurrency
        /\ RangeStart(count, WorkerCount, slot) \in Nat
  <2>1. SUFFICES ASSUME count > 0, concurrency > 0, slot < WorkerCount
                 PROVE  /\ slot \in Slots /\ slot + 1 \in 0..MaxConcurrency
                        /\ RangeStart(count, WorkerCount, slot) \in Nat
    BY DEF GateInv
  <2>2. /\ WorkerCount \in Nat /\ WorkerCount > 0 /\ WorkerCount <= MaxConcurrency
    BY <2>1, ActiveFacts
  <2>3. slot \in Nat /\ count \in Nat BY BatchAssumption DEF TypeOK
  <2>4. RangeStart(count, WorkerCount, slot) \in Nat BY <2>2, <2>3, RangeStep
  <2> QED BY <2>1, <2>2, <2>3, <2>4, BatchAssumption DEF Slots
<1>. USE BatchAssumption DEF TypeOK
<1>1. CASE UNCHANGED vars BY <1>1 DEF vars, gateVars, workerVars, callerVars
<1>2. ASSUME NEW s \in Slots, WReady(s) PROVE TypeOK'
  BY <1>2, WokenFacts DEF WReady, AtGate, WorkerStates, workerVars, callerVars
<1>3. ASSUME NEW s \in Slots, WWake(s) PROVE TypeOK'
  BY <1>3 DEF WWake, AtGate, WorkerStates, gateVars, workerVars, callerVars
<1>4. ASSUME NEW s \in Slots, SpuriousWakeup(s) PROVE TypeOK'
  BY <1>4 DEF SpuriousWakeup, WorkerStates, gateVars, workerVars, callerVars
<1>5. CASE SpuriousCallerWakeup
  BY <1>5 DEF SpuriousCallerWakeup, CallerStates, gateVars, workerVars, callerVars
<1>. DEFINE InvocationTyped == /\ ran' \in [Indexes -> Outcomes] /\ runs' \in [Indexes -> Nat]
                              /\ cursor' \in [Slots -> Nat] /\ now' \in Nat
<1>a. ASSUME NEW s \in Slots, NEW o \in Outcomes, InvocationEnds(s, o)
      PROVE  InvocationTyped
  <2>1. ran' \in [Indexes -> Outcomes] BY <1>a DEF InvocationEnds
  <2>2. runs' \in [Indexes -> Nat]
    <3>1. CASE cursor[s] \in Indexes BY <1>a, <3>1 DEF InvocationEnds
    <3>2. CASE cursor[s] \notin Indexes BY <1>a, <3>2 DEF InvocationEnds
    <3> QED BY <3>1, <3>2
  <2> QED BY <1>a, <2>1, <2>2 DEF InvocationEnds
<1>6. ASSUME NEW s \in Slots, WInvokeOk(s) PROVE TypeOK'
  <2>1. InvocationTyped BY <1>6, <1>a DEF WInvokeOk, Outcomes
  <2>2. mine' \in [Slots -> Seq(Nat)] BY <1>6 DEF WInvokeOk
  <2> QED BY <1>6, <2>1, <2>2 DEF WInvokeOk, gateVars, callerVars
<1>7. ASSUME NEW s \in Slots, WInvokePanics(s) PROVE TypeOK'
  <2>1. InvocationTyped BY <1>7, <1>a DEF WInvokePanics, Outcomes
  <2>2. panicked' \in [Slots -> Nat \cup {None}]
    BY <1>7 DEF WInvokePanics, LowerPanic, Least, None
  <2> QED BY <1>7, <2>1, <2>2 DEF WInvokePanics, gateVars, callerVars
<1>8. ASSUME NEW s \in Slots, WReturn(s) PROVE TypeOK'
  <2>1. now - started \in Nat BY <1>8 DEF WReturn, GateInv, None
  <2> QED BY <1>8, <2>1 DEF WReturn, WorkerStates, gateVars, callerVars
<1>9. CASE CBegin
  BY <1>9 DEF CBegin, Return, CallerStates, gateVars, workerVars
<1>10. CASE CSpawn
  BY <1>0, <1>10 DEF CSpawn, WorkerStates, gateVars
<1>11. CASE CSpawnFails
  BY <1>11, WokenFacts DEF CSpawnFails, CallerStates, workerVars, callerVars
<1>12. CASE CJoinCancelled
  BY <1>12 DEF CJoinCancelled, Return, CallerStates, gateVars, workerVars
<1>13. CASE CSpawned
  BY <1>13 DEF CSpawned, CallerStates, gateVars, workerVars, callerVars
<1>14. CASE CWaitReady
  BY <1>14 DEF CWaitReady, CallerStates, gateVars, workerVars, callerVars
<1>15. CASE CRelease
  BY <1>15, WokenFacts DEF CRelease, CallerStates, workerVars
<1>16. CASE CJoin
  <2>1. slot \in Slots /\ slot + 1 \in 0..MaxConcurrency BY <1>0, <1>16 DEF CJoin
  <2>2. merged \o mine[slot] \in Seq(Nat) BY <2>1
  <2> QED BY <1>16, <2>1, <2>2 DEF CJoin, LowerPanic, Least, None, gateVars, workerVars
<1>17. CASE CReturn
  BY <1>17 DEF CReturn, Return, CallerStates, gateVars, workerVars
<1> QED
  BY <1>1, <1>2, <1>3, <1>4, <1>5, <1>6, <1>7, <1>8, <1>9, <1>10, <1>11, <1>12, <1>13,
     <1>14, <1>15, <1>16, <1>17 DEF Next, CallerStep, WorkerStep, Finished

\* The caller opens the gate once every worker of the batch stands at it.
LEMMA AllArrived ==
  ASSUME TypeOK, GateInv, count > 0, concurrency > 0
  PROVE  /\ IsFiniteSet(Arrived) /\ Arrived \subseteq Active /\ ready <= WorkerCount
         /\ ready = WorkerCount <=> Arrived = Active
<1>1. IsFiniteSet(Active) /\ Cardinality(Active) = WorkerCount BY ActiveFacts
<1>2. Arrived \subseteq Active BY DEF GateInv, Arrived, Active
<1>3. ready = Cardinality(Arrived) BY DEF GateInv
<1>4. /\ IsFiniteSet(Arrived) /\ Cardinality(Arrived) <= Cardinality(Active)
      /\ Cardinality(Active) = Cardinality(Arrived) => Active = Arrived
  BY <1>1, <1>2, FS_Subset
<1> QED BY <1>1, <1>2, <1>3, <1>4

\* Which workers exist, and where the gate stands, follows the place of the caller.
LEMMA GateStep ==
  ASSUME TypeOK, TypeOK', GateInv, [Next]_vars
  PROVE  GateInv'
<1>1. CASE UNCHANGED vars
  BY <1>1 DEF GateInv, vars, gateVars, workerVars, callerVars, Arrived, Active, WorkerCount
<1>2. SUFFICES ASSUME Next PROVE GateInv' BY <1>1
<1>. USE <1>2
<1>3. WorkerCount' = WorkerCount /\ Active' = Active /\ count' = count /\ concurrency' = concurrency
  BY ArgumentsFixed
<1>4. pc \notin {"begin", "done"} =>
        /\ WorkerCount \in Nat /\ WorkerCount > 0 /\ WorkerCount <= MaxConcurrency
        /\ Active # {} /\ IsFiniteSet(Arrived) /\ Arrived \subseteq Active
        /\ ready = WorkerCount <=> Arrived = Active
        /\ ready <= WorkerCount
  BY ActiveFacts, AllArrived DEF GateInv
<1>5. /\ slot \in 0..MaxConcurrency /\ now \in Nat /\ started \in Nat \cup {None}
      /\ wpc \in [Slots -> WorkerStates] /\ pc \in CallerStates /\ ready \in Nat
      /\ cancelled \in BOOLEAN /\ count \in Nat /\ concurrency \in Nat
  BY BatchAssumption DEF TypeOK
<1>. DEFINE W == Woken(wpc)
<1>6. /\ W \in [Slots -> WorkerStates]
      /\ \A s \in Slots : W[s] = IF wpc[s] = "blocked" THEN "woken" ELSE wpc[s]
  BY WokenFacts
<1>. HIDE DEF W
<1>7. ASSUME NEW s \in Slots, WReady(s) PROVE GateInv'
  <2>1. /\ wpc[s] = "enter" /\ wpc' = [W EXCEPT ![s] = AtGate] /\ ready' = ready + 1
        /\ pc' = IF pc = "blocked" THEN "waitReady" ELSE pc
        /\ slot' = slot /\ started' = started /\ cancelled' = cancelled /\ now' = now
    BY <1>7 DEF WReady, W, WokenPc, workerVars, callerVars
  <2>2. pc \notin {"begin", "done"} BY <2>1, <1>5 DEF GateInv
  <2>3. Arrived' = Arrived \cup {s} /\ s \notin Arrived
    BY <2>1, <1>5, <1>6 DEF Arrived, AtGate
  <2>4. ready' = Cardinality(Arrived')
    BY <2>1, <2>2, <2>3, <1>4, FS_AddElement DEF GateInv
  <2>5. pc # "release" /\ started = None
    BY <2>1, <2>2, <2>3, <1>4 DEF GateInv, Active
  <2>6. s < WorkerCount BY <2>1 DEF GateInv
  <2> QED BY <1>3, <1>4, <1>5, <1>6, <2>1, <2>2, <2>4, <2>5, <2>6 DEF GateInv, AtGate, CallerStates
<1>8. ASSUME NEW s \in Slots, WWake(s) PROVE GateInv'
  <2>1. Arrived' = Arrived BY <1>8, <1>5 DEF WWake, Arrived, AtGate
  <2> QED BY <1>8, <1>3, <1>5, <2>1 DEF WWake, AtGate, GateInv, gateVars, workerVars, callerVars
<1>9. ASSUME NEW s \in Slots, SpuriousWakeup(s) PROVE GateInv'
  <2>1. Arrived' = Arrived BY <1>9, <1>5 DEF SpuriousWakeup, Arrived
  <2> QED BY <1>9, <1>3, <1>5, <2>1 DEF SpuriousWakeup, GateInv, gateVars, workerVars, callerVars
<1>10. CASE SpuriousCallerWakeup
  <2>1. Arrived' = Arrived BY <1>10, <1>5 DEF SpuriousCallerWakeup, Arrived
  <2> QED BY <1>10, <1>3, <1>5, <2>1 DEF SpuriousCallerWakeup, GateInv, gateVars, workerVars, callerVars
<1>11. ASSUME NEW s \in Slots, WInvokeOk(s) \/ WInvokePanics(s) PROVE GateInv'
  <2>1. /\ pc' = pc /\ slot' = slot /\ ready' = ready /\ started' = started
        /\ cancelled' = cancelled /\ wpc' = wpc /\ now' = now + 1
    BY <1>11 DEF WInvokeOk, WInvokePanics, InvocationEnds, gateVars, callerVars
  <2>2. Arrived' = Arrived BY <2>1 DEF Arrived
  <2> QED BY <1>3, <1>5, <2>1, <2>2 DEF GateInv, None
<1>12. ASSUME NEW s \in Slots, WReturn(s) PROVE GateInv'
  <2>1. Arrived' = Arrived BY <1>12, <1>5 DEF WReturn, Arrived
  <2> QED BY <1>12, <1>3, <1>5, <2>1 DEF WReturn, GateInv, gateVars, callerVars
<1>13. CASE CBegin
  <2>1. Arrived' = Arrived BY <1>13, <1>5 DEF CBegin, Arrived
  <2>2. pc' = "spawn" => count > 0 /\ concurrency > 0 /\ WorkerCount >= 0
    BY <1>13, <1>5 DEF CBegin, Return, WorkerCount, Least
  <2> QED BY <1>13, <1>3, <1>5, <2>1, <2>2 DEF CBegin, Return, GateInv, gateVars, workerVars, Slots
<1>14. CASE CSpawn
  <2>1. slot \in Slots BY <1>14, <1>4, <1>5, BatchAssumption DEF CSpawn, Slots
  <2>2. Arrived' = Arrived BY <1>14, <1>5, <2>1 DEF CSpawn, Arrived, GateInv
  <2> QED BY <1>14, <1>3, <1>4, <1>5, <2>1, <2>2 DEF CSpawn, GateInv, gateVars, Slots
<1>15. CASE CSpawnFails
  <2>1. Arrived' = Arrived BY <1>15, <1>5, <1>6 DEF CSpawnFails, Arrived, W
  <2> QED BY <1>15, <1>3, <1>5, <1>6, <2>1 DEF CSpawnFails, GateInv, W, workerVars, callerVars
<1>16. CASE CJoinCancelled
  <2>1. Arrived' = Arrived BY <1>16, <1>5 DEF CJoinCancelled, Arrived
  <2> QED BY <1>16, <1>3, <1>5, <2>1 DEF CJoinCancelled, Return, GateInv, gateVars, workerVars
<1>17. CASE CSpawned
  <2>1. Arrived' = Arrived BY <1>17, <1>5 DEF CSpawned, Arrived
  <2> QED BY <1>17, <1>3, <1>4, <1>5, <2>1 DEF CSpawned, GateInv, gateVars, workerVars, callerVars
<1>18. CASE CWaitReady
  <2>1. Arrived' = Arrived BY <1>18, <1>5 DEF CWaitReady, Arrived
  <2>2. pc' = "release" => Arrived = Active BY <1>18, <1>4, <1>5 DEF CWaitReady
  <2> QED BY <1>18, <1>3, <1>4, <1>5, <2>1, <2>2 DEF CWaitReady, GateInv, gateVars, workerVars, callerVars
<1>19. CASE CRelease
  <2>1. Arrived' = Arrived BY <1>19, <1>5, <1>6 DEF CRelease, Arrived, W
  <2> QED BY <1>19, <1>3, <1>4, <1>5, <1>6, <2>1 DEF CRelease, GateInv, W, Slots, None, workerVars
<1>20. CASE CJoin
  <2>1. Arrived' = Arrived BY <1>20, <1>5 DEF CJoin, Arrived
  <2> QED BY <1>20, <1>3, <1>4, <1>5, <2>1 DEF CJoin, GateInv, gateVars, workerVars, Slots
<1>21. CASE CReturn
  <2>1. Arrived' = Arrived BY <1>21, <1>5 DEF CReturn, Arrived
  <2> QED BY <1>21, <1>3, <1>4, <1>5, <2>1 DEF CReturn, Return, GateInv, gateVars, workerVars, Slots
<1> QED
  BY <1>1, <1>2, <1>7, <1>8, <1>9, <1>10, <1>11, <1>12, <1>13, <1>14, <1>15, <1>16, <1>17,
     <1>18, <1>19, <1>20, <1>21 DEF Next, CallerStep, WorkerStep, Finished

-----------------------------------------------------------------------------
(* What was run, how long it took, what was returned.                      *)

\* Ranges are functions of the arguments of the batch.
LEMMA RangesFixed ==
  ASSUME Next
  PROVE  \A s : First(s)' = First(s) /\ Past(s)' = Past(s)
BY ArgumentsFixed DEF First, Past, RangeStart, RangeEnd

\* A worker inside its range is about to run an operation nobody has run, and
\* that lies in no other range.
LEMMA CursorFacts ==
  ASSUME TypeOK, GateInv, RangeInv, NEW s \in Slots, wpc[s] = "run", cursor[s] < Past(s)
  PROVE  /\ s \in Active /\ cursor[s] \in Indexes /\ cursor[s] < count /\ First(s) <= cursor[s]
         /\ runs[cursor[s]] = 0 /\ ran[cursor[s]] = "no"
         /\ pc = "join" /\ started \in Nat
         /\ \A t \in Active : t # s => cursor[s] < First(t) \/ Past(t) <= cursor[s]
<1>1. s \in Active /\ started # None BY DEF GateInv, Active
<1>2. pc = "join" BY <1>1 DEF GateInv
<1>3. count > 0 /\ concurrency > 0 BY <1>2 DEF GateInv
<1>4. /\ First(s) \in Nat /\ Past(s) \in Nat /\ Past(s) <= count
      /\ \A t \in Active : /\ First(t) \in Nat /\ Past(t) \in Nat
                           /\ t < s => Past(t) <= First(s)
                           /\ s < t => Past(s) <= First(t)
  BY <1>1, <1>3, RangeFacts
<1>5. First(s) <= cursor[s] BY DEF RangeInv
<1>6. cursor[s] \in Nat /\ count \in Nat /\ count <= MaxCount BY BatchAssumption DEF TypeOK
<1>7. cursor[s] \in Indexes /\ cursor[s] < count
  BY <1>4, <1>6, BatchAssumption DEF Indexes
<1>8. runs[cursor[s]] = 0 BY <1>1, <1>5, <1>6, <1>7 DEF RangeInv
<1>9. ran[cursor[s]] = "no" BY <1>7, <1>8 DEF RangeInv
<1>10. ASSUME NEW t \in Active, t # s PROVE cursor[s] < First(t) \/ Past(t) <= cursor[s]
  <2>1. t < s \/ s < t BY <1>1, <1>10, BatchAssumption DEF Active, Slots
  <2> QED BY <1>4, <1>5, <1>6, <2>1
<1> QED BY <1>1, <1>2, <1>5, <1>7, <1>8, <1>9, <1>10 DEF TypeOK

\* A worker stays within its own range of indexes and runs them in order.
LEMMA RangeInvStep ==
  ASSUME TypeOK, TypeOK', GateInv, GateInv', RangeInv, [Next]_vars
  PROVE  RangeInv'
<1>1. CASE UNCHANGED vars
  BY <1>1 DEF RangeInv, vars, gateVars, workerVars, callerVars, First, Past, Active, WorkerCount
<1>2. SUFFICES ASSUME Next PROVE RangeInv' BY <1>1
<1>. USE <1>2
<1>3. /\ WorkerCount' = WorkerCount /\ Active' = Active /\ count' = count
      /\ \A s : First(s)' = First(s) /\ Past(s)' = Past(s)
  BY ArgumentsFixed, RangesFixed
<1>4. /\ wpc \in [Slots -> WorkerStates] /\ cursor \in [Slots -> Nat] /\ runs \in [Indexes -> Nat]
      /\ ran \in [Indexes -> Outcomes] /\ started \in Nat \cup {None}
  BY DEF TypeOK
\* A step that runs nothing, creates no worker and lets only those return that
\* are through with their range.
<1>. DEFINE Quiet ==
       /\ UNCHANGED <<cursor, ran, runs, started>>
       /\ \A s \in Slots :
            /\ wpc'[s] = "unborn" <=> wpc[s] = "unborn"
            /\ wpc'[s] = "returned" /\ started # None => wpc[s] = "returned" \/ cursor[s] = Past(s)
<1>5. ASSUME Quiet PROVE RangeInv'
  BY <1>3, <1>5 DEF RangeInv, Active
<1>6. ASSUME NEW s \in Slots, WReady(s) \/ WWake(s) \/ SpuriousWakeup(s) PROVE RangeInv'
  <2>1. Quiet
    BY <1>4, <1>6, WokenFacts
    DEF WReady, WWake, SpuriousWakeup, AtGate, gateVars, workerVars
  <2> QED BY <1>5, <2>1
<1>7. ASSUME NEW s \in Slots, WReturn(s) PROVE RangeInv'
  <2>1. cursor[s] <= Past(s) /\ Past(s) \in Nat /\ cursor[s] \in Nat
    <3>1. s \in Active /\ count > 0 /\ concurrency > 0
      BY <1>7 DEF WReturn, GateInv, Active
    <3> QED BY <1>4, <1>7, <3>1, RangeFacts DEF WReturn, RangeInv
  <2>2. cursor[s] = Past(s) BY <1>7, <2>1 DEF WReturn, Past
  <2>3. Quiet BY <1>4, <1>7, <2>2 DEF WReturn, gateVars
  <2> QED BY <1>5, <2>3
<1>8. ASSUME NEW s \in Slots, NEW o \in {"ok", "panic"}, wpc[s] = "run", cursor[s] < Past(s),
             InvocationEnds(s, o), UNCHANGED <<wpc, started>>
      PROVE  RangeInv'
  <2>. DEFINE c == cursor[s]
  <2>1. /\ s \in Active /\ c \in Indexes /\ c < count /\ First(s) <= c /\ runs[c] = 0
        /\ started # None /\ count > 0 /\ concurrency > 0
        /\ \A t \in Active : t # s => c < First(t) \/ Past(t) <= c
    BY <1>8, CursorFacts DEF GateInv, None
  <2>2. /\ cursor' = [cursor EXCEPT ![s] = c + 1] /\ runs' = [runs EXCEPT ![c] = 1]
        /\ ran' = [ran EXCEPT ![c] = o]
    BY <1>4, <1>8, <2>1 DEF InvocationEnds
  <2>3. c \in Nat /\ First(s) \in Nat /\ Past(s) \in Nat /\ Indexes \subseteq Nat
    BY <1>4, <2>1, RangeFacts, BatchAssumption DEF Indexes
  <2>. HIDE DEF c
  <2>4. cursor'[s] = c + 1 /\ \A t \in Slots : t # s => cursor'[t] = cursor[t] BY <1>4, <2>2
  <2>5. ASSUME NEW t \in Slots, wpc'[t] # "unborn"
        PROVE  First(t) <= cursor'[t] /\ cursor'[t] <= Past(t)
    <3>1. CASE t = s BY <1>8, <2>1, <2>3, <2>4, <3>1 DEF c
    <3>2. CASE t # s BY <1>8, <2>4, <2>5, <3>2 DEF RangeInv
    <3> QED BY <3>1, <3>2
  <2>6. ASSUME NEW t \in Active, NEW i \in Indexes, First(t) <= i, i < Past(t)
        PROVE  runs'[i] = IF i < cursor'[t] THEN 1 ELSE 0
    <3>0. t \in Slots /\ runs[i] = IF i < cursor[t] THEN 1 ELSE 0 BY <2>6 DEF RangeInv, Active
    <3>1. CASE t = s BY <1>4, <2>1, <2>2, <2>3, <2>4, <3>0, <3>1 DEF c
    <3>2. CASE t # s
      <4>1. First(t) \in Nat /\ Past(t) \in Nat BY <2>1, <2>6, RangeFacts
      <4>2. i # c BY <2>1, <2>3, <2>6, <3>2, <4>1
      <4> QED BY <1>4, <2>2, <2>4, <3>0, <3>2, <4>2
    <3> QED BY <3>1, <3>2
  <2>7. \A i \in Indexes : i >= count => runs'[i] = 0
    BY <1>4, <2>1, <2>2, <2>3 DEF RangeInv, TypeOK
  <2>8. \A i \in Indexes : ran'[i] = "no" <=> runs'[i] = 0
    BY <1>4, <2>2 DEF RangeInv
  <2>9. \A t \in Active : wpc'[t] = "returned" => cursor'[t] = Past(t)
    BY <1>8, <2>1, <2>4 DEF RangeInv, Active
  <2> QED BY <1>3, <1>8, <2>1, <2>4, <2>5, <2>6, <2>7, <2>8, <2>9 DEF RangeInv, GateInv
<1>9. ASSUME NEW s \in Slots, WInvokeOk(s) \/ WInvokePanics(s) PROVE RangeInv'
  BY <1>8, <1>9 DEF WInvokeOk, WInvokePanics, Past, gateVars
<1>10. CASE CSpawn
  <2>1. /\ count > 0 /\ concurrency > 0 /\ slot < WorkerCount /\ slot \in Nat
        /\ wpc' = [wpc EXCEPT ![slot] = "enter"] /\ cursor' = [cursor EXCEPT ![slot] = First(slot)]
        /\ UNCHANGED <<started, ran, runs>>
    BY <1>10 DEF CSpawn, GateInv, First, gateVars, TypeOK
  <2>2. slot \in Active /\ slot \in Slots BY <2>1, ActiveFacts DEF Active
  <2>3. First(slot) \in Nat /\ Past(slot) \in Nat /\ First(slot) <= Past(slot)
    BY <2>1, <2>2, RangeFacts
  <2>4. started = None BY <1>10 DEF CSpawn, GateInv
  <2>5. \A i \in Indexes : runs[i] = 0 BY <2>4 DEF RangeInv
  <2>6. ASSUME NEW t \in Active, NEW i \in Indexes, First(t) <= i, i < Past(t)
        PROVE  runs'[i] = IF i < cursor'[t] THEN 1 ELSE 0
    <3>0. t \in Slots /\ i \in Nat /\ runs[i] = IF i < cursor[t] THEN 1 ELSE 0
      BY <2>6, BatchAssumption DEF RangeInv, Active, Indexes
    <3>1. CASE t = slot BY <1>4, <2>1, <2>2, <2>3, <2>5, <2>6, <3>0, <3>1
    <3>2. CASE t # slot BY <1>4, <2>1, <3>0, <3>2
    <3> QED BY <3>1, <3>2
  <2>7. \A t \in Slots :
          /\ wpc'[t] = "unborn" => cursor'[t] = 0
          /\ wpc'[t] # "unborn" => First(t) <= cursor'[t] /\ cursor'[t] <= Past(t)
    BY <1>4, <2>1, <2>2, <2>3 DEF RangeInv
  <2> QED BY <1>3, <2>1, <2>4, <2>6, <2>7 DEF RangeInv
<1>11. CASE CRelease
  <2>1. \A s \in Slots : wpc'[s] # "returned" /\ (wpc'[s] = "unborn" <=> wpc[s] = "unborn")
    BY <1>4, <1>11, WokenFacts DEF CRelease, GateInv
  <2>2. started = None /\ started' # None BY <1>11 DEF CRelease, GateInv, TypeOK, None
  <2> QED BY <1>3, <1>11, <2>1, <2>2 DEF RangeInv, CRelease, workerVars, Active
<1>12. ASSUME \/ SpuriousCallerWakeup \/ CBegin \/ CJoinCancelled \/ CSpawned \/ CWaitReady
              \/ CJoin \/ CReturn
       PROVE  RangeInv'
  <2>1. UNCHANGED <<wpc, cursor, ran, runs, started>>
    BY <1>12 DEF SpuriousCallerWakeup, CBegin, CJoinCancelled, CSpawned, CWaitReady, CJoin,
                 CReturn, gateVars, workerVars
  <2> QED BY <1>5, <2>1
<1>13. CASE CSpawnFails
  <2>1. Quiet BY <1>4, <1>13, WokenFacts DEF CSpawnFails, workerVars
  <2> QED BY <1>5, <2>1
<1> QED
  BY <1>1, <1>2, <1>6, <1>7, <1>9, <1>10, <1>11, <1>12, <1>13
  DEF Next, CallerStep, WorkerStep, Finished

\* No duration exceeds the time since the start, and one reaches it.
LEMMA TimeInvStep ==
  ASSUME TypeOK, TypeOK', GateInv, GateInv', TimeInv, [Next]_vars
  PROVE  TimeInv'
<1>1. CASE UNCHANGED vars
  BY <1>1 DEF TimeInv, vars, gateVars, workerVars, callerVars, Active, WorkerCount
<1>2. SUFFICES ASSUME Next PROVE TimeInv' BY <1>1
<1>. USE <1>2
<1>3. Active' = Active /\ WorkerCount' = WorkerCount BY ArgumentsFixed
<1>4. /\ wpc \in [Slots -> WorkerStates] /\ duration \in [Slots -> Nat] /\ total \in Nat
      /\ started \in Nat \cup {None} /\ now \in Nat /\ Active \subseteq Slots
      /\ slot \in Nat /\ None \notin Nat
  BY DEF TypeOK, Active, None
\* A step that takes no time, joins nobody and after which nobody has returned
\* who had not before.
<1>. DEFINE Quiet ==
       /\ UNCHANGED <<started, now, duration, total>>
       /\ started # None => /\ slot' = slot
                            /\ \A s \in Active : wpc'[s] = "returned" => wpc[s] = "returned"
<1>5. ASSUME Quiet PROVE TimeInv'
  BY <1>3, <1>4, <1>5 DEF TimeInv
<1>6. ASSUME NEW s \in Slots, WReady(s) \/ WWake(s) \/ SpuriousWakeup(s) PROVE TimeInv'
  <2>1. Quiet
    BY <1>4, <1>6, WokenFacts
    DEF WReady, WWake, SpuriousWakeup, AtGate, gateVars, workerVars, callerVars
  <2> QED BY <1>5, <2>1
<1>7. ASSUME NEW s \in Slots, WInvokeOk(s) \/ WInvokePanics(s) PROVE TimeInv'
  <2>1. /\ wpc[s] = "run" /\ now' = now + 1 /\ UNCHANGED <<wpc, started, duration, total, slot>>
    BY <1>7 DEF WInvokeOk, WInvokePanics, InvocationEnds, gateVars, callerVars
  <2>2. started # None /\ s \in Active BY <2>1 DEF GateInv, Active
  <2> QED BY <1>3, <1>4, <2>1, <2>2 DEF TimeInv
<1>8. ASSUME NEW s \in Slots, WReturn(s) PROVE TimeInv'
  <2>1. /\ wpc[s] = "run" /\ wpc' = [wpc EXCEPT ![s] = "returned"]
        /\ duration' = [duration EXCEPT ![s] = now - started]
        /\ UNCHANGED <<started, now, total, slot>>
    BY <1>8 DEF WReturn, gateVars, callerVars
  <2>2. started # None /\ s \in Active /\ pc = "join" BY <2>1 DEF GateInv, Active
  <2>3. ~(s < slot) BY <2>1, <2>2 DEF GateInv
  <2>4. duration'[s] = now - started /\ \A t \in Slots : t # s => duration'[t] = duration[t]
    BY <1>4, <2>1
  <2> QED BY <1>3, <1>4, <2>1, <2>2, <2>3, <2>4 DEF TimeInv
<1>9. CASE CRelease
  <2>1. /\ started = None /\ started' = now /\ slot' = 0
        /\ UNCHANGED <<now, duration, total>>
    BY <1>9 DEF CRelease, GateInv, workerVars
  <2>2. \A s \in Slots : wpc'[s] # "returned"
    BY <1>4, <1>9, WokenFacts DEF CRelease, GateInv
  <2>3. Active # {} /\ \A s \in Active : s \in Slots /\ s >= 0
    BY <1>3, <1>4, <2>1, BatchAssumption DEF GateInv, Slots, None
  <2> QED BY <1>3, <1>4, <2>1, <2>2, <2>3 DEF TimeInv
<1>10. CASE CJoin
  <2>1. /\ slot' = slot + 1 /\ wpc[slot] = "returned" /\ slot < WorkerCount
        /\ total' = IF duration[slot] > total THEN duration[slot] ELSE total
        /\ UNCHANGED <<wpc, started, now, duration>>
    BY <1>10 DEF CJoin, gateVars, workerVars
  <2>2. started # None /\ count > 0 /\ concurrency > 0 BY <1>10 DEF CJoin, GateInv
  <2>3. slot \in Active /\ Active = 0..(WorkerCount - 1) /\ WorkerCount \in Nat
    BY <1>4, <2>1, <2>2, ActiveFacts
  <2>4. ASSUME NEW s \in Active, s < slot' PROVE duration[s] <= total'
    <3>1. s < slot \/ s = slot BY <1>4, <2>1, <2>3, <2>4
    <3> QED BY <1>4, <2>1, <2>2, <2>3, <3>1 DEF TimeInv
  <2>5. total' <= now - started BY <1>4, <2>1, <2>2, <2>3 DEF TimeInv
  <2> QED BY <1>3, <1>4, <2>1, <2>2, <2>4, <2>5 DEF TimeInv
<1>11. ASSUME \/ SpuriousCallerWakeup \/ CBegin \/ CJoinCancelled \/ CSpawned \/ CWaitReady
              \/ CSpawn \/ CSpawnFails \/ CReturn
       PROVE  TimeInv'
  <2>1. UNCHANGED <<started, now, duration, total>>
    BY <1>11 DEF SpuriousCallerWakeup, CBegin, CJoinCancelled, CSpawned, CWaitReady, CSpawn,
                 CSpawnFails, CReturn, gateVars, workerVars, callerVars
  <2>2. started # None => slot' = slot /\ wpc' = wpc
    BY <1>11 DEF GateInv, SpuriousCallerWakeup, CBegin, CJoinCancelled, CSpawned, CWaitReady,
                 CSpawn, CSpawnFails, CReturn, callerVars
  <2> QED BY <1>5, <2>1, <2>2
<1> QED
  BY <1>1, <1>2, <1>6, <1>7, <1>8, <1>9, <1>10, <1>11 DEF Next, CallerStep, WorkerStep, Finished

\* The result is pending until the call returns, and then one it may return.
LEMMA ResultInvStep ==
  ASSUME TypeOK, GateInv, ResultInv, [Next]_vars
  PROVE  ResultInv'
<1>1. CASE UNCHANGED vars
  BY <1>1 DEF ResultInv, vars, gateVars, workerVars, callerVars, Active, WorkerCount
<1>2. SUFFICES ASSUME Next PROVE ResultInv' BY <1>1
<1>. USE <1>2
<1>3. Active' = Active /\ WorkerCount' = WorkerCount /\ count' = count BY ArgumentsFixed
<1>4. wpc \in [Slots -> WorkerStates] /\ Active \subseteq Slots BY DEF TypeOK, Active
<1>5. ASSUME pc # "done", pc' # "done", UNCHANGED result PROVE ResultInv'
  BY <1>5 DEF ResultInv
<1>6. ASSUME NEW s \in Slots, WorkerStep(s) \/ SpuriousWakeup(s) PROVE ResultInv'
  <2>1. wpc[s] \in {"enter", "blocked", "woken", "run"}
    BY <1>6 DEF WorkerStep, WReady, WWake, WInvokeOk, WInvokePanics, WReturn, SpuriousWakeup
  <2>2. pc # "done" BY <2>1 DEF GateInv
  <2>3. pc' # "done" /\ UNCHANGED result
    BY <1>6, <2>2 DEF WorkerStep, WReady, WWake, WInvokeOk, WInvokePanics, WReturn,
                      SpuriousWakeup, WokenPc, callerVars
  <2> QED BY <1>5, <2>2, <2>3
<1>7. ASSUME \/ SpuriousCallerWakeup \/ CSpawned \/ CWaitReady \/ CSpawn \/ CSpawnFails
             \/ CRelease \/ CJoin
      PROVE  ResultInv'
  <2>1. pc # "done" /\ pc' # "done" /\ UNCHANGED result
    BY <1>7 DEF SpuriousCallerWakeup, CSpawned, CWaitReady, CSpawn, CSpawnFails, CRelease,
                CJoin, callerVars
  <2> QED BY <1>5, <2>1
<1>8. CASE CBegin
  BY <1>3, <1>8 DEF CBegin, Return, ResultInv, GateInv, gateVars
<1>9. CASE CJoinCancelled
  BY <1>3, <1>9 DEF CJoinCancelled, Return, ResultInv, GateInv, gateVars
<1>10. CASE CReturn
  <2>1. started # None /\ slot = WorkerCount /\ \A s \in Active : wpc[s] = "returned"
    BY <1>4, <1>10 DEF CReturn, GateInv, Active
  <2>2. UNCHANGED <<started, slot, wpc>> BY <1>10 DEF CReturn, gateVars
  <2>3. pc' = "done" /\ result'.kind \in {"panicked", "incomplete", "ok"}
    BY <1>10 DEF CReturn, Return
  <2> QED BY <1>3, <2>1, <2>2, <2>3 DEF ResultInv
<1> QED
  BY <1>1, <1>2, <1>6, <1>7, <1>8, <1>9, <1>10 DEF Next, CallerStep, Finished

-----------------------------------------------------------------------------
(* What a batch measures is what it ran.                                   *)

IInv == TypeOK /\ GateInv /\ RangeInv /\ TimeInv /\ ResultInv

\* Nothing has run at first.
LEMMA InitInv ==
  ASSUME Init
  PROVE  IInv
<1>1. TypeOK
  <2>1. mine \in [Slots -> Seq(Nat)] /\ merged \in Seq(Nat) BY DEF Init
  <2>2. /\ wpc \in [Slots -> WorkerStates] /\ cursor \in [Slots -> Nat]
        /\ panicked \in [Slots -> Nat \cup {None}] /\ duration \in [Slots -> Nat]
        /\ ran \in [Indexes -> Outcomes] /\ runs \in [Indexes -> Nat]
    BY DEF Init, WorkerStates, Outcomes
  <2>3. slot \in 0..MaxConcurrency /\ pc \in CallerStates
    BY BatchAssumption DEF Init, CallerStates
  <2> QED BY <2>1, <2>2, <2>3 DEF Init, TypeOK
<1>2. Arrived = {} BY DEF Init, Arrived
<1>3. GateInv BY <1>2, FS_EmptySet DEF Init, GateInv
<1>4. RangeInv
  <2>1. \A s \in Active, i \in Indexes : cursor[s] = 0 /\ ~(i < 0)
    BY BatchAssumption DEF Init, Active, Indexes
  <2> QED BY <2>1 DEF Init, RangeInv
<1>5. TimeInv BY DEF Init, TimeInv
<1>6. ResultInv BY DEF Init, ResultInv, Pending
<1> QED BY <1>1, <1>3, <1>4, <1>5, <1>6 DEF IInv

\* The invariant is inductive.
LEMMA IInvStep ==
  ASSUME IInv, [Next]_vars
  PROVE  IInv'
<1>1. TypeOK' BY TypeStep DEF IInv
<1>2. GateInv' BY <1>1, GateStep DEF IInv
<1>3. RangeInv' BY <1>1, <1>2, RangeInvStep DEF IInv
<1>4. TimeInv' BY <1>1, <1>2, TimeInvStep DEF IInv
<1>5. ResultInv' BY ResultInvStep DEF IInv
<1> QED BY <1>1, <1>2, <1>3, <1>4, <1>5 DEF IInv

\* In every state the code can be in, the invariant holds.
THEOREM WorkloadInvariant == Spec => []IInv
<1>1. Init => IInv BY InitInv
<1>2. IInv /\ [Next]_vars => IInv' BY IInvStep
<1> QED BY <1>1, <1>2, PTL DEF Spec

\* Whatever the batch, the number of workers, their speed and their panics: no
\* operation runs twice, a batch that answers has run each of its operations,
\* nothing runs before the last worker stands at the gate, and the duration
\* runs from there to the end of the last operation.
THEOREM BatchIsMeasured == Spec => []MeasuredBatch
<1>1. ASSUME IInv PROVE MeasuredBatch
  <2>. USE <1>1 DEF IInv
  <2>1. ASSUME started # None
        PROVE  count > 0 /\ concurrency > 0 /\ ready = WorkerCount
    <3>1. PICK s \in Slots : s < WorkerCount BY <2>1 DEF GateInv, Active
    <3>2. s >= 0 BY BatchAssumption DEF Slots
    <3>3. count > 0 /\ concurrency > 0
      BY <3>1, <3>2, BatchAssumption DEF TypeOK, WorkerCount, Least, Slots
    <3>4. Arrived = Active BY <2>1 DEF GateInv
    <3> QED BY <3>3, <3>4, AllArrived
  <2>2. ASSUME NEW i \in Indexes PROVE runs[i] \in {0, 1}
    <3>1. CASE started = None BY <3>1 DEF RangeInv
    <3>2. CASE started # None /\ i < count
      <4>1. i \in 0..(count - 1) BY <3>2, BatchAssumption DEF Indexes, TypeOK
      <4>2. PICK s \in Active : First(s) <= i /\ i < Past(s) BY <2>1, <3>2, <4>1, RangeFacts
      <4> QED BY <4>2 DEF RangeInv
    <3>3. CASE i >= count BY <3>3 DEF RangeInv
    <3> QED BY <3>1, <3>2, <3>3, BatchAssumption DEF Indexes, TypeOK
  <2>3. ASSUME result.kind \in {"ok", "panicked"}, NEW i \in Indexes
        PROVE  runs[i] = IF i < count THEN 1 ELSE 0
    <3>0. i \in Nat /\ count \in Nat BY BatchAssumption DEF Indexes, TypeOK
    <3>1. CASE i >= count BY <3>0, <3>1 DEF RangeInv
    <3>2. CASE i < count
      <4>1. pc = "done" BY <2>3 DEF ResultInv, Pending
      <4>2. started # None /\ \A s \in Active : wpc[s] = "returned"
        BY <2>3, <3>0, <3>2, <4>1 DEF ResultInv
      <4>3. i \in 0..(count - 1) BY <3>0, <3>2
      <4>4. PICK s \in Active : First(s) <= i /\ i < Past(s) BY <2>1, <4>2, <4>3, RangeFacts
      <4>5. cursor[s] = Past(s) BY <4>2 DEF RangeInv
      <4> QED BY <3>2, <4>4, <4>5 DEF RangeInv
    <3> QED BY <3>0, <3>1, <3>2
  <2>4. ASSUME result.kind = "ok", count > 0 PROVE total = now - started
    <3>1. pc = "done" BY <2>4 DEF ResultInv, Pending
    <3>2. /\ started # None /\ slot = WorkerCount /\ count \in Nat
          /\ \A s \in Active : wpc[s] = "returned"
      BY <2>4, <3>1, BatchAssumption DEF ResultInv, TypeOK
    <3>3. PICK s \in Active : duration[s] = now - started BY <3>2 DEF TimeInv
    <3>4. duration[s] <= total /\ total <= now - started BY <3>2, <3>3 DEF TimeInv, Active
    <3>5. total \in Nat /\ now \in Nat /\ started \in Nat BY <3>2 DEF TypeOK
    <3> QED BY <3>3, <3>4, <3>5
  <2>5. ASSUME NEW i \in Indexes, runs[i] > 0 PROVE ready = WorkerCount /\ started # None
    <3>1. started # None BY <2>5 DEF RangeInv
    <3> QED BY <2>1, <3>1
  <2> QED BY <2>2, <2>3, <2>4, <2>5 DEF MeasuredBatch
<1> QED BY <1>1, WorkloadInvariant, PTL

-----------------------------------------------------------------------------
(* Results in order.                                                       *)

\* Consecutive numbers, and what appending the next one makes of them.
LEMMA FromFacts ==
  ASSUME NEW a \in Nat, NEW n \in Nat
  PROVE  /\ From(a, n) \in Seq(Nat) /\ Len(From(a, n)) = n
         /\ From(a, 0) = <<>>
         /\ Append(From(a, n), a + n) = From(a, n + 1)
<1>1. From(a, n) \in Seq(Nat) /\ Len(From(a, n)) = n BY DEF From
<1>2. From(a, 0) = <<>> BY DEF From
<1>3. Append(From(a, n), a + n) = From(a, n + 1)
  <2>1. Append(From(a, n), a + n) \in Seq(Nat) /\ Len(Append(From(a, n), a + n)) = n + 1
    BY <1>1, AppendProperties
  <2>2. From(a, n + 1) \in Seq(Nat) /\ Len(From(a, n + 1)) = n + 1 BY DEF From
  <2>3. ASSUME NEW i \in 1..(n + 1) PROVE Append(From(a, n), a + n)[i] = From(a, n + 1)[i]
    <3>1. CASE i <= n
      <4>1. Append(From(a, n), a + n)[i] = From(a, n)[i] BY <1>1, <3>1, AppendProperties
      <4>2. From(a, n)[i] = a + i - 1 /\ From(a, n + 1)[i] = a + i - 1 BY <3>1 DEF From
      <4> QED BY <4>1, <4>2
    <3>2. CASE i = n + 1
      <4>1. Append(From(a, n), a + n)[i] = a + n BY <1>1, <3>2, AppendProperties
      <4>2. From(a, n + 1)[i] = a + n BY <3>2 DEF From
      <4> QED BY <4>1, <4>2
    <3>3. i <= n \/ i = n + 1 OBVIOUS
    <3> QED BY <3>1, <3>2, <3>3, Zenon
  <2> QED BY <2>1, <2>2, <2>3, SeqEqual
<1> QED BY <1>1, <1>2, <1>3

\* Two adjacent runs of numbers make one.
LEMMA FromConcat ==
  ASSUME NEW a \in Nat, NEW n \in Nat, NEW m \in Nat
  PROVE  From(a, n) \o From(a + n, m) = From(a, n + m)
<1>. DEFINE s == From(a, n)
            t == From(a + n, m)
            u == From(a, n + m)
<1>1. /\ s \in Seq(Nat) /\ Len(s) = n /\ t \in Seq(Nat) /\ Len(t) = m
      /\ u \in Seq(Nat) /\ Len(u) = n + m
  <2>1. a + n \in Nat /\ n + m \in Nat OBVIOUS
  <2> QED BY <2>1, FromFacts, Zenon
<1>2. /\ \A i \in 1..n : s[i] = a + i - 1
      /\ \A i \in 1..m : t[i] = a + n + i - 1
      /\ \A i \in 1..(n + m) : u[i] = a + i - 1
  BY DEF From
<1>. HIDE DEF s, t, u
<1>3. s \o t \in Seq(Nat) /\ Len(s \o t) = n + m BY <1>1, ConcatProperties
<1>4. ASSUME NEW i \in 1..(n + m) PROVE (s \o t)[i] = u[i]
  <2>1. (s \o t)[i] = IF i <= n THEN s[i] ELSE t[i - n] BY <1>1, ConcatProperties
  <2> QED BY <1>2, <2>1
<1>5. s \o t = u BY <1>1, <1>3, <1>4, SeqEqual
<1> QED BY <1>5 DEF s, t, u

\* Sorting a sequence that is in order changes nothing.
LEMMA SortedFrom ==
  ASSUME NEW n \in Nat
  PROVE  Sorted(From(0, n)) = From(0, n)
<1>. DEFINE s == From(0, n)
            below(x) == Cardinality({i \in 1..Len(s) : s[i] < x})
            upTo(x) == Cardinality({i \in 1..Len(s) : s[i] <= x})
            Entry(k) == CHOOSE x \in {s[i] : i \in 1..Len(s)} : below(x) < k /\ k <= upTo(x)
<1>1. Len(s) = n /\ \A i \in 1..n : s[i] = i - 1 BY FromFacts DEF From
<1>. HIDE DEF s
<1>2. {s[i] : i \in 1..Len(s)} = 0..(n - 1)
  <2>1. ASSUME NEW x \in 0..(n - 1) PROVE x \in {s[i] : i \in 1..Len(s)}
    <3>1. x + 1 \in 1..Len(s) /\ s[x + 1] = x BY <1>1
    <3> QED BY <3>1
  <2>2. ASSUME NEW i \in 1..Len(s) PROVE s[i] \in 0..(n - 1) BY <1>1
  <2> QED BY <2>1, <2>2
<1>3. ASSUME NEW x \in 0..(n - 1) PROVE below(x) = x /\ upTo(x) = x + 1
  <2>1. {i \in 1..Len(s) : s[i] < x} = 1..x BY <1>1
  <2>2. {i \in 1..Len(s) : s[i] <= x} = 1..(x + 1) BY <1>1
  <2>3. Cardinality(1..x) = x BY FS_Interval
  <2>4. Cardinality(1..(x + 1)) = x + 1 BY FS_Interval
  <2> QED BY <2>1, <2>2, <2>3, <2>4
<1>4. ASSUME NEW k \in 1..n PROVE Entry(k) = k - 1
  <2>. HIDE DEF below, upTo
  <2>1. k - 1 \in 0..(n - 1) /\ below(k - 1) < k /\ k <= upTo(k - 1) BY <1>3
  <2>2. \A x \in 0..(n - 1) : below(x) < k /\ k <= upTo(x) => x = k - 1 BY <1>3
  <2> QED BY <1>2, <2>1, <2>2
<1>5. Sorted(s) = [k \in 1..n |-> Entry(k)] BY <1>1 DEF Sorted
<1>. HIDE DEF Entry
<1>6. Sorted(s) = [k \in 1..n |-> 0 + k - 1] BY <1>4, <1>5
<1> QED BY <1>6 DEF From, s

\* A step that runs nothing.
LEMMA WorkerResultQuiet ==
  ASSUME TypeOK, TypeOK', WorkerResultInv, Next, UNCHANGED <<mine, panicked, cursor, ran>>,
         \A s \in Slots : wpc'[s] = "unborn" <=> wpc[s] = "unborn"
  PROVE  WorkerResultInv'
<1>1. Active' = Active /\ \A s : First(s)' = First(s) BY ArgumentsFixed, RangesFixed
<1>2. Active \subseteq Slots BY DEF Active
<1> QED BY <1>1, <1>2 DEF WorkerResultInv, WorkerResult

\* A worker's own results are its indexes so far.
LEMMA WorkerResultInvStep ==
  ASSUME IInv, IInv', WorkerResultInv, [Next]_vars
  PROVE  WorkerResultInv'
<1>1. CASE UNCHANGED vars
  BY <1>1 DEF WorkerResultInv, WorkerResult, vars, gateVars, workerVars, callerVars, First,
              Active, WorkerCount
<1>2. SUFFICES ASSUME Next PROVE WorkerResultInv' BY <1>1
<1>. USE <1>2
<1>3. TypeOK /\ TypeOK' /\ GateInv /\ RangeInv BY DEF IInv
<1>4. Active' = Active /\ Active \subseteq Slots /\ \A s : First(s)' = First(s)
  BY ArgumentsFixed, RangesFixed DEF Active
<1>5. /\ wpc \in [Slots -> WorkerStates] /\ cursor \in [Slots -> Nat] /\ mine \in [Slots -> Seq(Nat)]
      /\ panicked \in [Slots -> Nat \cup {None}] /\ ran \in [Indexes -> Outcomes]
      /\ None \notin Nat /\ Indexes \subseteq Nat
  BY <1>3, BatchAssumption DEF TypeOK, None, Indexes
\* Another worker's range is out of reach of the one that runs.
<1>6. ASSUME NEW s \in Slots, NEW o \in {"ok", "panic"}, wpc[s] = "run", cursor[s] < Past(s),
             InvocationEnds(s, o), UNCHANGED wpc, NEW t \in Active, t # s,
             mine'[t] = mine[t], panicked'[t] = panicked[t]
      PROVE  WorkerResult(t)'
  <2>1. /\ s \in Active /\ cursor[s] \in Indexes
        /\ cursor[s] < First(t) \/ Past(t) <= cursor[s]
        /\ count > 0 /\ concurrency > 0
    BY <1>3, <1>6, CursorFacts DEF GateInv
  <2>2. First(t) \in Nat /\ Past(t) \in Nat /\ Past(t) <= count
    BY <1>3, <2>1, RangeFacts
  <2>3. cursor'[t] = cursor[t] /\ \A i \in Indexes : i # cursor[s] => ran'[i] = ran[i]
    BY <1>4, <1>5, <1>6 DEF InvocationEnds
  <2>4. wpc[t] # "unborn" => cursor[t] <= Past(t) BY <1>3, <1>4 DEF RangeInv
  <2>5. ASSUME wpc[t] # "unborn", NEW i \in Indexes, First(t) <= i, i < cursor[t]
        PROVE  ran'[i] = ran[i]
    BY <1>4, <1>5, <2>1, <2>2, <2>3, <2>4, <2>5
  <2>6. WorkerResult(t) BY DEF WorkerResultInv
  <2>7. CASE panicked[t] = None
    BY <1>4, <1>6, <2>3, <2>5, <2>6, <2>7 DEF WorkerResult
  <2>8. CASE panicked[t] # None
    <3>0. count \in Nat /\ count <= MaxCount BY <1>3, BatchAssumption DEF TypeOK
    <3>1. wpc[t] # "unborn" BY <2>6, <2>8 DEF WorkerResult
    <3>2. /\ First(t) <= panicked[t] /\ panicked[t] < cursor[t] /\ ran[panicked[t]] = "panic"
          /\ \A i \in Indexes : First(t) <= i /\ i < panicked[t] => ran[i] # "panic"
      BY <2>6, <2>8, <3>1 DEF WorkerResult
    <3>3. panicked[t] \in Nat /\ cursor[t] \in Nat BY <1>4, <1>5, <2>8
    <3>4. panicked[t] \in Indexes
      BY <2>2, <2>4, <3>0, <3>1, <3>2, <3>3, BatchAssumption DEF Indexes
    <3>5. ran'[panicked[t]] = "panic" BY <2>5, <3>1, <3>2, <3>4
    <3>6. ASSUME NEW i \in Indexes, First(t) <= i, i < panicked[t] PROVE ran'[i] # "panic"
      BY <1>5, <2>5, <3>1, <3>2, <3>3, <3>6
    <3> QED BY <1>4, <1>6, <2>3, <2>8, <3>1, <3>2, <3>5, <3>6 DEF WorkerResult
  <2> QED BY <2>7, <2>8
<1>7. ASSUME NEW s \in Slots, WInvokeOk(s) PROVE WorkerResultInv'
  <2>. DEFINE c == cursor[s]
  <2>1. /\ wpc[s] = "run" /\ c < Past(s) /\ InvocationEnds(s, "ok")
        /\ mine' = [mine EXCEPT ![s] = Append(mine[s], c)] /\ UNCHANGED <<wpc, panicked>>
    BY <1>7 DEF WInvokeOk, Past
  <2>2. s \in Active /\ c \in Indexes /\ First(s) <= c /\ count > 0 /\ concurrency > 0
    BY <1>3, <2>1, CursorFacts DEF GateInv
  <2>3. First(s) \in Nat /\ c \in Nat /\ c - First(s) \in Nat
    BY <1>3, <1>5, <2>2, RangeFacts
  <2>4. ran' = [ran EXCEPT ![c] = "ok"] /\ cursor' = [cursor EXCEPT ![s] = c + 1]
    BY <2>1 DEF InvocationEnds
  <2>5. WorkerResult(s) BY <2>2 DEF WorkerResultInv
  <2>6. mine'[s] = Append(mine[s], c) /\ cursor'[s] = c + 1 BY <1>5, <2>1, <2>4
  <2>7. ASSUME panicked[s] = None PROVE WorkerResult(s)'
    <3>1. mine[s] = From(First(s), c - First(s)) BY <2>1, <2>5, <2>7 DEF WorkerResult
    <3>2. First(s) + (c - First(s)) = c /\ (c - First(s)) + 1 = (c + 1) - First(s) BY <2>3
    <3>3. mine'[s] = From(First(s), (c + 1) - First(s))
      <4>1. Append(From(First(s), c - First(s)), First(s) + (c - First(s)))
              = From(First(s), (c - First(s)) + 1)
        BY <2>3, FromFacts
      <4> QED BY <2>6, <3>1, <3>2, <4>1
    <3>4. ASSUME NEW i \in Indexes, First(s) <= i, i < c + 1 PROVE ran'[i] = "ok"
      <4>1. CASE i = c BY <1>5, <2>2, <2>4, <4>1
      <4>2. CASE i # c
        <5>1. i < c BY <1>5, <2>3, <3>4, <4>2
        <5> QED BY <1>5, <2>1, <2>4, <2>5, <2>7, <3>4, <4>2, <5>1 DEF WorkerResult
      <4> QED BY <4>1, <4>2
    <3> QED BY <1>4, <2>1, <2>6, <2>7, <3>3, <3>4 DEF WorkerResult
  <2>8. ASSUME panicked[s] # None PROVE WorkerResult(s)'
    <3>1. panicked[s] \in Nat BY <1>5, <2>8
    <3> QED BY <1>4, <1>5, <2>1, <2>2, <2>3, <2>4, <2>5, <2>6, <2>8, <3>1 DEF WorkerResult
  <2>9. WorkerResult(s)' BY <2>7, <2>8
  <2>10. ASSUME NEW t \in Active, t # s PROVE WorkerResult(t)'
    <3>1. mine'[t] = mine[t] /\ panicked'[t] = panicked[t] BY <1>4, <1>5, <2>1, <2>10
    <3> QED BY <1>6, <2>1, <2>10, <3>1
  <2> QED BY <1>4, <2>9, <2>10 DEF WorkerResultInv
<1>8. ASSUME NEW s \in Slots, WInvokePanics(s) PROVE WorkerResultInv'
  <2>. DEFINE c == cursor[s]
  <2>1. /\ wpc[s] = "run" /\ c < Past(s) /\ InvocationEnds(s, "panic")
        /\ panicked' = [panicked EXCEPT ![s] = LowerPanic(panicked[s], c)]
        /\ UNCHANGED <<wpc, mine>>
    BY <1>8 DEF WInvokePanics, Past
  <2>2. s \in Active /\ c \in Indexes /\ First(s) <= c /\ count > 0 /\ concurrency > 0
    BY <1>3, <2>1, CursorFacts DEF GateInv
  <2>3. First(s) \in Nat /\ c \in Nat BY <1>3, <1>5, <2>2, RangeFacts
  <2>4. ran' = [ran EXCEPT ![c] = "panic"] /\ cursor' = [cursor EXCEPT ![s] = c + 1]
    BY <2>1 DEF InvocationEnds
  <2>5. WorkerResult(s) BY <2>2 DEF WorkerResultInv
  <2>6. panicked'[s] = LowerPanic(panicked[s], c) /\ cursor'[s] = c + 1 BY <1>5, <2>1, <2>4
  <2>7. ASSUME panicked[s] = None PROVE WorkerResult(s)'
    <3>1. panicked'[s] = c BY <2>6, <2>7 DEF LowerPanic
    <3>2. ran'[c] = "panic" /\ \A i \in Indexes : i # c => ran'[i] = ran[i]
      BY <1>5, <2>2, <2>4
    <3>3. \A i \in Indexes : First(s) <= i /\ i < c => ran'[i] # "panic"
      BY SMTT(30), <1>5, <2>1, <2>3, <2>5, <2>7, <3>2 DEF WorkerResult
    <3> QED BY <1>4, <1>5, <2>1, <2>2, <2>3, <2>6, <3>1, <3>2, <3>3 DEF WorkerResult
  <2>8. ASSUME panicked[s] # None PROVE WorkerResult(s)'
    <3>1. panicked[s] \in Nat /\ panicked[s] < c /\ First(s) <= panicked[s]
      BY <1>5, <2>1, <2>5, <2>8 DEF WorkerResult
    <3>2. panicked'[s] = panicked[s] BY <2>3, <2>6, <2>8, <3>1 DEF LowerPanic, Least
    <3> QED BY <1>4, <1>5, <2>1, <2>2, <2>3, <2>4, <2>5, <2>6, <2>8, <3>1, <3>2 DEF WorkerResult
  <2>9. WorkerResult(s)' BY <2>7, <2>8
  <2>10. ASSUME NEW t \in Active, t # s PROVE WorkerResult(t)'
    <3>1. mine'[t] = mine[t] /\ panicked'[t] = panicked[t] BY <1>4, <1>5, <2>1, <2>10
    <3> QED BY <1>6, <2>1, <2>10, <3>1
  <2> QED BY <1>4, <2>9, <2>10 DEF WorkerResultInv
<1>9. ASSUME CSpawn, NEW v \in Slots, v = slot PROVE WorkerResultInv'
  <2>1. /\ count > 0 /\ concurrency > 0 /\ v < WorkerCount
        /\ wpc' = [wpc EXCEPT ![v] = "enter"] /\ cursor' = [cursor EXCEPT ![v] = First(v)]
        /\ UNCHANGED <<mine, panicked, ran>>
    BY <1>3, <1>9 DEF CSpawn, GateInv, First
  <2>2. v \in Active /\ wpc[v] = "unborn"
    BY <1>3, <1>9, <2>1, BatchAssumption DEF CSpawn, GateInv, Active, Slots
  <2>3. First(v) \in Nat BY <1>3, <2>1, <2>2, RangeFacts
  <2>4. mine[v] = From(First(v), 0) /\ panicked[v] = None
    BY <2>2, <2>3, FromFacts DEF WorkerResultInv, WorkerResult
  <2>5. wpc'[v] = "enter" /\ cursor'[v] = First(v) /\ First(v) - First(v) = 0
    BY <1>5, <2>1, <2>3
  <2>6. \A i \in Indexes : ~(First(v) <= i /\ i < First(v)) BY <1>5, <2>3
  <2>7. WorkerResult(v)' BY <1>4, <2>1, <2>4, <2>5, <2>6 DEF WorkerResult
  <2>8. ASSUME NEW t \in Active, t # v PROVE WorkerResult(t)'
    <3>1. wpc'[t] = wpc[t] /\ cursor'[t] = cursor[t] BY <1>4, <1>5, <2>1, <2>8
    <3> QED BY <1>4, <2>1, <2>8, <3>1 DEF WorkerResultInv, WorkerResult
  <2> QED BY <1>4, <2>7, <2>8 DEF WorkerResultInv
<1>a. CSpawn => slot \in Slots
  BY <1>3, ActiveFacts, BatchAssumption DEF CSpawn, GateInv, TypeOK, Slots
<1>10. ASSUME \/ \E s \in Slots : WReady(s) \/ WWake(s) \/ SpuriousWakeup(s) \/ WReturn(s)
              \/ SpuriousCallerWakeup \/ CBegin \/ CJoinCancelled \/ CSpawned \/ CWaitReady
              \/ CSpawnFails \/ CRelease \/ CJoin \/ CReturn
       PROVE  WorkerResultInv'
  <2>1. UNCHANGED <<mine, panicked, cursor, ran>>
    BY <1>10 DEF WReady, WWake, SpuriousWakeup, WReturn, SpuriousCallerWakeup, CBegin,
                 CJoinCancelled, CSpawned, CWaitReady, CSpawnFails, CRelease, CJoin, CReturn,
                 workerVars
  <2>2. \A s \in Slots : wpc'[s] = "unborn" <=> wpc[s] = "unborn"
    BY <1>3, <1>5, <1>10, WokenFacts
    DEF WReady, WWake, SpuriousWakeup, WReturn, SpuriousCallerWakeup, CBegin, CJoinCancelled,
        CSpawned, CWaitReady, CSpawnFails, CRelease, CJoin, CReturn, AtGate
  <2> QED BY <1>3, <2>1, <2>2, WorkerResultQuiet
<1> QED
  BY <1>1, <1>2, <1>7, <1>8, <1>9, <1>a, <1>10 DEF Next, CallerStep, WorkerStep, Finished

\* The merged results are those of the workers joined so far.
LEMMA MergedInvStep ==
  ASSUME IInv, IInv', WorkerResultInv, MergedInv, [Next]_vars
  PROVE  MergedInv'
<1>1. CASE UNCHANGED vars
  BY <1>1 DEF MergedInv, vars, gateVars, workerVars, callerVars, First, WorkerCount
<1>2. SUFFICES ASSUME Next PROVE MergedInv' BY <1>1
<1>. USE <1>2
<1>3. TypeOK /\ GateInv /\ RangeInv BY DEF IInv
<1>4. Active' = Active /\ Active \subseteq Slots /\ WorkerCount' = WorkerCount /\ \A s : First(s)' = First(s)
  BY ArgumentsFixed, RangesFixed DEF Active
<1>5. /\ cursor \in [Slots -> Nat] /\ panicked \in [Slots -> Nat \cup {None}]
      /\ ran \in [Indexes -> Outcomes] /\ firstPanic \in Nat \cup {None} /\ slot \in Nat
      /\ None \notin Nat /\ Indexes \subseteq Nat
  BY <1>3, BatchAssumption DEF TypeOK, None, Indexes
<1>6. ASSUME pc' \notin {"join", "done"}, UNCHANGED <<merged, firstPanic>>, pc \notin {"join", "done"}
      PROVE  MergedInv'
  BY <1>3, <1>6 DEF MergedInv, TypeOK, CallerStates
<1>7. ASSUME pc' = pc, pc = "join", UNCHANGED <<merged, firstPanic, slot, ran>> PROVE MergedInv'
  <2>1. First(slot)' = First(slot) BY <1>7, <1>4 DEF First
  <2> QED BY <1>4, <1>7, <2>1 DEF MergedInv
<1>8. ASSUME pc' = "done" PROVE MergedInv' BY <1>8 DEF MergedInv
\* Those who still run are in ranges behind the slots that were joined.
<1>9. ASSUME NEW s \in Slots, NEW o \in {"ok", "panic"}, wpc[s] = "run", cursor[s] < Past(s),
             InvocationEnds(s, o), UNCHANGED <<pc, slot, merged, firstPanic>>
      PROVE  MergedInv'
  <2>1. /\ s \in Active /\ cursor[s] \in Indexes /\ First(s) <= cursor[s] /\ pc = "join"
        /\ count > 0 /\ concurrency > 0
    BY <1>3, <1>9, CursorFacts DEF GateInv
  <2>2. slot <= s /\ slot \in Active /\ s \in Nat
    <3>1. s \in Nat BY BatchAssumption DEF Slots
    <3>2. slot <= s BY <1>3, <1>5, <1>9, <2>1, <3>1 DEF GateInv
    <3>3. s \in 0..(WorkerCount - 1) /\ WorkerCount \in Nat BY <1>3, <2>1, ActiveFacts
    <3>4. slot \in 0..(WorkerCount - 1) BY <1>5, <3>2, <3>3
    <3> QED BY <1>3, <2>1, <3>1, <3>2, <3>4, ActiveFacts
  <2>3. First(slot) <= First(s) /\ First(s) \in Nat /\ First(slot) \in Nat
    <3>1. /\ First(s) \in Nat /\ First(slot) \in Nat /\ Past(slot) \in Nat
          /\ First(slot) <= Past(slot)
          /\ slot < s => Past(slot) <= First(s)
      BY <1>3, <2>1, <2>2, RangeFacts
    <3>2. CASE slot < s BY <3>1, <3>2
    <3>3. CASE slot = s
      <4>1. First(slot) = First(s) BY <3>3 DEF First
      <4> QED BY <3>1, <4>1
    <3>4. slot < s \/ slot = s BY <1>5, <2>2
    <3> QED BY <3>2, <3>3, <3>4
  <2>4. ran' = [ran EXCEPT ![cursor[s]] = o] BY <1>9 DEF InvocationEnds
  <2>5. ASSUME NEW i \in Indexes, i < First(slot) PROVE ran'[i] = ran[i]
    <3>1. i # cursor[s] BY <1>4, <1>5, <2>1, <2>3, <2>5
    <3> QED BY <1>5, <2>4, <3>1
  <2>6. First(slot)' = First(slot) BY <1>4, <1>9 DEF First
  <2>7. CASE firstPanic = None
    BY <1>9, <2>1, <2>5, <2>6, <2>7 DEF MergedInv
  <2>8. CASE firstPanic # None
    <3>1. firstPanic \in Nat /\ firstPanic < First(slot) BY <1>5, <2>1, <2>8 DEF MergedInv
    <3>2. count \in Nat /\ count <= MaxCount BY <1>3, BatchAssumption DEF TypeOK
    <3>3. First(slot) <= count
      <4>1. Past(slot) <= count /\ First(slot) <= Past(slot) /\ Past(slot) \in Nat
        BY <1>3, <2>1, <2>2, RangeFacts
      <4> QED BY <2>3, <3>2, <4>1
    <3>4. firstPanic \in Indexes
      BY <2>3, <3>1, <3>2, <3>3, BatchAssumption DEF Indexes
    <3>5. \A i \in Indexes : i < firstPanic => i < First(slot) BY <1>5, <2>3, <3>1
    <3> QED BY <1>9, <2>1, <2>5, <2>6, <2>8, <3>1, <3>4, <3>5 DEF MergedInv
  <2> QED BY <2>7, <2>8
<1>10. CASE CRelease
  <2>1. /\ merged' = <<>> /\ firstPanic' = None /\ slot' = 0 /\ pc' = "join"
        /\ count > 0 /\ concurrency > 0
    BY <1>3, <1>10 DEF CRelease, MergedInv, GateInv
  <2>2. First(slot)' = 0
    <3>1. First(0) = 0 BY <1>3, <2>1, RangeFacts
    <3>2. First(slot)' = First(0)' BY <2>1 DEF First
    <3> QED BY <1>4, <3>1, <3>2
  <2>3. From(0, 0) = <<>> BY FromFacts
  <2>4. Indexes' = Indexes /\ \A i \in Indexes : ~(i < 0) BY <1>5 DEF Indexes
  <2> QED BY <2>1, <2>2, <2>3, <2>4 DEF MergedInv
<1>11. ASSUME CJoin, NEW v \in Nat, v = slot PROVE MergedInv'
  <2>1. /\ pc = "join" /\ pc' = "join" /\ v < WorkerCount /\ wpc[v] = "returned" /\ slot' = v + 1
        /\ merged' = merged \o mine[v]
        /\ firstPanic' = IF panicked[v] = None THEN firstPanic
                         ELSE LowerPanic(firstPanic, panicked[v])
        /\ ran' = ran /\ count > 0 /\ concurrency > 0 /\ started # None
    BY <1>3, <1>11 DEF CJoin, GateInv, workerVars
  <2>2. v \in Active /\ v \in Slots BY <1>3, <1>4, <2>1, ActiveFacts DEF Active
  <2>3. /\ First(v) \in Nat /\ Past(v) \in Nat /\ First(v) <= Past(v) /\ Past(v) <= count
        /\ Past(v) = First(v + 1)
    BY <1>3, <2>1, <2>2, RangeFacts
  <2>4. First(slot)' = Past(v)
    <3>1. First(slot)' = First(v + 1)' BY <2>1 DEF First
    <3> QED BY <1>4, <2>3, <3>1
  <2>5. cursor[v] = Past(v) BY <1>3, <2>1, <2>2 DEF RangeInv
  <2>6. WorkerResult(v) BY <2>2 DEF WorkerResultInv
  <2>7. panicked[v] \in Nat \cup {None} BY <1>5, <2>2
  <2>8. CASE firstPanic = None /\ panicked[v] = None
    <3>1. merged = From(0, First(v)) /\ \A i \in Indexes : i < First(v) => ran[i] = "ok"
      BY <1>11, <2>1, <2>8 DEF MergedInv
    <3>2. /\ mine[v] = From(First(v), Past(v) - First(v))
          /\ \A i \in Indexes : First(v) <= i /\ i < Past(v) => ran[i] = "ok"
      BY <2>1, <2>5, <2>6, <2>8 DEF WorkerResult
    <3>3. Past(v) - First(v) \in Nat /\ 0 + First(v) = First(v)
          /\ First(v) + (Past(v) - First(v)) = Past(v)
      BY <2>3
    <3>4. From(0, First(v)) \o From(0 + First(v), Past(v) - First(v))
            = From(0, First(v) + (Past(v) - First(v)))
      BY <2>3, <3>3, FromConcat
    <3>a. merged' = From(0, Past(v)) BY <2>1, <3>1, <3>2, <3>3, <3>4
    <3>5. \A i \in Indexes : i < Past(v) => ran[i] = "ok" BY <1>5, <2>3, <3>1, <3>2
    <3> QED BY <2>1, <2>4, <2>8, <3>a, <3>5 DEF MergedInv
  <2>9. CASE firstPanic = None /\ panicked[v] # None
    <3>1. \A i \in Indexes : i < First(v) => ran[i] = "ok"
      BY <1>11, <2>1, <2>9 DEF MergedInv
    <3>2. /\ First(v) <= panicked[v] /\ panicked[v] < Past(v) /\ ran[panicked[v]] = "panic"
          /\ \A i \in Indexes : First(v) <= i /\ i < panicked[v] => ran[i] # "panic"
      BY <2>1, <2>5, <2>6, <2>9 DEF WorkerResult
    <3>3. firstPanic' = panicked[v] BY <2>1, <2>9 DEF LowerPanic
    <3>4. \A i \in Indexes : i < panicked[v] => ran[i] # "panic"
      BY <1>5, <2>3, <2>7, <2>9, <3>1, <3>2
    <3> QED BY <2>1, <2>4, <2>9, <3>2, <3>3, <3>4 DEF MergedInv
  <2>10. CASE firstPanic # None
    <3>1. /\ firstPanic < First(v) /\ ran[firstPanic] = "panic" /\ firstPanic \in Nat
          /\ \A i \in Indexes : i < firstPanic => ran[i] # "panic"
      BY <1>5, <1>11, <2>1, <2>10 DEF MergedInv
    <3>2. panicked[v] # None => First(v) <= panicked[v] BY <2>1, <2>6 DEF WorkerResult
    <3>3. firstPanic' = firstPanic
      BY <2>1, <2>3, <2>7, <2>10, <3>1, <3>2 DEF LowerPanic, Least
    <3>4. firstPanic < Past(v) BY <2>3, <3>1
    <3> QED BY <2>1, <2>4, <2>10, <3>1, <3>3, <3>4 DEF MergedInv
  <2> QED BY <2>8, <2>9, <2>10
<1>12. ASSUME NEW s \in Slots, WorkerStep(s) \/ SpuriousWakeup(s) PROVE MergedInv'
  <2>1. CASE WInvokeOk(s) \/ WInvokePanics(s)
    BY <1>9, <2>1 DEF WInvokeOk, WInvokePanics, Past, callerVars
  <2>2. CASE WReady(s) \/ WWake(s) \/ WReturn(s) \/ SpuriousWakeup(s)
    <3>1. UNCHANGED <<merged, firstPanic, slot, ran>> /\ pc' \in {pc, WokenPc}
      BY <2>2 DEF WReady, WWake, WReturn, SpuriousWakeup, workerVars, callerVars
    <3>2. pc # "done"
      BY <1>3, <2>2 DEF WReady, WWake, WReturn, SpuriousWakeup, GateInv
    <3>3. pc \notin {"join", "done"} => pc' \notin {"join", "done"} BY <3>1 DEF WokenPc
    <3>4. pc = "join" => pc' = pc BY <3>1 DEF WokenPc
    <3> QED BY <1>6, <1>7, <3>1, <3>2, <3>3, <3>4
  <2> QED BY <1>12, <2>1, <2>2 DEF WorkerStep
<1>13. ASSUME \/ SpuriousCallerWakeup \/ CSpawned \/ CWaitReady \/ CSpawn \/ CSpawnFails
       PROVE  MergedInv'
  <2>1. UNCHANGED <<merged, firstPanic>> /\ {pc, pc'} \cap {"join", "done"} = {}
    BY <1>13 DEF SpuriousCallerWakeup, CSpawned, CWaitReady, CSpawn, CSpawnFails, callerVars
  <2> QED BY <1>6, <2>1
<1>14. ASSUME CBegin PROVE MergedInv'
  <2>1. UNCHANGED <<merged, firstPanic>> /\ pc = "begin" /\ pc' \in {"spawn", "done"}
    BY <1>14 DEF CBegin, Return
  <2> QED BY <1>6, <1>8, <2>1
<1>15. ASSUME CJoinCancelled \/ CReturn PROVE MergedInv'
  BY <1>8, <1>15 DEF CJoinCancelled, CReturn, Return
<1> QED
  BY <1>1, <1>2, <1>5, <1>10, <1>11, <1>12, <1>13, <1>14, <1>15 DEF Next, CallerStep, Finished

-----------------------------------------------------------------------------
(* The executor implements the abstract batch.                             *)

RInv == IInv /\ WorkerResultInv /\ MergedInv

\* At every point of execute_batch each worker holds the results of its range so
\* far, and the caller those of the ranges it joined, or the lowest panic.
THEOREM ResultsInvariant == Spec => []RInv
<1>1. Init => RInv
  <2>. SUFFICES ASSUME Init PROVE RInv OBVIOUS
  <2>1. WorkerResultInv
    BY DEF Init, WorkerResultInv, WorkerResult, Active
  <2>2. MergedInv BY DEF Init, MergedInv
  <2> QED BY <2>1, <2>2, InitInv DEF RInv
<1>2. RInv /\ [Next]_vars => RInv'
  <2>. SUFFICES ASSUME RInv, [Next]_vars PROVE RInv' OBVIOUS
  <2>1. IInv' BY IInvStep DEF RInv
  <2> QED BY <2>1, WorkerResultInvStep, MergedInvStep DEF RInv
<1> QED BY <1>1, <1>2, PTL DEF Spec

\* Each step of the executor is a step of the abstract batch or leaves what the
\* abstract batch shows as it is.
LEMMA BatchStep ==
  ASSUME RInv, [Next]_vars
  PROVE  [Abstract!BNext]_(Abstract!bvars)
<1>1. CASE UNCHANGED vars
  BY <1>1 DEF vars, gateVars, workerVars, callerVars, Abstract!bvars
<1>2. SUFFICES ASSUME Next PROVE [Abstract!BNext]_(Abstract!bvars) BY <1>1
<1>. USE <1>2
<1>3. TypeOK /\ GateInv /\ RangeInv /\ ResultInv BY DEF RInv, IInv
<1>4. count' = count /\ count \in Nat BY <1>3, ArgumentsFixed, BatchAssumption DEF TypeOK
<1>5. /\ Abstract!Batch = {i \in Indexes : i < count}
      /\ Abstract!Pending = Pending
      /\ \A i \in Abstract!Batch : i \in Indexes /\ i \in Nat
  BY BatchAssumption DEF Abstract!Batch, Abstract!Pending, Indexes, Pending
<1>6. ASSUME UNCHANGED <<ran, result>> PROVE UNCHANGED Abstract!bvars
  BY <1>4, <1>6 DEF Abstract!bvars
<1>7. ASSUME NEW s \in Slots, NEW o \in {"ok", "panic"}, wpc[s] = "run", cursor[s] < Past(s),
             InvocationEnds(s, o), UNCHANGED result
      PROVE  Abstract!BNext
  <2>1. /\ cursor[s] \in Indexes /\ cursor[s] < count /\ ran[cursor[s]] = "no" /\ pc = "join"
    BY <1>3, <1>7, CursorFacts
  <2>2. cursor[s] \in Abstract!Batch BY <1>5, <2>1
  <2>3. result = Abstract!Pending BY <1>3, <1>5, <2>1 DEF ResultInv
  <2>4. Abstract!Invoke(cursor[s])
    BY <1>4, <1>7, <2>1, <2>2, <2>3 DEF InvocationEnds, Abstract!Invoke
  <2> QED BY <2>2, <2>4 DEF Abstract!BNext
<1>8. ASSUME NEW s \in Slots, WInvokeOk(s) \/ WInvokePanics(s) PROVE Abstract!BNext
  BY <1>7, <1>8 DEF WInvokeOk, WInvokePanics, Past, callerVars
<1>9. ASSUME \/ \E s \in Slots : WReady(s) \/ WWake(s) \/ SpuriousWakeup(s) \/ WReturn(s)
             \/ SpuriousCallerWakeup \/ CSpawn \/ CSpawned \/ CWaitReady
             \/ CSpawnFails \/ CRelease \/ CJoin
      PROVE  UNCHANGED Abstract!bvars
  <2>1. UNCHANGED <<ran, result>>
    BY <1>9 DEF WReady, WWake, SpuriousWakeup, WReturn, SpuriousCallerWakeup, CSpawn, CSpawned,
                CWaitReady, CSpawnFails, CRelease, CJoin, workerVars, callerVars
  <2> QED BY <1>6, <2>1
\* Nothing has run before the gate is open.
<1>10. ASSUME started = None PROVE \A i \in Abstract!Batch : ran[i] = "no"
  BY <1>3, <1>5, <1>10 DEF RangeInv
<1>11. CASE CBegin
  <2>1. started = None /\ result = Abstract!Pending /\ ran' = ran
    BY <1>3, <1>5, <1>11 DEF CBegin, GateInv, ResultInv, workerVars
  <2>2. CASE count = 0
    <3>1. Abstract!Batch = {} BY <1>5, <2>2
    <3>2. result' = [kind |-> "ok", results |-> <<>>] BY <1>11, <2>2 DEF CBegin, Return
    <3>3. <<>> = [k \in 1..count |-> k - 1] BY <2>2
    <3>4. Abstract!ReturnResults BY <1>4, <2>1, <3>1, <3>2, <3>3 DEF Abstract!ReturnResults
    <3> QED BY <3>4 DEF Abstract!BNext
  <2>3. CASE count # 0 /\ concurrency = 0
    <3>1. result' = [kind |-> "zeroConcurrency"] BY <1>11, <2>3 DEF CBegin, Return
    <3>2. Abstract!Refuse BY <1>4, <1>10, <2>1, <2>3, <3>1 DEF Abstract!Refuse
    <3> QED BY <3>2 DEF Abstract!BNext
  <2>4. CASE count # 0 /\ concurrency # 0
    <3>1. UNCHANGED <<ran, result>> BY <1>11, <2>1, <2>4 DEF CBegin
    <3> QED BY <1>6, <3>1
  <2> QED BY <2>2, <2>3, <2>4
<1>12. CASE CJoinCancelled
  <2>1. started = None /\ result = Abstract!Pending /\ ran' = ran /\ count > 0
    BY <1>3, <1>5, <1>12 DEF CJoinCancelled, GateInv, ResultInv, workerVars
  <2>2. result' = [kind |-> "spawnFailed"] BY <1>12 DEF CJoinCancelled, Return
  <2>3. Abstract!Refuse BY <1>4, <1>10, <2>1, <2>2 DEF Abstract!Refuse
  <2> QED BY <2>3 DEF Abstract!BNext
<1>13. CASE CReturn
  <2>1. /\ pc = "join" /\ slot = WorkerCount /\ started # None /\ count > 0 /\ concurrency > 0
        /\ ran' = ran /\ result = Abstract!Pending
        /\ \A s \in Active : wpc[s] = "returned"
    BY <1>3, <1>5, <1>13 DEF CReturn, GateInv, ResultInv, workerVars, Active
  <2>2. First(slot) = count
    <3>1. First(WorkerCount) = count BY <1>3, <2>1, RangeFacts
    <3> QED BY <2>1, <3>1
  <2>3. ASSUME NEW i \in Abstract!Batch PROVE ran[i] # "no"
    <3>1. i \in 0..(count - 1) /\ i \in Indexes BY <1>4, <1>5, BatchAssumption DEF Indexes
    <3>2. PICK s \in Active : First(s) <= i /\ i < Past(s) BY <1>3, <2>1, <3>1, RangeFacts
    <3>3. cursor[s] = Past(s) BY <1>3, <2>1 DEF RangeInv
    <3>4. runs[i] = 1 BY <1>3, <3>1, <3>2, <3>3 DEF RangeInv
    <3> QED BY <1>3, <3>1, <3>4 DEF RangeInv
  <2>4. CASE firstPanic # None
    <3>1. result' = [kind |-> "panicked", index |-> firstPanic]
      BY <1>13, <2>4 DEF CReturn, Return
    <3>2. /\ firstPanic \in Nat /\ firstPanic < count /\ ran[firstPanic] = "panic"
          /\ \A i \in Indexes : i < firstPanic => ran[i] # "panic"
      BY <1>3, <2>1, <2>2, <2>4 DEF RInv, MergedInv, TypeOK
    <3>3. firstPanic \in Abstract!Panics
      BY <1>3, <1>5, <3>2, BatchAssumption DEF Abstract!Panics, Indexes, TypeOK
    <3>4. \A j \in Abstract!Panics : firstPanic <= j
      BY <1>5, <3>2 DEF Abstract!Panics
    <3>5. Abstract!ReturnPanic
      BY <1>4, <2>1, <2>3, <3>1, <3>3, <3>4 DEF Abstract!ReturnPanic
    <3> QED BY <3>5 DEF Abstract!BNext
  <2>5. CASE firstPanic = None
    <3>1. merged = From(0, count) /\ \A i \in Indexes : i < count => ran[i] = "ok"
      BY <2>1, <2>2, <2>5 DEF RInv, MergedInv
    <3>2. Len(merged) = count /\ Sorted(merged) = From(0, count)
      BY <1>4, <3>1, FromFacts, SortedFrom
    <3>3. result' = [kind |-> "ok", results |-> From(0, count)]
      BY <1>13, <2>5, <3>2 DEF CReturn, Return
    <3>4. From(0, count) = [k \in 1..count |-> k - 1] BY <1>4 DEF From
    <3>5. \A i \in Abstract!Batch : ran[i] = "ok" BY <1>5, <3>1
    <3>6. Abstract!ReturnResults
      BY <1>4, <2>1, <3>3, <3>4, <3>5 DEF Abstract!ReturnResults
    <3> QED BY <3>6 DEF Abstract!BNext
  <2> QED BY <2>4, <2>5
<1> QED
  BY <1>1, <1>2, <1>8, <1>9, <1>11, <1>12, <1>13 DEF Next, CallerStep, WorkerStep, Finished

\* Whatever the threads do, the caller sees a batch: each operation once, in any
\* order, and then all the results in order, or the lowest index that panicked.
THEOREM ExecutorIsBatch == Spec => Abstract!BInit /\ [][Abstract!BNext]_(Abstract!bvars)
<1>1. Init => Abstract!BInit
  BY DEF Init, Abstract!BInit, Indexes, Pending, Abstract!Pending
<1>2. RInv /\ [Next]_vars => [Abstract!BNext]_(Abstract!bvars) BY BatchStep
<1> QED BY <1>1, <1>2, ResultsInvariant, PTL DEF Spec

=============================================================================
