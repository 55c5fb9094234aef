------------------------------ MODULE Workload ------------------------------
(***************************************************************************)
(* The bounded closed-loop executor, src/operations/workload.rs: the       *)
(* calling thread spawns min(count, concurrency) scoped workers, waits     *)
(* until all of them stand at the start gate, opens it, and joins them in  *)
(* slot order.  The gate is one mutex and one condition variable shared by *)
(* the caller and the workers.                                             *)
(*                                                                         *)
(* An invocation is one step that returns or panics; its result is its     *)
(* index.  Time is the number of invocations that have ended.              *)
(***************************************************************************)
EXTENDS Integers, Sequences, FiniteSets

CONSTANTS MaxCount,       \* bound on the count of a batch (model bound)
          MaxConcurrency  \* bound on its concurrency (model bound)

ASSUME BatchAssumption == MaxCount \in Nat /\ MaxConcurrency \in Nat

VARIABLES
  count, concurrency,   \* the arguments of execute_batch
  pc,                   \* where the caller is
  slot,                 \* its loop variable: the slot it spawns or joins
  ready, started, cancelled,  \* StartState; started_at is a time or NotStarted
  wpc,                  \* per slot: where its worker is
  cursor,               \* per slot: the next index
  mine,                 \* per slot: WorkerResults.results
  panicked,             \* per slot: WorkerResults.first_panic
  duration,             \* per slot: WorkerResults.duration
  merged, firstPanic, total,  \* the caller's accumulators
  result,               \* what the call returned
  ran, runs, now        \* outcome and number of runs per index; the clock

gateVars == <<ready, started, cancelled>>
workerVars == <<cursor, mine, panicked, duration, ran, runs, now>>
callerVars == <<slot, merged, firstPanic, total, result>>
vars == <<count, concurrency, pc, gateVars, wpc, workerVars, callerVars>>

Slots == 0..(MaxConcurrency - 1)
Indexes == 0..(MaxCount - 1)
None == -1
Pending == [kind |-> "pending"]

Least(a, b) == IF a < b THEN a ELSE b
WorkerCount == Least(count, concurrency)

\* worker_range: the half-open range of a slot.
RangeStart(n, workers, s) == s * (n \div workers) + Least(s, n % workers)

RangeEnd(n, workers, s) ==
  RangeStart(n, workers, s) + (n \div workers) + (IF s < n % workers THEN 1 ELSE 0)

\* first_panic.map_or(index, |prior| prior.min(index))
LowerPanic(prior, i) == IF prior = None THEN i ELSE Least(prior, i)

Init ==
  /\ count \in 0..MaxCount /\ concurrency \in 0..MaxConcurrency
  /\ pc = "begin" /\ slot = 0
  /\ ready = 0 /\ started = None /\ cancelled = FALSE
  /\ wpc = [s \in Slots |-> "unborn"]
  /\ cursor = [s \in Slots |-> 0]
  /\ mine = [s \in Slots |-> <<>>]
  /\ panicked = [s \in Slots |-> None]
  /\ duration = [s \in Slots |-> 0]
  /\ merged = <<>> /\ firstPanic = None /\ total = 0
  /\ result = Pending
  /\ ran = [i \in Indexes |-> "no"]
  /\ runs = [i \in Indexes |-> 0]
  /\ now = 0

-----------------------------------------------------------------------------
(* The start gate.  A thread blocked on the condition variable is at       *)
(* "blocked"; a notification sends it back to test its condition.          *)

Woken(f) == [s \in Slots |-> IF f[s] = "blocked" THEN "woken" ELSE f[s]]
WokenPc == IF pc = "blocked" THEN "waitReady" ELSE pc

\* A worker that finds the gate open, cancelled or shut.
AtGate == IF started # None THEN "run" ELSE IF cancelled THEN "returned" ELSE "blocked"

\* Seeded fault: notify_one instead of notify_all, so a worker may be woken
\* in place of the caller.
WReadyNotifyOne(s) ==
  /\ wpc[s] = "enter"
  /\ ready' = ready + 1
  /\ \/ pc' = WokenPc /\ wpc' = [wpc EXCEPT ![s] = AtGate]
     \/ \E v \in Slots : /\ wpc[v] = "blocked"
                         /\ wpc' = [wpc EXCEPT ![v] = "woken", ![s] = AtGate]
                         /\ UNCHANGED pc
  /\ UNCHANGED <<count, concurrency, started, cancelled, workerVars, callerVars>>

\* worker_ready_and_wait, up to its first test of the gate.
WReady(s) ==
  /\ wpc[s] = "enter"
  /\ ready' = ready + 1
  /\ pc' = WokenPc
  /\ wpc' = [Woken(wpc) EXCEPT ![s] = AtGate]
  /\ UNCHANGED <<count, concurrency, started, cancelled, workerVars, callerVars>>

\* The wait returned: test again.
WWake(s) ==
  /\ wpc[s] = "woken"
  /\ wpc' = [wpc EXCEPT ![s] = AtGate]
  /\ UNCHANGED <<count, concurrency, pc, gateVars, workerVars, callerVars>>

\* Condition variables wake without a notification too.
SpuriousWakeup(s) ==
  /\ wpc[s] = "blocked"
  /\ wpc' = [wpc EXCEPT ![s] = "woken"]
  /\ UNCHANGED <<count, concurrency, pc, gateVars, workerVars, callerVars>>

SpuriousCallerWakeup ==
  /\ pc = "blocked"
  /\ pc' = "waitReady"
  /\ UNCHANGED <<count, concurrency, wpc, gateVars, workerVars, callerVars>>

-----------------------------------------------------------------------------
(* The worker's loop over its range.                                       *)

InvocationEnds(s, o) ==
  /\ ran' = [ran EXCEPT ![cursor[s]] = o]
  /\ runs' = [runs EXCEPT ![cursor[s]] = @ + 1]
  /\ cursor' = [cursor EXCEPT ![s] = @ + 1]
  /\ now' = now + 1

WInvokeOk(s) ==
  /\ wpc[s] = "run" /\ cursor[s] < RangeEnd(count, WorkerCount, s)
  /\ InvocationEnds(s, "ok")
  /\ mine' = [mine EXCEPT ![s] = Append(@, cursor[s])]
  /\ UNCHANGED <<count, concurrency, pc, gateVars, wpc, panicked, duration,
                 callerVars>>

\* catch_unwind: remember the lowest index and go on with the range.
WInvokePanics(s) ==
  /\ wpc[s] = "run" /\ cursor[s] < RangeEnd(count, WorkerCount, s)
  /\ InvocationEnds(s, "panic")
  /\ panicked' = [panicked EXCEPT ![s] = LowerPanic(@, cursor[s])]
  /\ UNCHANGED <<count, concurrency, pc, gateVars, wpc, mine, duration,
                 callerVars>>

WReturn(s) ==
  /\ wpc[s] = "run" /\ cursor[s] >= RangeEnd(count, WorkerCount, s)
  /\ duration' = [duration EXCEPT ![s] = now - started]
  /\ wpc' = [wpc EXCEPT ![s] = "returned"]
  /\ UNCHANGED <<count, concurrency, pc, gateVars, cursor, mine, panicked,
                 ran, runs, now, callerVars>>

WorkerStep(s) ==
  WReady(s) \/ WWake(s) \/ WInvokeOk(s) \/ WInvokePanics(s) \/ WReturn(s)

-----------------------------------------------------------------------------
(* The caller.                                                             *)

Return(r) == result' = r /\ pc' = "done"

\* The checks before any thread exists.
CBegin ==
  /\ pc = "begin"
  /\ IF count = 0 THEN Return([kind |-> "ok", results |-> <<>>])
     ELSE IF concurrency = 0 THEN Return([kind |-> "zeroConcurrency"])
     ELSE pc' = "spawn" /\ UNCHANGED result
  /\ UNCHANGED <<count, concurrency, gateVars, wpc, workerVars, slot, merged,
                 firstPanic, total>>

CSpawn ==
  /\ pc = "spawn" /\ slot < WorkerCount
  /\ wpc' = [wpc EXCEPT ![slot] = "enter"]
  /\ cursor' = [cursor EXCEPT ![slot] = RangeStart(count, WorkerCount, slot)]
  /\ slot' = slot + 1
  /\ UNCHANGED <<count, concurrency, pc, gateVars, mine, panicked, duration,
                 ran, runs, now, merged, firstPanic, total, result>>

\* spawn_scoped fails: cancel the gate.
CSpawnFails ==
  /\ pc = "spawn" /\ slot < WorkerCount
  /\ cancelled' = TRUE
  /\ wpc' = Woken(wpc)
  /\ pc' = "joinCancelled"
  /\ UNCHANGED <<count, concurrency, ready, started, workerVars, callerVars>>

CJoinCancelled ==
  /\ pc = "joinCancelled"
  /\ \A s \in Slots : s < slot => wpc[s] = "returned"
  /\ Return([kind |-> "spawnFailed"])
  /\ UNCHANGED <<count, concurrency, gateVars, wpc, workerVars, slot, merged,
                 firstPanic, total>>

CSpawned ==
  /\ pc = "spawn" /\ slot = WorkerCount
  /\ pc' = "waitReady"
  /\ UNCHANGED <<count, concurrency, gateVars, wpc, workerVars, callerVars>>

\* Seeded fault: the caller does not wait for the last worker.
CWaitOneShort ==
  /\ pc = "waitReady"
  /\ pc' = IF ready < WorkerCount - 1 THEN "blocked" ELSE "release"
  /\ UNCHANGED <<count, concurrency, gateVars, wpc, workerVars, callerVars>>

\* wait_until_ready, then release in a second critical section.
CWaitReady ==
  /\ pc = "waitReady"
  /\ pc' = IF ready < WorkerCount THEN "blocked" ELSE "release"
  /\ UNCHANGED <<count, concurrency, gateVars, wpc, workerVars, callerVars>>

CRelease ==
  /\ pc = "release"
  /\ started' = now
  /\ wpc' = Woken(wpc)
  /\ slot' = 0
  /\ pc' = "join"
  /\ UNCHANGED <<count, concurrency, ready, cancelled, workerVars, merged,
                 firstPanic, total, result>>

\* Join the next handle and take over its results.
CJoin ==
  /\ pc = "join" /\ slot < WorkerCount /\ wpc[slot] = "returned"
  /\ total' = IF duration[slot] > total THEN duration[slot] ELSE total
  /\ merged' = merged \o mine[slot]
  /\ firstPanic' = IF panicked[slot] = None THEN firstPanic
                   ELSE LowerPanic(firstPanic, panicked[slot])
  /\ slot' = slot + 1
  /\ UNCHANGED <<count, concurrency, pc, gateVars, wpc, workerVars, result>>

\* sort_unstable_by_key: the k-th smallest entry at place k.
Sorted(s) ==
  LET below(x) == Cardinality({i \in 1..Len(s) : s[i] < x})
      upTo(x) == Cardinality({i \in 1..Len(s) : s[i] <= x})
  IN  [k \in 1..Len(s) |->
         CHOOSE x \in {s[i] : i \in 1..Len(s)} : below(x) < k /\ k <= upTo(x)]

\* A panic outranks the results; a short batch is an error.
CReturn ==
  /\ pc = "join" /\ slot = WorkerCount
  /\ Return(IF firstPanic # None THEN [kind |-> "panicked", index |-> firstPanic]
            ELSE IF Len(merged) # count THEN [kind |-> "incomplete"]
            ELSE [kind |-> "ok", results |-> Sorted(merged)])
  /\ UNCHANGED <<count, concurrency, gateVars, wpc, workerVars, slot, merged,
                 firstPanic, total>>

CallerStep ==
  \/ CBegin \/ CSpawn \/ CSpawnFails \/ CJoinCancelled \/ CSpawned
  \/ CWaitReady \/ CRelease \/ CJoin \/ CReturn

Finished == pc = "done" /\ UNCHANGED vars

Next ==
  \/ CallerStep \/ SpuriousCallerWakeup \/ Finished
  \/ \E s \in Slots : WorkerStep(s) \/ SpuriousWakeup(s)

\* The operating system runs every thread, and every invocation ends (the
\* callers' HTTP requests have timeouts).
Fairness == WF_vars(CallerStep) /\ \A s \in Slots : WF_vars(WorkerStep(s))

Spec == Init /\ [][Next]_vars
FairSpec == Spec /\ Fairness

-----------------------------------------------------------------------------
(* Properties.                                                             *)

\* "Execute exactly count indexed operations": none twice, and once the batch
\* has run each one once, whatever workers panicked on the way.  "The interval
\* begins immediately before all workers are released" and "ends at the last
\* workload invocation": nothing runs before every worker of the batch stands
\* at the gate, so no thread creation is measured, and the duration covers the
\* last one to end, in whichever slot, and nothing after it.
MeasuredBatch ==
  /\ \A i \in Indexes : runs[i] <= 1
  /\ result.kind \in {"ok", "panicked"} =>
       \A i \in Indexes : runs[i] = IF i < count THEN 1 ELSE 0
  /\ (\E i \in Indexes : runs[i] > 0) => ready = WorkerCount /\ started # None
  /\ result.kind = "ok" /\ count > 0 => total = now - started

\* The executor implements the abstract batch.
Abstract == INSTANCE Batch WITH MaxSize <- MaxCount, size <- count
ImplementsBatch == Abstract!BSpec
=============================================================================
