---------------------------- MODULE ProcessTrend ----------------------------
(***************************************************************************)
(* VRAM-growth detection across collection cycles: Tracker::observe of     *)
(* src/analysis/trend.rs, as collect_cycle (src/lib.rs) drives it.         *)
(*                                                                         *)
(* A process is its tracker key, the pair of a GPU UUID and a PID.  Time   *)
(* is the wall clock the reports carry, in ticks of 500 ms: the smallest   *)
(* interval --watch admits.  A cycle that fails leaves the tracker as it   *)
(* is, so it is no step here.                                              *)
(***************************************************************************)
EXTENDS Integers, Sequences, FiniteSets

CONSTANTS Keys,       \* processes that may hold memory on a GPU
          MaxMemory,  \* bound on the memory of a process (model bound)
          Threshold,  \* growth_threshold
          Steps,      \* clock steps between cycles, negative when it is set back
          MaxCycles,  \* bound on the samples of a process (model bound)
          MaxTime     \* bound on the clock (model bound)

\* What the constants are; the modules that give them values assume it.
TrendAssumption ==
  /\ MaxMemory \in Nat /\ Threshold \in Nat \ {0} /\ MaxCycles \in Nat
  /\ MaxTime \in Nat /\ Steps \subseteq Int

VARIABLES
  now,        \* collected_at of the next report
  running,    \* memory of every process that runs
  processes,  \* Tracker.processes
  findings,   \* keys the last report has a vram-growth finding for
  log         \* per key: its samples since a report last missed it

vars == <<now, running, processes, findings, log>>

Second == 2
Memory == 0..MaxMemory
Allocations == UNION {[S -> Memory] : S \in SUBSET Keys}
Nothing == [k \in {} |-> 0]

Init ==
  /\ now = 0
  /\ running \in Allocations
  /\ processes = Nothing
  /\ findings = {}
  /\ log = [k \in Keys |-> <<>>]

\* Seeded fault: samples less than a second apart are compared.
GrowsAtOnce(k, memory) ==
  /\ k \in DOMAIN processes
  /\ memory - processes[k].memory >= Threshold
\* A key has grown since its previous sample.
Grows(k, memory) ==
  /\ k \in DOMAIN processes
  /\ now - processes[k].at >= Second
  /\ memory - processes[k].memory >= Threshold

\* Seeded fault: nothing is retained away.
TrackedForEver(sample) ==
  [k \in DOMAIN processes \cup DOMAIN sample |->
     IF k \in DOMAIN sample THEN [memory |-> sample[k], at |-> now]
                            ELSE processes[k]]
\* Insert the samples of this report and retain its keys only.
Tracked(sample) == [k \in DOMAIN sample |-> [memory |-> sample[k], at |-> now]]

\* observe: the findings compare with the samples of the previous report.
Observe(sample) ==
  /\ findings' = {k \in DOMAIN sample : Grows(k, sample[k])}
  /\ processes' = Tracked(sample)
  /\ log' = [k \in Keys |->
               IF k \in DOMAIN sample
               THEN Append(log[k], [memory |-> sample[k], at |-> now])
               ELSE <<>>]

\* A cycle whose process query worked, or failed and left the GPUs without
\* processes.  Before the next one the clock steps, and processes start,
\* exit, allocate and free: a PID may come back as another process.
Cycle ==
  /\ \A k \in Keys : Len(log[k]) < MaxCycles
  /\ (Observe(running) \/ Observe(Nothing))
  /\ \E d \in Steps : now + d \in 0..MaxTime /\ now' = now + d
  /\ running' \in Allocations

Next == Cycle
Spec == Init /\ [][Next]_vars

-----------------------------------------------------------------------------
(* Properties.                                                             *)

\* Types.
Samples == [memory : Memory, at : Int]
TypeOK ==
  /\ now \in Int /\ running \in Allocations
  /\ DOMAIN processes \subseteq Keys
  /\ \A k \in DOMAIN processes : processes[k] \in Samples
  /\ findings \subseteq Keys
  /\ log \in [Keys -> Seq(Samples)]

\* "A missing process is immediately removed from the tracker": the tracker
\* holds the newest sample of each process of the last report, nothing else;
\* a PID that comes back later has no sample to grow from.
BaselineIsLastSample ==
  /\ DOMAIN processes = {k \in Keys : log[k] # <<>>}
  /\ \A k \in DOMAIN processes : processes[k] = log[k][Len(log[k])]

\* A process is reported exactly when the two newest of successive reports
\* that show it lie a second or more of wall clock apart and differ by the
\* threshold: never across an absence, a short interval or a clock that was
\* set back.  (The documentation promises more: growth "over samples
\* separated by one second", which shorter intervals never compare.)
FindingsExact ==
  \A k \in Keys :
    k \in findings <=>
      /\ Len(log[k]) >= 2
      /\ LET old == log[k][Len(log[k]) - 1]
             new == log[k][Len(log[k])]
         IN  new.at - old.at >= Second /\ new.memory - old.memory >= Threshold
=============================================================================
