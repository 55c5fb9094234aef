---------------------------- MODULE MonitorProofs ----------------------------
(***************************************************************************)
(* Proofs about Monitor, for every set of arguments, reports and errors,   *)
(* every interval and any number of cycles and restarts: the sinks agree,  *)
(* the exit code follows the policy, a failure is told and backed off, and *)
(* a monitor ends for the reasons it may end for only.  Then about the     *)
(* settings that a monitor, and any other command, starts with: they are   *)
(* what the layers say, and a refusal has a cause.                         *)
(***************************************************************************)
EXTENDS Monitor, SequenceTheorems, FiniteSetTheorems, TLAPS

\* The reports a cycle may publish with the arguments of this process.
Finalized == {Filtered(r) : r \in {q \in Reports : Matched(q)}}
Sinking == {"publish", "append", "print", "gate"}

TypeOK ==
  /\ args \in Arguments
  /\ pc \in Sinking \cup {"loop", "collect", "delay", "wait", "sleep", "done"}
  /\ running \in BOOLEAN /\ torn \in BOOLEAN
  /\ {report, published, printed} \subseteq Finalized \cup {None}
  /\ lines \in Seq(Finalized \cup {Garbage})
  /\ {streak, repeated, wait, late, cycles, starts} \subseteq Nat
  /\ pc = "sleep" => wait > 0
  /\ {lastError, told} \subseteq Errors \cup {None}
  /\ exit \in {None, 0, 1, 2, 137}

\* A report is at work from the collection to the gate, and ends the streak.
CycleInv ==
  /\ pc \in {"loop", "collect"} => report = None
  /\ pc \in Sinking => report # None /\ streak = 0
  /\ pc = "delay" /\ report # None => streak = 0
  /\ pc # "done" <=> exit = None

\* stderr knows the error the streak goes on with.
ToldInv == told = lastError /\ (streak > 0 <=> told # None)

\* Each sink that is on gets the report before run moves on to the next.
SinkInv ==
  /\ pc \in {"append", "print", "gate"} /\ args.listen => published = report
  /\ pc = "append" => args.history
  /\ pc \in {"print", "gate"} /\ args.history => Newest \in {report, Garbage}
  /\ pc = "gate" /\ ~args.quiet => printed = report
  /\ args.quiet => printed = None

\* What was printed in an earlier cycle passed its gate.
PassedInv == pc \notin {"gate", "done"} /\ printed # None => ~Unhealthy(printed)

IInv == TypeOK /\ CycleInv /\ ToldInv /\ SinkInv /\ PassedInv /\ ExitFollowsPolicy

-----------------------------------------------------------------------------
(* Selections and delays.                                                  *)

\* What filter_gpus leaves of a report that has every selected GPU.
LEMMA FilteredFacts ==
  ASSUME args \in Arguments, NEW x \in Finalized
  PROVE  /\ x \notin {None, Garbage}
         /\ args.gpus \subseteq x.gpus
         /\ args.gpus # {} => /\ x.gpus = args.gpus
                              /\ \A f \in x.findings : f[1] \in args.gpus \cup {Host}
         /\ \A f \in x.findings : f[2] \in Severities
<1>1. PICK r \in Reports : Matched(r) /\ x = Filtered(r) BY DEF Finalized
<1>2. /\ r = [gpus |-> r.gpus, findings |-> r.findings, sourceFailed |-> r.sourceFailed]
      /\ \A f \in r.findings : f[1] \in r.gpus \cup {Host} /\ f[2] \in Severities
      /\ \A g \in SUBSET r.gpus, s \in SUBSET r.findings :
           [r EXCEPT !.gpus = g, !.findings = s] \notin {None, Garbage}
  BY MonitorAssumption DEF ReportsAssumption
<1>3. CASE args.gpus = {}
  <2>1. x = r BY <1>1, <1>3 DEF Filtered
  <2>2. r = [r EXCEPT !.gpus = r.gpus, !.findings = r.findings] BY <1>2
  <2> QED BY <1>2, <1>3, <2>1, <2>2
<1>4. CASE args.gpus # {}
  <2> DEFINE g == r.gpus \cap args.gpus
             s == {f \in r.findings : f[1] \in args.gpus \cup {Host}}
  <2>1. x = [r EXCEPT !.gpus = g, !.findings = s]
    BY <1>1, <1>4 DEF Filtered
  <2>2. x.gpus = g /\ x.findings = s BY <1>2, <2>1
  <2>3. g \in SUBSET r.gpus /\ s \in SUBSET r.findings /\ g = args.gpus
    BY <1>1 DEF Matched
  <2>4. x \notin {None, Garbage} BY <1>2, <2>1, <2>3
  <2> QED BY <1>2, <2>2, <2>3, <2>4
<1> QED BY <1>3, <1>4

\* The arguments, and with them the selection and the policy, never change.
LEMMA ArgumentsStay ==
  ASSUME [Next]_vars
  PROVE  /\ args' = args /\ Finalized' = Finalized
         /\ \A r : Unhealthy(r)' = Unhealthy(r)
<1>1. args' = args
  BY DEF Next, Step, LoopStops, LoopCollects, Collect, CollectFails, SnapshotFails, Publish,
     AppendHistory, AppendFails, PrintReport, PrintFails, Gate, StartWait, WaitSlice, Sleep, WaitEnds,
     Signal, Crash, Restart, vars
<1> QED BY <1>1 DEF Finalized, Filtered, Matched, Unhealthy, Crossed

\* The delay is the interval, doubled at most five times and held by the cap.
LEMMA DelayFacts ==
  ASSUME NEW n \in Nat
  PROVE  /\ Delay(n) \in Nat
         /\ n <= 1 => Delay(n) = Slices
         /\ Delay(n) \in Slices..Greatest(Slices, Cap)
         /\ n > 0 => Delay(n - 1) <= Delay(n)
<1> DEFINE top == Greatest(Slices, Cap)
<1>1. /\ Slices \in Nat /\ Slices > 0 /\ Cap \in Nat /\ top \in Nat /\ Slices <= top
  BY MonitorAssumption DEF Greatest
<1> DEFINE d(k) == Slices * 2^k
<1>2. /\ d(0) = Slices /\ d(1) = Slices * 2 /\ d(2) = Slices * 4
      /\ d(3) = Slices * 8 /\ d(4) = Slices * 16 /\ d(5) = Slices * 32
  <2>1. 2^0 = 1 /\ 2^1 = 2 /\ 2^2 = 4 /\ 2^3 = 8 /\ 2^4 = 16 /\ 2^5 = 32 OBVIOUS
  <2> QED BY <1>1, <2>1
<1> HIDE DEF d
<1>3. \A k \in 0..5 : /\ d(k) \in Nat /\ Slices <= d(k)
                      /\ k > 0 => d(k - 1) <= d(k)
  <2> SUFFICES ASSUME NEW k \in 0..5
      PROVE d(k) \in Nat /\ Slices <= d(k) /\ (k > 0 => d(k - 1) <= d(k))
    OBVIOUS
  <2>1. CASE k = 0 BY <1>1, <1>2, <2>1
  <2>2. CASE k = 1
    <3>1. k - 1 = 0 BY <2>2
    <3> QED BY <1>1, <1>2, <2>2, <3>1
  <2>3. CASE k = 2
    <3>1. k - 1 = 1 BY <2>3
    <3> QED BY <1>1, <1>2, <2>3, <3>1
  <2>4. CASE k = 3
    <3>1. k - 1 = 2 BY <2>4
    <3> QED BY <1>1, <1>2, <2>4, <3>1
  <2>5. CASE k = 4
    <3>1. k - 1 = 3 BY <2>5
    <3> QED BY <1>1, <1>2, <2>5, <3>1
  <2>6. CASE k = 5
    <3>1. k - 1 = 4 BY <2>6
    <3> QED BY <1>1, <1>2, <2>6, <3>1
  <2> QED BY <2>1, <2>2, <2>3, <2>4, <2>5, <2>6
<1> DEFINE Shift(m) == Least(m - 1, 5)
<1> HIDE DEF top
<1>4. \A m \in Nat : m > 1 => /\ Shift(m) \in 0..5 /\ Shift(m) > 0
                              /\ Delay(m) = Least(d(Shift(m)), top)
  BY DEF Delay, Least, top, d
<1>5. \A m \in Nat : m > 2 => Shift(m - 1) = Shift(m) \/ Shift(m - 1) = Shift(m) - 1
  BY DEF Least
<1> HIDE DEF Shift
<1>6. \A m \in Nat : Delay(m) \in Nat /\ Slices <= Delay(m) /\ Delay(m) <= top
  <2> SUFFICES ASSUME NEW m \in Nat
      PROVE Delay(m) \in Nat /\ Slices <= Delay(m) /\ Delay(m) <= top
    OBVIOUS
  <2>1. CASE m <= 1 BY <1>1, <2>1 DEF Delay
  <2>2. CASE m > 1 BY <1>1, <1>3, <1>4, <2>2 DEF Least
  <2> QED BY <2>1, <2>2
<1>7. n <= 1 => Delay(n) = Slices BY DEF Delay
<1>8. ASSUME n > 0 PROVE Delay(n - 1) <= Delay(n)
  <2>1. CASE n <= 2 BY <1>1, <1>6, <1>8, <2>1 DEF Delay
  <2>2. CASE n > 2
    <3>1. /\ Delay(n) = Least(d(Shift(n)), top)
          /\ Shift(n) \in 0..5 /\ Shift(n) > 0
      BY <1>4, <2>2
    <3>2. /\ Delay(n - 1) = Least(d(Shift(n - 1)), top)
          /\ Shift(n - 1) \in 0..5
      BY <1>4, <2>2
    <3>3. d(Shift(n - 1)) <= d(Shift(n))
      BY <1>3, <1>5, <2>2, <3>1
    <3> QED BY <1>1, <1>3, <3>1, <3>2, <3>3 DEF Least
  <2> QED BY <2>1, <2>2
<1> QED BY <1>1, <1>6, <1>7, <1>8 DEF top

-----------------------------------------------------------------------------
(* The invariant.                                                          *)

\* A process starts with nothing collected, told, published or printed.
LEMMA InitInv == Init => IInv
<1> SUFFICES ASSUME Init PROVE IInv OBVIOUS
<1>1. lines \in Seq(Finalized \cup {Garbage}) BY DEF Init
<1>2. None \notin {0, 1, 2, 137} BY MonitorAssumption
<1>3. TypeOK
  <2>1. {streak, repeated, wait, late, cycles, starts} \subseteq Nat BY DEF Init
  <2> QED BY <1>1, <2>1 DEF Init, TypeOK
<1>4. CycleInv /\ ToldInv /\ SinkInv /\ PassedInv
  BY DEF Init, CycleInv, ToldInv, SinkInv, PassedInv, Sinking
<1>5. ExitFollowsPolicy BY <1>2 DEF Init, ExitFollowsPolicy
<1> QED BY <1>3, <1>4, <1>5 DEF IInv

\* Every action keeps the types; a report at work is always a finalized one.
LEMMA TypeStep ==
  ASSUME TypeOK, CycleInv, [Next]_vars
  PROVE  TypeOK'
<1>0. args' = args /\ Finalized' = Finalized BY ArgumentsStay
<1> USE DEF TypeOK, Sinking, Exit, errorVars, waitVars, sinkVars
<1> HIDE DEF Finalized
<1>1. CASE LoopStops \/ LoopCollects BY <1>0, <1>1 DEF LoopStops, LoopCollects
<1>2. ASSUME NEW r \in Reports, Collect(r) PROVE TypeOK'
  <2>1. Matched(r) => Filtered(r) \in Finalized BY DEF Finalized
  <2> QED BY <1>0, <1>2, <2>1 DEF Collect
<1>3. ASSUME NEW error \in Errors, CollectFails(error) PROVE TypeOK'
  BY <1>0, <1>3 DEF CollectFails
<1>4. CASE SnapshotFails \/ Publish BY <1>0, <1>4 DEF SnapshotFails, Publish
<1>5. CASE AppendHistory
  <2>1. report \in Finalized BY <1>5 DEF AppendHistory, CycleInv
  <2>2. lines' = Append(lines, IF torn THEN Garbage ELSE report)
    BY <1>5 DEF AppendHistory, NewLines
  <2>3. lines' \in Seq(Finalized \cup {Garbage}) BY <2>1, <2>2
  <2> QED BY <1>0, <1>5, <2>3 DEF AppendHistory
<1>6. CASE AppendFails BY <1>0, <1>6 DEF AppendFails
<1>7. CASE PrintReport \/ PrintFails \/ Gate BY <1>0, <1>7 DEF PrintReport, PrintFails, Gate
<1>8. CASE StartWait BY <1>0, <1>8, DelayFacts DEF StartWait
<1>9. CASE WaitSlice \/ Sleep \/ WaitEnds
  <2>1. Sleep => wait - 1 \in Nat /\ late + 1 \in Nat BY DEF Sleep
  <2> QED BY <1>0, <1>9, <2>1 DEF WaitSlice, Sleep, WaitEnds
<1>10. CASE Signal \/ Restart
  <2>1. Restart => {streak, repeated, wait, late, cycles, starts}' \subseteq Nat BY DEF Restart
  <2>2. CASE Restart BY <1>0, <2>1, <2>2 DEF Restart
  <2>3. CASE Signal BY <1>0, <2>3 DEF Signal
  <2> QED BY <1>10, <2>2, <2>3
<1>11. CASE Crash BY <1>0, <1>11 DEF Crash
<1>12. CASE UNCHANGED vars BY <1>0, <1>12 DEF vars
<1> QED BY <1>1, <1>2, <1>3, <1>4, <1>5, <1>6, <1>7, <1>8, <1>9, <1>10, <1>11, <1>12
        DEF Next, Step

\* A report is there from its collection to the end of the wait after it.
LEMMA CycleStep ==
  ASSUME TypeOK, CycleInv, [Next]_vars
  PROVE  CycleInv'
<1>0. /\ None \notin {0, 1, 2, 137}
      /\ args \in Arguments /\ exit \in {None, 0, 1, 2, 137}
  BY MonitorAssumption DEF TypeOK
<1> USE DEF CycleInv, Sinking, Exit, errorVars, waitVars, sinkVars
<1>1. CASE LoopStops \/ LoopCollects BY <1>0, <1>1 DEF LoopStops, LoopCollects
<1>2. ASSUME NEW r \in Reports, Collect(r) PROVE CycleInv'
  <2>1. Matched(r) => Filtered(r) # None BY <1>0, FilteredFacts DEF Finalized
  <2> QED BY <1>0, <1>2, <2>1 DEF Collect
<1>3. ASSUME NEW error \in Errors, CollectFails(error) PROVE CycleInv'
  BY <1>0, <1>3 DEF CollectFails
<1>4. CASE SnapshotFails \/ Publish BY <1>0, <1>4 DEF SnapshotFails, Publish
<1>5. CASE AppendHistory \/ AppendFails BY <1>0, <1>5 DEF AppendHistory, AppendFails
<1>6. CASE PrintReport \/ PrintFails \/ Gate BY <1>0, <1>6 DEF PrintReport, PrintFails, Gate
<1>7. CASE StartWait \/ WaitSlice \/ Sleep \/ WaitEnds BY <1>0, <1>7 DEF StartWait, WaitSlice, Sleep, WaitEnds
<1>8. CASE Signal \/ Crash \/ Restart BY <1>0, <1>8 DEF Signal, Crash, Restart
<1>9. CASE UNCHANGED vars BY <1>9 DEF vars
<1> QED BY <1>1, <1>2, <1>3, <1>4, <1>5, <1>6, <1>7, <1>8, <1>9 DEF Next, Step

\* Whether it says so again or not, stderr has named the error of the streak.
LEMMA ToldStep ==
  ASSUME TypeOK, ToldInv, [Next]_vars
  PROVE  ToldInv'
<1>0. streak \in Nat /\ None \notin Errors BY MonitorAssumption DEF TypeOK
<1>1. ASSUME NEW r \in Reports, Collect(r) PROVE ToldInv'
  BY <1>1 DEF Collect, ToldInv
<1>2. ASSUME NEW error \in Errors, CollectFails(error) PROVE ToldInv'
  <2>1. lastError' = error /\ told' = error /\ streak' = streak + 1
    BY <1>2 DEF CollectFails, ToldInv
  <2> QED BY <1>0, <2>1 DEF ToldInv
<1>3. CASE Restart BY <1>3 DEF Restart, ToldInv
<1>4. CASE UNCHANGED errorVars BY <1>4 DEF errorVars, ToldInv
<1>5. \/ UNCHANGED errorVars \/ Restart
      \/ \E r \in Reports : Collect(r)
      \/ \E error \in Errors : CollectFails(error)
  BY DEF Next, Step, LoopStops, LoopCollects, SnapshotFails, Publish, AppendHistory, AppendFails,
     PrintReport, PrintFails, Gate, StartWait, WaitSlice, Sleep, WaitEnds, Signal, Crash, vars
<1> QED BY <1>1, <1>2, <1>3, <1>4, <1>5

\* The newest line after the append is the record or, after a torn one, garbage.
LEMMA AppendNewest ==
  ASSUME TypeOK, CycleInv, AppendHistory
  PROVE  Newest' \in {report, Garbage}
<1> DEFINE new == IF torn THEN Garbage ELSE report
<1>1. new \in Finalized \cup {Garbage} /\ lines \in Seq(Finalized \cup {Garbage})
  BY DEF AppendHistory, TypeOK, CycleInv, Sinking
<1>2. lines' = Append(lines, new) BY DEF AppendHistory, NewLines
<1>3. /\ lines' \in Seq(Finalized \cup {Garbage}) /\ Len(lines') = Len(lines) + 1
      /\ lines'[Len(lines) + 1] = new /\ Len(lines) \in Nat
  BY <1>1, <1>2
<1>4. lines' # <<>> BY <1>3
<1> QED BY <1>3, <1>4 DEF Newest

\* The report reaches the exporter, then the history file, then stdout.
LEMMA SinkStep ==
  ASSUME TypeOK, CycleInv, SinkInv, [Next]_vars
  PROVE  SinkInv'
<1>0. args' = args BY ArgumentsStay
<1> USE DEF SinkInv, Sinking, Exit, errorVars, waitVars, sinkVars
<1>1. CASE Publish BY <1>0, <1>1 DEF Publish, Newest
<1>2. CASE AppendHistory BY <1>0, <1>2, AppendNewest DEF AppendHistory
<1>3. CASE PrintReport BY <1>0, <1>3 DEF PrintReport, Newest
<1>4. ASSUME NEW r \in Reports, Collect(r) PROVE SinkInv'
  BY <1>0, <1>4 DEF Collect
<1>5. ASSUME NEW error \in Errors, CollectFails(error) PROVE SinkInv'
  BY <1>0, <1>5 DEF CollectFails
<1>6. CASE Restart BY <1>0, <1>6 DEF Restart
<1>7. CASE \/ LoopStops \/ LoopCollects \/ SnapshotFails \/ AppendFails \/ PrintFails \/ Gate
           \/ StartWait \/ WaitSlice \/ Sleep \/ WaitEnds \/ Crash
  <2>1. pc' \notin Sinking /\ printed' = printed
    BY <1>7 DEF LoopStops, LoopCollects, SnapshotFails, AppendFails, PrintFails, Gate,
       StartWait, WaitSlice, Sleep, WaitEnds, Crash
  <2> QED BY <1>0, <2>1
<1>8. CASE Signal \/ UNCHANGED vars BY <1>0, <1>8 DEF Signal, vars, Newest
<1> QED BY <1>1, <1>2, <1>3, <1>4, <1>5, <1>6, <1>7, <1>8 DEF Next, Step

\* A cycle that goes on to the next one passed its gate.
LEMMA PassedStep ==
  ASSUME TypeOK, CycleInv, SinkInv, PassedInv, [Next]_vars
  PROVE  PassedInv'
<1>0. args' = args /\ \A r : Unhealthy(r)' = Unhealthy(r) BY ArgumentsStay
<1> USE DEF PassedInv, Exit, errorVars, waitVars, sinkVars
<1>1. CASE Gate
  <2>1. /\ pc = "gate" /\ printed' = printed /\ (pc' = "done" \/ ~Unhealthy(report))
    BY <1>1 DEF Gate
  <2>2. printed # None => printed = report BY <2>1 DEF SinkInv
  <2> QED BY <1>0, <2>1, <2>2
<1>2. CASE PrintReport BY <1>2 DEF PrintReport
<1>3. CASE Restart BY <1>3 DEF Restart
<1>4. ASSUME printed' = printed, pc' \in {"gate", "done"} \/ pc \notin {"gate", "done"}
      PROVE  PassedInv'
  BY <1>0, <1>4
<1>5. ASSUME ~Gate, ~PrintReport, ~Restart
      PROVE  printed' = printed /\ (pc' \in {"gate", "done"} \/ pc \notin {"gate", "done"})
  BY <1>5 DEF Next, Step, LoopStops, LoopCollects, Collect, CollectFails, SnapshotFails, Publish,
     AppendHistory, AppendFails, PrintFails, StartWait, WaitSlice, Sleep, WaitEnds, Signal, Crash, vars
<1> QED BY <1>1, <1>2, <1>3, <1>4, <1>5

\* A report that passes the gate is as healthy as the policy asks.
LEMMA HealthyReport ==
  ASSUME args \in Arguments, NEW x \in Finalized, ~Unhealthy(x)
  PROVE  /\ args.failOn # "never" => \A f \in x.findings : f[2] # "critical"
         /\ args.failOn = "warning" => \A f \in x.findings : f[2] = "info"
         /\ ~args.interval => ~x.sourceFailed
<1>1. \A f \in x.findings : f[2] \in Severities BY FilteredFacts
<1> QED BY <1>1 DEF Unhealthy, Crossed, Severities

\* Only the gate ends with 2, and with 0 after a report of this cycle.
LEMMA ExitStep ==
  ASSUME IInv, [Next]_vars
  PROVE  ExitFollowsPolicy'
<1>0. /\ args' = args /\ args \in Arguments /\ \A r : Unhealthy(r)' = Unhealthy(r)
      /\ None \notin {0, 1, 2, 137} /\ (pc # "done" <=> exit = None)
  BY ArgumentsStay, MonitorAssumption DEF IInv, TypeOK, CycleInv
<1>1. CASE pc = "done"
  <2>1. CASE Restart BY <1>0, <2>1 DEF Restart, ExitFollowsPolicy
  <2>2. CASE UNCHANGED vars
    <3>1. UNCHANGED <<exit, running, report, published, printed, lines>>
      BY <2>2 DEF vars, sinkVars
    <3>2. ExitFollowsPolicy BY DEF IInv
    <3> QED BY <1>0, <3>1, <3>2 DEF ExitFollowsPolicy, Newest
  <2>3. Restart \/ UNCHANGED vars
    BY <1>1 DEF Next, Step, LoopStops, LoopCollects, Collect, CollectFails, SnapshotFails,
       Publish, AppendHistory, AppendFails, PrintReport, PrintFails, Gate, StartWait, WaitSlice, Sleep,
       WaitEnds, Signal, Crash
  <2> QED BY <2>1, <2>2, <2>3
<1>2. CASE Gate
  <2>1. /\ pc = "gate" /\ report \in Finalized /\ report # None
        /\ UNCHANGED <<report, published, printed, lines>>
        /\ IF Unhealthy(report) THEN exit' = 2
           ELSE IF args.interval THEN exit' = exit ELSE exit' = 0
    BY <1>2 DEF Gate, Exit, sinkVars, IInv, TypeOK, CycleInv, Sinking
  <2>2. /\ args.listen => published = report
        /\ args.history => Newest \in {report, Garbage}
        /\ ~args.quiet => printed = report
    BY <2>1 DEF IInv, SinkInv
  <2>3. Newest' = Newest BY <2>1 DEF Newest
  <2>4. exit' = 2 => Unhealthy(report)
    BY <1>0, <2>1
  <2>5. exit' = 0 => ~Unhealthy(report)
    BY <1>0, <2>1
  <2>6. exit' = 0 => /\ args.failOn # "never" => \A f \in report.findings : f[2] # "critical"
                     /\ args.failOn = "warning" => \A f \in report.findings : f[2] = "info"
                     /\ ~args.interval => ~report.sourceFailed
    BY <1>0, <2>1, <2>5, HealthyReport
  <2> QED BY <1>0, <2>1, <2>2, <2>3, <2>4, <2>6 DEF ExitFollowsPolicy
<1>3. CASE PrintFails
  <2>1. /\ pc = "print" /\ ~args.quiet /\ exit' \in {0, 1} /\ report \in Finalized
        /\ report # None /\ UNCHANGED <<report, printed>>
    BY <1>3 DEF PrintFails, Exit, sinkVars, IInv, TypeOK, CycleInv, Sinking
  <2>2. printed = report => ~Unhealthy(report)
    BY <2>1 DEF IInv, PassedInv
  <2>3. printed = report =>
          /\ args.failOn # "never" => \A f \in report.findings : f[2] # "critical"
          /\ args.failOn = "warning" => \A f \in report.findings : f[2] = "info"
          /\ ~args.interval => ~report.sourceFailed
    BY <1>0, <2>1, <2>2, HealthyReport
  <2> QED BY <1>0, <2>1, <2>3 DEF ExitFollowsPolicy
<1>4. CASE LoopStops
  <2>1. exit' = 0 /\ ~running' BY <1>4 DEF LoopStops, Exit
  <2> QED BY <2>1 DEF ExitFollowsPolicy
<1>5. CASE pc # "done" /\ ~Gate /\ ~PrintFails /\ ~LoopStops
  <2>1. exit' = exit \/ exit' \in {1, 137, None}
    BY <1>5 DEF Next, Step, LoopCollects, Collect, CollectFails, SnapshotFails, Publish,
       AppendHistory, AppendFails, PrintReport, StartWait, WaitSlice, Sleep, WaitEnds, Signal, Crash,
       Restart, Exit, vars
  <2>2. exit' # 0 /\ exit' # 2 BY <1>0, <1>5, <2>1
  <2> QED BY <2>2 DEF ExitFollowsPolicy
<1> QED BY <1>1, <1>2, <1>3, <1>4, <1>5

\* The invariant behind the four properties.
THEOREM MonitorInvariant == Spec => []IInv
<1>1. Init => IInv BY InitInv
<1>2. IInv /\ [Next]_vars => IInv'
  BY TypeStep, CycleStep, ToldStep, SinkStep, PassedStep, ExitStep DEF IInv
<1> QED BY <1>1, <1>2, PTL DEF Spec

-----------------------------------------------------------------------------
(* The properties.                                                         *)

\* At its gate a cycle's report is in every sink that is on, selected as
\* asked; and no sink ever holds a report that lacks a selected GPU.
THEOREM SinksAlwaysAgree == Spec => []SinksAgree
<1>1. ASSUME IInv PROVE SinksAgree
  <2>1. args \in Arguments BY <1>1 DEF IInv, TypeOK
  <2>2. ASSUME pc = "gate"
        PROVE  /\ args.listen => published = report
               /\ args.history => Newest \in {report, Garbage}
               /\ ~args.quiet => printed = report
               /\ args.gpus # {} =>
                    /\ report.gpus = args.gpus
                    /\ \A f \in report.findings : f[1] \in args.gpus \cup {Host}
    <3>1. report \in Finalized BY <1>1, <2>2 DEF IInv, TypeOK, CycleInv, Sinking
    <3> QED BY <1>1, <2>1, <2>2, <3>1, FilteredFacts DEF IInv, SinkInv
  <2>3. Range(lines) \subseteq Finalized \cup {Garbage}
    <3>1. lines \in Seq(Finalized \cup {Garbage}) BY <1>1 DEF IInv, TypeOK
    <3> QED BY <3>1 DEF Range
  <2>4. {published, printed} \subseteq Finalized \cup {None} BY <1>1 DEF IInv, TypeOK
  <2>5. \A r \in ({published, printed} \cup Range(lines)) \ {None, Garbage} :
          args.gpus \subseteq r.gpus
    <3>1. SUFFICES ASSUME NEW r \in ({published, printed} \cup Range(lines)) \ {None, Garbage}
                   PROVE  args.gpus \subseteq r.gpus
      OBVIOUS
    <3>2. r \in Finalized BY <2>3, <2>4
    <3> QED BY <2>1, <3>2, FilteredFacts
  <2> QED BY <2>2, <2>5 DEF SinksAgree
<1> QED BY <1>1, MonitorInvariant, PTL

\* The exit code says what the policy says, after the evidence is out.
THEOREM ExitAlwaysFollowsPolicy == Spec => []ExitFollowsPolicy
<1>1. IInv => ExitFollowsPolicy BY DEF IInv
<1> QED BY <1>1, MonitorInvariant, PTL

\* A failure is always told, and the delay between its repetitions is bounded
\* and never shrinks.
THEOREM FailureAlwaysTold == Spec => []FailureTold
<1>1. ASSUME IInv PROVE FailureTold
  <2>1. streak \in Nat BY <1>1 DEF IInv, TypeOK
  <2>2. pc = "delay" /\ report # None => streak = 0 BY <1>1 DEF IInv, CycleInv
  <2> QED BY <1>1, <2>1, <2>2, DelayFacts DEF FailureTold, IInv, ToldInv
<1> QED BY <1>1, MonitorInvariant, PTL

\* A monitor that no signal stops and nobody kills ends at a crossed threshold,
\* a stale selection or a failed sink, never for a failed collection.
THEOREM MonitorKeepsGoing == Spec => ContinuousKeepsGoing
<1>1. ASSUME [Next]_vars, pc # "done", pc' = "done", args.interval, running, exit' # 137
      PROVE  \/ (pc = "gate" /\ Crossed(report))
             \/ pc \in {"append", "print"}
             \/ (pc = "collect" /\ args.gpus # {} /\ streak' = 0)
  <2>1. CASE Gate BY <1>1, <2>1 DEF Gate, Unhealthy
  <2>2. ASSUME NEW r \in Reports, Collect(r)
        PROVE  pc = "collect" /\ args.gpus # {} /\ streak' = 0
    BY <1>1, <2>2 DEF Collect, Matched
  <2>3. ASSUME ~Gate, \A r \in Reports : ~Collect(r) PROVE pc \in {"append", "print"}
    BY <1>1, <2>3 DEF Next, Step, LoopStops, LoopCollects, CollectFails, SnapshotFails, Publish,
       AppendHistory, AppendFails, PrintReport, PrintFails, StartWait, WaitSlice, Sleep, WaitEnds,
       Signal, Crash, Restart, Exit, vars
  <2> QED BY <2>1, <2>2, <2>3
<1> QED BY <1>1, PTL DEF Spec, ContinuousKeepsGoing

-----------------------------------------------------------------------------
(* The settings a command starts with.                                     *)

CONSTANTS CliChoices, ProfileChoices, Requests, MaxGiven, BuiltIn, Clear
VARIABLES command, cli, env, document, damaged, given, phase, chosen, settings

Call == INSTANCE Settings

\* What was asked is typed, and nothing is selected before the document is read.
AskedInv ==
  /\ Call!CliTyped(cli) /\ Call!EnvTyped(env) /\ Call!DocumentTyped(document)
  /\ Call!ProfileTyped(chosen)
  /\ phase = "asked" => chosen = Call!Empty

\* The profile that was selected is a valid one.
LoadedInv ==
  phase \in {"loaded", "resolved", "started"} => Call!Dispatched /\ Call!ValidProfile(chosen)

\* What each step decides by, of the settings s.
Unused == Call!Clearable("probes") = None /\ (cli.probeToken # None \/ cli.insecureProbes # None)
Agreed(s) == Call!Conflict \notin {s.probeToken, s.apiToken}
Starts(s) == Call!ValidArgs(s) /\ Call!Sound(s.probeToken) /\ Call!Sound(s.apiToken)
Resolves(s) ==
  /\ Call!Sound(s.prompt) /\ s.workload # Clear /\ s.key # Call!Conflict
  /\ s.model # None /\ Call!Sound(s.key)

\* The settings are those of the layers, and none of the steps so far refused.
ResolvedInv ==
  phase \in {"resolved", "started"} =>
    /\ command \in Call!Monitors => settings = Call!MonitorSettings /\ Agreed(settings)
    /\ command \in Call!Actives => settings = Call!ActiveSettings /\ Resolves(settings)
StartedInv ==
  phase = "started" =>
    /\ command \in Call!Monitors => Starts(settings)
    /\ command \in Call!Actives => Call!Admissible(settings)

\* What was refused with a sound document was refused by one of them.
RefusedInv ==
  phase = "refused" /\ Call!Dispatched =>
    /\ Call!ValidProfile(chosen)
    /\ \/ /\ command \in Call!Monitors
          /\ Unused \/ ~Agreed(Call!MonitorSettings) \/ ~Starts(Call!MonitorSettings)
       \/ /\ command \in Call!Actives
          /\ ~Resolves(Call!ActiveSettings) \/ ~Call!Admissible(Call!ActiveSettings)

SettingsInv == AskedInv /\ LoadedInv /\ ResolvedInv /\ StartedInv /\ RefusedInv

\* What the model values differ from.
LEMMA ValuesDiffer ==
  ASSUME Call!SettingsAssumption
  PROVE  /\ Clear # None /\ BuiltIn # Clear /\ None # BuiltIn
         /\ None \notin {"local", "remote"} /\ None # TRUE
         /\ Clear \notin {"cli", "env", "profile"}
         /\ \A l \in {Clear, "cli", "env", "profile"},
               f \in {Clear, "text", "file", "words", "prompt"} :
              None # [layer |-> l, form |-> f] /\ BuiltIn # [layer |-> l, form |-> f]
<1>1. /\ Clear \notin {None, BuiltIn} /\ None # BuiltIn /\ {None, Clear, BuiltIn} \cap BOOLEAN = {}
      /\ {None, Clear, BuiltIn}
           \cap {"local", "remote", "cli", "env", "profile", "words", "prompt"} = {}
  BY DEF Call!SettingsAssumption
<1> DEFINE R == [layer : {Clear, "cli", "env", "profile"},
                 form : {Clear, "text", "file", "words", "prompt"}]
<1>2. {None, BuiltIn} \cap R = {}
  BY DEF Call!SettingsAssumption
<1>3. \A l \in {Clear, "cli", "env", "profile"},
         f \in {Clear, "text", "file", "words", "prompt"} : [layer |-> l, form |-> f] \in R
  OBVIOUS
<1> HIDE DEF R
<1>4. None # TRUE
  <2>1. TRUE \in BOOLEAN
    OBVIOUS
  <2> QED BY <1>1, <2>1
<1>5. \A l \in {Clear, "cli", "env", "profile"},
         f \in {Clear, "text", "file", "words", "prompt"} :
        None # [layer |-> l, form |-> f] /\ BuiltIn # [layer |-> l, form |-> f]
  BY <1>2, <1>3
<1> QED BY <1>1, <1>4, <1>5

\* Nothing is selected to begin with.
LEMMA EmptyTyped ==
  ASSUME Call!SettingsAssumption
  PROVE  Call!ProfileTyped(Call!Empty) /\ Call!ValidProfile(Call!Empty)
<1>1. /\ Call!Empty = [o \in Call!Options |-> None]
      /\ \A o \in Call!Options : Call!Empty[o] = None
  BY DEF Call!Empty, Call!SettingsAssumption
<1>2. /\ Call!Empty.listen = None /\ Call!Empty.allowRemote = None
      /\ Call!Empty.workload = None /\ Call!Empty.prompt = None
      /\ Call!Empty.warning = None /\ Call!Empty.critical = None
      /\ Call!Empty.count = None /\ Call!Empty.concurrency = None
      /\ Call!Empty.probes = None /\ Call!Empty.url = None /\ Call!Empty.stream = None
  BY <1>1 DEF Call!Options
<1>3. Clear # None /\ None \notin BOOLEAN /\ None # "remote"
  BY DEF Call!SettingsAssumption
<1>4. Call!ProfileTyped(Call!Empty)
  BY <1>1, <1>2, <1>3 DEF Call!ProfileTyped
<1>5. Call!ValidProfile(Call!Empty)
  <2>1. None # FALSE
    BY <1>3
  <2>2. \A x : Call!Or(None, x) = x
    BY DEF Call!Or
  <2>3. /\ Call!ProfileDefault.warning = 90 /\ Call!ProfileDefault.critical = 99
        /\ Call!ProfileDefault.count = 1 /\ Call!ProfileDefault.concurrency = 1
    BY DEF Call!ProfileDefault
  <2>4. Call!Ordered(90, 99)
    BY DEF Call!Ordered
  <2> DEFINE value(o) == Call!Or(Call!Empty[o], Call!ProfileDefault[o])
  <2>5. /\ value("warning") = 90 /\ value("critical") = 99
        /\ value("count") = 1 /\ value("concurrency") = 1
    BY <1>2, <2>2, <2>3
  <2> HIDE DEF value
  <2>6. /\ Call!Ordered(value("warning"), value("critical"))
        /\ 1 <= value("concurrency") /\ value("concurrency") <= value("count")
    <3>1. 1 <= 1
      OBVIOUS
    <3> QED BY <2>4, <2>5, <3>1
  <2>7. /\ Call!Empty.probes # "remote" /\ Call!Empty.listen # "remote"
        /\ Call!Empty.url # "remote" /\ Call!Empty.stream # FALSE
        /\ Call!Empty.prompt = None /\ Call!Empty.workload = None
    BY <1>2, <1>3, <2>1
  <2> QED BY <2>6, <2>7 DEF Call!ValidProfile, value
<1> QED BY <1>4, <1>5

\* The template of init_config is a document.
LEMMA TemplateTyped ==
  ASSUME Call!SettingsAssumption
  PROVE  Call!DocumentTyped(Call!Template) /\ Call!DocumentTyped(Call!Torn)
<1> DEFINE t0 == Call!Empty
           t1 == [t0 EXCEPT !.probes = "local", !.insecureProbes = FALSE, !.warning = 90,
                            !.critical = 99]
           t2 == [t1 EXCEPT !.listen = "local", !.allowRemote = FALSE, !.url = "local",
                            !.count = 1]
           t3 == [t2 EXCEPT !.concurrency = 1, !.stream = TRUE, !.insecure = FALSE,
                            !.expect = BuiltIn]
<1>1. Call!Template =
        [wellFormed |-> TRUE, default |-> "local", profiles |-> [n \in {"local"} |-> t3]]
  BY DEF Call!Template
<1>2. t0 = [o \in Call!Options |-> None]
  BY DEF Call!Empty, Call!SettingsAssumption
<1>3. {"probes", "insecureProbes", "warning", "critical", "listen", "allowRemote", "url", "count",
       "concurrency", "stream", "insecure", "expect", "workload"} \subseteq Call!Options
  BY DEF Call!Options
<1> HIDE DEF t0
<1>4. t1 = [o \in Call!Options |-> t1[o]] /\ t1.workload = None
  BY <1>2, <1>3
<1> HIDE DEF t1
<1>5. t2 = [o \in Call!Options |-> t2[o]] /\ t2.workload = None
      /\ t2.listen = "local" /\ t2.allowRemote = FALSE
  BY <1>4, <1>3
<1> HIDE DEF t2
<1>6. t3 = [o \in Call!Options |-> t3[o]] /\ t3.workload = None
      /\ t3.listen = "local" /\ t3.allowRemote = FALSE
  BY <1>5, <1>3
<1> HIDE DEF t3
<1>7. Call!ProfileTyped(t3)
  BY <1>6 DEF Call!ProfileTyped, Call!SettingsAssumption
<1>8. Call!DocumentTyped(Call!Template)
  BY <1>1, <1>7 DEF Call!DocumentTyped
<1>9. Call!DocumentTyped(Call!Torn)
  BY DEF Call!DocumentTyped, Call!Torn
<1> QED BY <1>8, <1>9

\* To begin with something was asked.
LEMMA SettingsInitially ==
  ASSUME Call!SettingsAssumption, Call!Init
  PROVE  SettingsInv
<1>1. phase = "asked" /\ chosen = Call!Empty
  BY DEF Call!Init
<1>2. Call!CliTyped(cli) /\ Call!EnvTyped(env) /\ Call!DocumentTyped(document)
  BY DEF Call!Init, Call!SettingsAssumption
<1> QED BY <1>1, <1>2, EmptyTyped
        DEF SettingsInv, AskedInv, LoadedInv, ResolvedInv, StartedInv, RefusedInv

\* Before the command begins only what it is asked changes, and stays typed.
LEMMA AskedKeeps ==
  ASSUME SettingsInv, phase = "asked", UNCHANGED <<phase, chosen>>,
         Call!CliTyped(cli'), Call!EnvTyped(env'), Call!DocumentTyped(document')
  PROVE  SettingsInv'
<1>1. AskedInv'
  BY DEF SettingsInv, AskedInv, Call!Empty
<1> QED BY <1>1 DEF SettingsInv, LoadedInv, ResolvedInv, StartedInv, RefusedInv

\* One more option, on any layer, or a file that is written or spoiled.
LEMMA GiveKeeps ==
  ASSUME Call!SettingsAssumption, SettingsInv,
         \/ \E o \in DOMAIN CliChoices : \E v \in CliChoices[o] : Call!GiveCli(o, v)
         \/ \E o \in DOMAIN env, form \in {"text", "file"} : Call!GiveEnv(o, form)
         \/ \E o \in DOMAIN ProfileChoices : \E v \in ProfileChoices[o] :
              \E n \in {"local", "other"} : Call!GiveProfile(n, o, v)
         \/ \E ref \in Call!Refs : Call!Spoil(ref)
         \/ Call!ConfigInit
  PROVE  SettingsInv'
<1>1. Call!CliTyped(cli) /\ Call!EnvTyped(env) /\ Call!DocumentTyped(document)
  BY DEF SettingsInv, AskedInv
<1>2. ASSUME NEW o \in DOMAIN CliChoices, NEW v \in CliChoices[o], Call!GiveCli(o, v)
      PROVE  SettingsInv'
  <2>1. /\ phase = "asked" /\ UNCHANGED <<phase, chosen, env, document>>
        /\ cli' = [cli EXCEPT ![o] = v] /\ Call!Legal(cli')
    BY <1>2 DEF Call!GiveCli, Call!Asked
  <2>2. o \in Call!Options
    BY DEF Call!SettingsAssumption
  <2>3. /\ cli' = [k \in Call!Options \cup {"config", "profile"} |-> cli'[k]]
        /\ cli'[o] = v
        /\ \A k \in Call!Options \cup {"config", "profile"} : k # o => cli'[k] = cli[k]
    BY <1>1, <2>1, <2>2 DEF Call!CliTyped
  <2>4. /\ cli'.listen \in {None, "local", "remote"} /\ cli'.allowRemote \in {None} \cup BOOLEAN
        /\ cli'.prompt \in {None, Clear, "words", "prompt"} /\ cli'.config \in BOOLEAN
        /\ \A k \in {"probeToken", "apiToken", "key"} : cli'[k] \in {None, Clear, "text", "file"}
    <3>1. /\ "listen" \in Call!Options /\ "allowRemote" \in Call!Options
          /\ "prompt" \in Call!Options /\ "config" \notin Call!Options
      BY DEF Call!Options
    <3>2. /\ cli.listen \in {None, "local", "remote"} /\ cli.allowRemote \in {None} \cup BOOLEAN
          /\ cli.prompt \in {None, Clear, "words", "prompt"} /\ cli.config \in BOOLEAN
      BY <1>1 DEF Call!CliTyped
    <3>3. cli'.listen \in {None, "local", "remote"}
      BY <2>2, <2>3, <3>1, <3>2 DEF Call!SettingsAssumption
    <3>4. cli'.allowRemote \in {None} \cup BOOLEAN
      <4>1. CASE o = "allowRemote"
        <5>1. cli'.allowRemote = v /\ v \in BOOLEAN
          BY <2>3, <4>1 DEF Call!SettingsAssumption
        <5> QED BY <5>1
      <4>2. CASE o # "allowRemote"
        <5>1. cli'.allowRemote = cli.allowRemote
          BY <2>3, <3>1, <4>2
        <5> QED BY <3>2, <5>1
      <4> QED BY <4>1, <4>2
    <3>5. cli'.prompt \in {None, Clear, "words", "prompt"}
      BY <2>2, <2>3, <3>1, <3>2 DEF Call!SettingsAssumption
    <3>6. cli'.config = cli.config
      BY <2>2, <2>3, <3>1
    <3>7. ASSUME NEW k \in {"probeToken", "apiToken", "key"}
          PROVE  cli'[k] \in {None, Clear, "text", "file"}
      <4>1. k \in Call!Options /\ cli[k] \in {None, Clear, "text", "file"}
        BY <1>1 DEF Call!CliTyped, Call!Options
      <4>2. k = o => v \in {"text", "file", Clear}
        BY DEF Call!SettingsAssumption
      <4> QED BY <2>3, <4>1, <4>2
    <3> QED BY <3>2, <3>3, <3>4, <3>5, <3>6, <3>7
  <2>5. Call!CliTyped(cli')
    BY <2>1, <2>3, <2>4 DEF Call!CliTyped
  <2> QED BY <1>1, <2>1, <2>5, AskedKeeps DEF Call!EnvTyped, Call!DocumentTyped
<1>3. ASSUME NEW o \in DOMAIN env, NEW form \in {"text", "file"}, Call!GiveEnv(o, form)
      PROVE  SettingsInv'
  <2>1. /\ phase = "asked" /\ UNCHANGED <<phase, chosen, cli, document>>
        /\ env' = [env EXCEPT ![o] = env[o] \cup {form}]
    BY <1>3 DEF Call!GiveEnv, Call!Asked
  <2>2. Call!EnvTyped(env')
    BY <1>1, <2>1 DEF Call!EnvTyped
  <2>3. Call!CliTyped(cli') /\ Call!DocumentTyped(document')
    BY <1>1, <2>1
  <2> QED BY <2>1, <2>2, <2>3, AskedKeeps
<1>4. ASSUME NEW o \in DOMAIN ProfileChoices, NEW v \in ProfileChoices[o],
             NEW n \in {"local", "other"}, Call!GiveProfile(n, o, v)
      PROVE  SettingsInv'
  <2>1. /\ phase = "asked" /\ UNCHANGED <<phase, chosen, cli, env>>
        /\ document # None /\ n \in DOMAIN document.profiles
        /\ document' = [document EXCEPT !.profiles[n][o] = v]
    BY <1>4 DEF Call!GiveProfile, Call!Asked
  <2> DEFINE p == document.profiles[n]
             q == [p EXCEPT ![o] = v]
             ps == [document.profiles EXCEPT ![n] = q]
  <2>2. /\ document = [wellFormed |-> document.wellFormed, default |-> document.default,
                       profiles |-> document.profiles]
        /\ document.profiles = [m \in DOMAIN document.profiles |-> document.profiles[m]]
        /\ \A m \in DOMAIN document.profiles : Call!ProfileTyped(document.profiles[m])
    BY <1>1, <2>1 DEF Call!DocumentTyped
  <2>3. document' = [wellFormed |-> document.wellFormed, default |-> document.default,
                     profiles |-> ps]
    BY <2>1, <2>2
  <2>4. Call!ProfileTyped(p) /\ o \in Call!Options
    BY <2>1, <2>2 DEF Call!SettingsAssumption
  <2> HIDE DEF p
  <2>5. /\ q = [k \in Call!Options |-> q[k]] /\ q[o] = v
        /\ \A k \in Call!Options : k # o => q[k] = p[k]
    BY <2>4 DEF Call!ProfileTyped
  <2> HIDE DEF q
  <2>6. Call!ProfileTyped(q)
    <3>1. "listen" \in Call!Options /\ "allowRemote" \in Call!Options /\ "workload" \in Call!Options
      BY DEF Call!Options
    <3>2. /\ p.listen \in {None, "local", "remote"} /\ p.allowRemote \in {None} \cup BOOLEAN
          /\ p.workload # Clear
      BY <2>4 DEF Call!ProfileTyped
    <3>3. q.listen \in {None, "local", "remote"} /\ q.workload # Clear
      BY <2>5, <3>1, <3>2 DEF Call!SettingsAssumption
    <3>4. q.allowRemote \in {None} \cup BOOLEAN
      <4>1. CASE o = "allowRemote"
        <5>1. q.allowRemote = v /\ v \in BOOLEAN
          BY <2>5, <4>1 DEF Call!SettingsAssumption
        <5> QED BY <5>1
      <4>2. CASE o # "allowRemote"
        <5>1. q.allowRemote = p.allowRemote
          BY <2>5, <3>1, <4>2
        <5> QED BY <3>2, <5>1
      <4> QED BY <4>1, <4>2
    <3> QED BY <2>5, <3>3, <3>4 DEF Call!ProfileTyped
  <2>7. /\ ps = [m \in DOMAIN ps |-> ps[m]]
        /\ \A m \in DOMAIN ps : Call!ProfileTyped(ps[m])
    BY <2>2, <2>6
  <2> HIDE DEF ps
  <2>8. Call!DocumentTyped(document')
    BY <2>3, <2>7 DEF Call!DocumentTyped
  <2>9. Call!CliTyped(cli') /\ Call!EnvTyped(env')
    BY <1>1, <2>1
  <2> QED BY <2>1, <2>8, <2>9, AskedKeeps
<1>5. ASSUME Call!ConfigInit \/ \E ref \in Call!Refs : Call!Spoil(ref)
      PROVE  SettingsInv'
  <2>1. /\ phase = "asked" /\ UNCHANGED <<phase, chosen, cli, env>>
        /\ document' \in {document, Call!Template, Call!Torn}
    BY <1>5 DEF Call!ConfigInit, Call!Spoil, Call!Asked
  <2>2. Call!CliTyped(cli') /\ Call!EnvTyped(env') /\ Call!DocumentTyped(document')
    BY <1>1, <2>1, TemplateTyped
  <2> QED BY <2>1, <2>2, AskedKeeps
<1> QED BY <1>2, <1>3, <1>4, <1>5

\* The document is accepted or not, whatever else changes.
LEMMA DispatchedStays ==
  ASSUME UNCHANGED <<command, cli, document>>
  PROVE  (Call!Dispatched)' <=> Call!Dispatched
BY DEF Call!Dispatched, Call!Aware, Call!Monitors, Call!Actives, Call!Loads, Call!Selectable,
       Call!Selected, Call!ValidProfile, Call!Or, Call!Ordered, Call!ProfileDefault

\* And what is decided follows from what was asked and selected.
LEMMA LayersStay ==
  ASSUME UNCHANGED <<command, cli, env, document, damaged, chosen>>
  PROVE  /\ Call!MonitorSettings' = Call!MonitorSettings
         /\ Call!ActiveSettings' = Call!ActiveSettings
         /\ Unused' <=> Unused
         /\ \A s : Starts(s)' <=> Starts(s)
         /\ \A s : Resolves(s)' <=> Resolves(s)
<1>1. Call!MonitorSettings' = Call!MonitorSettings
  BY DEF Call!MonitorSettings, Call!Clearable, Call!Setting, Call!Credential, Call!Or,
         Call!Conflict, Call!MergedDefault
<1>2. Call!ActiveSettings' = Call!ActiveSettings
  BY DEF Call!ActiveSettings, Call!Clearable, Call!Setting, Call!Credential, Call!Or,
         Call!Conflict, Call!MergedDefault, Call!Prompt, Call!WorkloadId, Call!Expectation,
         Call!CustomOnCli
<1>3. Unused' <=> Unused
  BY DEF Unused, Call!Clearable, Call!Or
<1>4. \A s : Starts(s)' <=> Starts(s)
  BY DEF Starts, Call!ValidArgs, Call!Sound
<1>5. \A s : Resolves(s)' <=> Resolves(s)
  BY DEF Resolves, Call!Sound
<1> QED BY <1>1, <1>2, <1>3, <1>4, <1>5

\* The profile that is selected is one of the document, or there is none.
LEMMA LoadKeeps ==
  ASSUME Call!SettingsAssumption, SettingsInv, Call!Load
  PROVE  SettingsInv'
<1>1. /\ phase = "asked" /\ UNCHANGED <<command, cli, env, document, damaged, settings>>
      /\ \/ ~Call!Dispatched /\ phase' = "refused" /\ chosen' = chosen
         \/ /\ Call!Dispatched /\ phase' = "loaded"
            /\ LET name == IF cli.config THEN Call!Selected(document, cli.profile) ELSE None
               IN  chosen' = IF name = None THEN Call!Empty ELSE document.profiles[name]
  BY DEF Call!Load, Call!Refuse, Call!Given
<1>2. /\ Call!CliTyped(cli) /\ Call!EnvTyped(env) /\ Call!DocumentTyped(document)
      /\ Call!ProfileTyped(chosen)
  BY DEF SettingsInv, AskedInv
<1>3. (Call!Dispatched)' <=> Call!Dispatched
  BY <1>1, DispatchedStays
<1>4. CASE ~Call!Dispatched
  <2>1. phase' = "refused" /\ chosen' = chosen /\ ~(Call!Dispatched)'
    BY <1>1, <1>3, <1>4
  <2>2. AskedInv'
    BY <1>1, <1>2, <2>1 DEF AskedInv
  <2> QED BY <2>1, <2>2 DEF SettingsInv, LoadedInv, ResolvedInv, StartedInv, RefusedInv
<1>5. CASE Call!Dispatched
  <2>1. phase' = "loaded"
    BY <1>1, <1>5
  <2>2. Call!ProfileTyped(chosen') /\ Call!ValidProfile(chosen')
    <3> DEFINE name == Call!Selected(document, cli.profile)
    <3>1. CASE cli.config /\ name # None
      <4>1. chosen' = document.profiles[name]
        BY <1>1, <1>5, <3>1
      <4>2. Call!Loads(document) /\ name \in DOMAIN document.profiles
        <5>1. Call!Aware
          BY <1>5, <3>1 DEF Call!Dispatched
        <5>2. Call!Loads(document) /\ Call!Selectable(document, cli.profile)
          BY <1>5, <3>1, <5>1 DEF Call!Dispatched
        <5> QED BY <3>1, <5>2 DEF Call!Selectable
      <4> HIDE DEF name
      <4>3. document # None /\ Call!ValidProfile(document.profiles[name])
        BY <4>2 DEF Call!Loads
      <4>4. Call!ProfileTyped(document.profiles[name])
        BY <1>2, <4>2, <4>3 DEF Call!DocumentTyped
      <4> QED BY <4>1, <4>3, <4>4
    <3>2. CASE ~(cli.config /\ name # None)
      <4>1. chosen' = Call!Empty
        BY <1>1, <1>5, <3>2
      <4> QED BY <4>1, EmptyTyped
    <3> QED BY <3>1, <3>2
  <2>3. AskedInv'
    BY <1>1, <1>2, <2>1, <2>2 DEF AskedInv
  <2>4. LoadedInv'
    <3>1. (Call!Dispatched)'
      BY <1>3, <1>5
    <3> QED BY <2>2, <3>1 DEF LoadedInv, Call!ValidProfile, Call!Or, Call!ProfileDefault,
                              Call!Ordered
  <2> QED BY <2>1, <2>3, <2>4 DEF SettingsInv, ResolvedInv, StartedInv, RefusedInv
<1> QED BY <1>4, <1>5

\* A step that changes neither what was asked nor what was selected: what is
\* left to show is about the settings or the refusal.
LEMMA DecisionKeeps ==
  ASSUME SettingsInv, phase \in {"loaded", "resolved"},
         UNCHANGED <<command, cli, env, document, damaged, chosen>>,
         phase' # "asked", phase' = "refused" => RefusedInv',
         phase' \in {"resolved", "started"} => ResolvedInv',
         phase' = "started" => StartedInv'
  PROVE  SettingsInv'
<1>1. AskedInv'
  BY DEF SettingsInv, AskedInv
<1>2. Call!Dispatched /\ Call!ValidProfile(chosen)
  BY DEF SettingsInv, LoadedInv
<1>3. (Call!Dispatched)' /\ Call!ValidProfile(chosen')
  BY <1>2, DispatchedStays
<1>4. LoadedInv'
  BY <1>3 DEF LoadedInv, Call!ValidProfile, Call!Or, Call!ProfileDefault, Call!Ordered
<1>5. ResolvedInv' /\ StartedInv' /\ RefusedInv'
  BY DEF ResolvedInv, StartedInv, RefusedInv
<1> QED BY <1>1, <1>4, <1>5 DEF SettingsInv

\* Credentials that contradict each other and options without a probe end it;
\* else the settings are those of the layers.
LEMMA ResolveMonitorKeeps ==
  ASSUME SettingsInv, Call!ResolveMonitor
  PROVE  SettingsInv'
<1> DEFINE s == Call!MonitorSettings
<1>1. phase = "loaded" /\ command \in Call!Monitors
  BY DEF Call!ResolveMonitor
<1>2. s.probes = Call!Clearable("probes")
  BY DEF Call!MonitorSettings
<1>3. /\ UNCHANGED <<command, cli, env, document, damaged, chosen>>
      /\ \/ (Unused \/ ~Agreed(s)) /\ phase' = "refused"
         \/ Agreed(s) /\ settings' = s /\ phase' = "resolved"
  BY <1>2 DEF Call!ResolveMonitor, Call!Refuse, Call!Given, Unused, Agreed
<1> HIDE DEF s
<1>4. /\ Call!MonitorSettings' = s /\ (Unused' <=> Unused) /\ command' \in Call!Monitors
      /\ command' \notin Call!Actives
  BY <1>1, <1>3, LayersStay DEF s, Call!Monitors, Call!Actives
<1>5. Call!ValidProfile(chosen)
  BY <1>1 DEF SettingsInv, LoadedInv
<1>6. phase' = "refused" => RefusedInv'
  <2> SUFFICES ASSUME phase' = "refused"
               PROVE  RefusedInv'
    OBVIOUS
  <2>1. Unused' \/ Call!Conflict \in {s.probeToken, s.apiToken}
    BY <1>3, <1>4 DEF Agreed
  <2>2. Call!ValidProfile(chosen')
    BY <1>3, <1>5
  <2>3. Unused' \/ ~Agreed(Call!MonitorSettings)'
    BY <1>4, <2>1 DEF Agreed, Call!Conflict
  <2> QED BY <1>4, <2>2, <2>3 DEF RefusedInv
<1>7. phase' \in {"resolved", "started"} => ResolvedInv'
  BY <1>3, <1>4 DEF ResolvedInv, Agreed, Call!Conflict, Call!Monitors, Call!Actives
<1> QED BY <1>1, <1>3, <1>6, <1>7, DecisionKeeps

\* The settings are checked and the credentials read.
LEMMA StartMonitorKeeps ==
  ASSUME SettingsInv, Call!StartMonitor
  PROVE  SettingsInv'
<1>1. /\ phase = "resolved" /\ command \in Call!Monitors
      /\ UNCHANGED <<command, cli, env, document, damaged, chosen, settings>>
      /\ \/ ~Starts(settings) /\ phase' = "refused"
         \/ Starts(settings) /\ phase' = "started"
  BY DEF Call!StartMonitor, Call!Refuse, Call!Given, Starts
<1>2. settings = Call!MonitorSettings /\ Agreed(settings) /\ Call!ValidProfile(chosen)
  BY <1>1 DEF SettingsInv, ResolvedInv, LoadedInv
<1>3. /\ Call!MonitorSettings' = settings /\ command' \notin Call!Actives
      /\ \A s : Starts(s)' <=> Starts(s)
  BY <1>1, <1>2, LayersStay DEF Call!Monitors, Call!Actives
<1>4. Starts(settings)' <=> Starts(settings)
  BY <1>1 DEF Starts, Call!ValidArgs, Call!Sound
<1>5. Agreed(settings)'
  BY <1>1, <1>2 DEF Agreed
<1>6. phase' = "refused" => RefusedInv'
  BY <1>1, <1>2, <1>3, <1>4 DEF RefusedInv
<1>7. phase' \in {"resolved", "started"} => ResolvedInv'
  BY <1>1, <1>3, <1>5 DEF ResolvedInv
<1>8. phase' = "started" => StartedInv'
  BY <1>1, <1>3, <1>4 DEF StartedInv
<1> QED BY <1>1, <1>6, <1>7, <1>8, DecisionKeeps

\* The same for a request: its prompt, identity, credential and model.
LEMMA ResolveActiveKeeps ==
  ASSUME SettingsInv, Call!ResolveActive
  PROVE  SettingsInv'
<1> DEFINE s == Call!ActiveSettings
<1>1. /\ phase = "loaded" /\ command \in Call!Actives
      /\ UNCHANGED <<command, cli, env, document, damaged, chosen>>
      /\ \/ ~Resolves(s) /\ phase' = "refused"
         \/ Resolves(s) /\ settings' = s /\ phase' = "resolved"
  BY DEF Call!ResolveActive, Call!Refuse, Call!Given, Resolves
<1> HIDE DEF s
<1>2. /\ Call!ActiveSettings' = s /\ command' \notin Call!Monitors
      /\ \A x : Resolves(x)' <=> Resolves(x)
  BY <1>1, LayersStay DEF s, Call!Monitors, Call!Actives
<1>3. Call!ValidProfile(chosen)
  BY <1>1 DEF SettingsInv, LoadedInv
<1>4. phase' = "refused" => RefusedInv'
  <2> SUFFICES ASSUME phase' = "refused"
               PROVE  RefusedInv'
    OBVIOUS
  <2>1. ~Resolves(s) /\ Call!ValidProfile(chosen')
    BY <1>1, <1>3
  <2>2. ~Resolves(Call!ActiveSettings)'
    BY <1>1, <1>2, <2>1 DEF Resolves, Call!Sound, Call!Conflict
  <2> QED BY <1>1, <2>1, <2>2 DEF RefusedInv
<1>5. phase' \in {"resolved", "started"} => ResolvedInv'
  <2> SUFFICES ASSUME phase' \in {"resolved", "started"}
               PROVE  ResolvedInv'
    OBVIOUS
  <2>1. Resolves(s) /\ settings' = s
    BY <1>1
  <2>2. Resolves(settings)'
    BY <1>1, <2>1 DEF Resolves, Call!Sound, Call!Conflict
  <2> QED BY <1>2, <2>1, <2>2 DEF ResolvedInv
<1> QED BY <1>1, <1>4, <1>5, DecisionKeeps

\* And what is admitted.
LEMMA StartActiveKeeps ==
  ASSUME SettingsInv, Call!StartActive
  PROVE  SettingsInv'
<1>1. /\ phase = "resolved" /\ command \in Call!Actives
      /\ UNCHANGED <<command, cli, env, document, damaged, chosen, settings>>
      /\ \/ ~Call!Admissible(settings) /\ phase' = "refused"
         \/ Call!Admissible(settings) /\ phase' = "started"
  BY DEF Call!StartActive, Call!Refuse, Call!Given
<1>2. settings = Call!ActiveSettings /\ Resolves(settings) /\ Call!ValidProfile(chosen)
  BY <1>1 DEF SettingsInv, ResolvedInv, LoadedInv
<1>3. Call!ActiveSettings' = settings /\ command' \notin Call!Monitors
  BY <1>1, <1>2, LayersStay DEF Call!Monitors, Call!Actives
<1>4. Resolves(settings)'
  BY <1>1, <1>2 DEF Resolves, Call!Sound
<1>5. phase' = "refused" => RefusedInv'
  <2> SUFFICES ASSUME phase' = "refused"
               PROVE  RefusedInv'
    OBVIOUS
  <2>1. ~Call!Admissible(Call!ActiveSettings') /\ Call!ValidProfile(chosen')
    BY <1>1, <1>2, <1>3
  <2> QED BY <1>1, <2>1 DEF RefusedInv
<1>6. phase' \in {"resolved", "started"} => ResolvedInv'
  BY <1>1, <1>3, <1>4 DEF ResolvedInv
<1>7. phase' = "started" => StartedInv'
  BY <1>1, <1>3 DEF StartedInv
<1> QED BY <1>1, <1>5, <1>6, <1>7, DecisionKeeps

\* Every step keeps the invariant.
LEMMA SettingsStep ==
  ASSUME Call!SettingsAssumption, SettingsInv, [Call!Next]_(Call!vars)
  PROVE  SettingsInv'
<1>1. CASE UNCHANGED Call!vars
  <2>1. UNCHANGED <<command, cli, env, document, damaged, phase, chosen, settings>>
    BY <1>1 DEF Call!vars
  <2>2. /\ Call!MonitorSettings' = Call!MonitorSettings
        /\ Call!ActiveSettings' = Call!ActiveSettings
        /\ (Unused' <=> Unused) /\ ((Call!Dispatched)' <=> Call!Dispatched)
        /\ \A s : Starts(s)' <=> Starts(s)
        /\ \A s : Resolves(s)' <=> Resolves(s)
    BY <2>1, LayersStay, DispatchedStays
  <2>3. AskedInv'
    BY <2>1 DEF SettingsInv, AskedInv, Call!Empty
  <2>4. LoadedInv'
    BY <2>1, <2>2 DEF SettingsInv, LoadedInv
  <2>5. ResolvedInv'
    BY <2>1, <2>2 DEF SettingsInv, ResolvedInv, Agreed, Resolves, Call!Sound
  <2>6. StartedInv'
    BY <2>1, <2>2 DEF SettingsInv, StartedInv, Starts, Call!Sound
  <2>7. RefusedInv'
    BY <2>1, <2>2 DEF SettingsInv, RefusedInv, Agreed, Starts, Resolves, Call!Sound
  <2> QED BY <2>3, <2>4, <2>5, <2>6, <2>7 DEF SettingsInv
<1>2. CASE Call!StartOther
  <2>1. /\ phase = "loaded" /\ phase' = "started"
        /\ UNCHANGED <<command, cli, env, document, damaged, chosen>>
        /\ command \notin Call!Monitors /\ command \notin Call!Actives
    BY <1>2 DEF Call!StartOther, Call!Given, Call!Aware
  <2>2. ResolvedInv' /\ StartedInv'
    BY <2>1 DEF ResolvedInv, StartedInv, Call!Monitors, Call!Actives
  <2> QED BY <2>1, <2>2, DecisionKeeps
<1> QED BY <1>1, <1>2, GiveKeeps, LoadKeeps, ResolveMonitorKeeps, StartMonitorKeeps,
           ResolveActiveKeeps, StartActiveKeeps DEF Call!Next

-----------------------------------------------------------------------------
(* And the invariant is the property, for each kind of command.            *)

\* A credential that is no conflict is that of the highest layer that has one.
LEMMA NearestFacts ==
  ASSUME Call!SettingsAssumption, NEW o, settings[o] = Call!Credential(o),
         settings[o] # None, settings[o] # Call!Conflict, Call!Sound(settings[o])
  PROVE  Call!CredentialNearest(o)
<1>1. Clear # None
  BY DEF Call!SettingsAssumption
<1>2. settings[o] \notin damaged
  BY DEF Call!Sound
<1>3. cli[o] # Clear
  BY <1>1 DEF Call!Credential
<1>4. CASE cli[o] # None
  BY <1>1, <1>2, <1>3, <1>4 DEF Call!Credential, Call!CredentialNearest
<1>5. CASE cli[o] = None
  <2>1. ASSUME env[o] # {}
        PROVE  settings[o].layer = "env"
    BY <1>1, <1>5, <2>1 DEF Call!Credential
  <2> QED BY <1>2, <1>3, <1>5, <2>1 DEF Call!CredentialNearest
<1> QED BY <1>4, <1>5

\* A flag of two values and a default that is FALSE.
LEMMA FlagFacts ==
  ASSUME Call!SettingsAssumption, AskedInv
  PROVE  /\ Call!Setting("allowRemote", FALSE) \in BOOLEAN
         /\ Call!Setting("allowRemote", FALSE) =>
              TRUE \in {cli.allowRemote, chosen.allowRemote} /\ cli.allowRemote # FALSE
         /\ Call!Setting("listen", "local") \in {"local", "remote"}
<1>1. /\ cli.allowRemote \in {None} \cup BOOLEAN /\ chosen.allowRemote \in {None} \cup BOOLEAN
      /\ cli.listen \in {None, "local", "remote"} /\ chosen.listen \in {None, "local", "remote"}
  BY DEF AskedInv, Call!CliTyped, Call!ProfileTyped
<1>2. Call!Setting("listen", "local") \in {"local", "remote"}
  BY <1>1 DEF Call!Setting, Call!Or
<1>3. CASE cli.allowRemote # None
  <2>1. Call!Setting("allowRemote", FALSE) = cli.allowRemote /\ cli.allowRemote \in BOOLEAN
    BY <1>1, <1>3 DEF Call!Setting, Call!Or
  <2> QED BY <1>2, <2>1
<1>4. CASE cli.allowRemote = None
  <2>1. cli.allowRemote # FALSE
    BY <1>4 DEF Call!SettingsAssumption
  <2>2. CASE chosen.allowRemote # None
    <3>1. Call!Setting("allowRemote", FALSE) = chosen.allowRemote
          /\ chosen.allowRemote \in BOOLEAN
      BY <1>1, <1>4, <2>2 DEF Call!Setting, Call!Or
    <3> QED BY <1>2, <2>1, <3>1
  <2>3. CASE chosen.allowRemote = None
    <3>1. Call!Setting("allowRemote", FALSE) = FALSE
      BY <1>4, <2>3 DEF Call!Setting, Call!Or
    <3> QED BY <1>2, <3>1
  <2> QED BY <2>2, <2>3
<1> QED BY <1>3, <1>4

\* What a monitor starts with.
LEMMA MonitorStarted ==
  ASSUME Call!SettingsAssumption, SettingsInv, phase = "started", command \in Call!Monitors
  PROVE  /\ \A o \in Call!Used : Call!CredentialNearest(o)
         /\ Call!ExposureExplicit /\ Call!PromptCoherent
         /\ settings.warning < settings.critical
         /\ \A o \in (Call!Known \cap DOMAIN settings) \ Call!Credentials :
              cli[o] \notin {None, Clear} /\ o # "prompt" => settings[o] = cli[o]
<1>1. settings = Call!MonitorSettings /\ Agreed(settings) /\ Starts(settings)
  BY DEF SettingsInv, ResolvedInv, StartedInv
<1> DEFINE serves == command = "serve"
<1>2. /\ settings.probes = Call!Clearable("probes")
      /\ settings.probeToken = IF settings.probes = None THEN None
                               ELSE Call!Credential("probeToken")
      /\ settings.insecureProbes = Call!Setting("insecureProbes", FALSE)
      /\ settings.warning = Call!Setting("warning", Call!MergedDefault.warning)
      /\ settings.critical = Call!Setting("critical", Call!MergedDefault.critical)
      /\ settings.listen = IF serves THEN Call!Setting("listen", "local") ELSE None
      /\ settings.apiToken = IF serves THEN Call!Credential("apiToken") ELSE None
      /\ DOMAIN settings = {"probes", "probeToken", "insecureProbes", "warning", "critical",
                            "listen", "apiToken", "unauthenticated", "allowRemote"}
  BY <1>1 DEF Call!MonitorSettings
<1>3. /\ settings.unauthenticated <=> serves /\ cli.apiToken = Clear
      /\ settings.allowRemote <=> serves /\ Call!Setting("allowRemote", FALSE)
  BY <1>1 DEF Call!MonitorSettings
<1>4. /\ settings.probeToken # Call!Conflict /\ settings.apiToken # Call!Conflict
      /\ Call!Sound(settings.probeToken) /\ Call!Sound(settings.apiToken)
      /\ settings.listen = "remote" => settings.allowRemote /\ settings.apiToken # None
      /\ settings.listen = "local" => settings.apiToken # None \/ settings.unauthenticated
      /\ Call!Ordered(settings.warning, settings.critical)
  BY <1>1 DEF Agreed, Starts, Call!ValidArgs
<1>5. AskedInv
  BY DEF SettingsInv
<1> HIDE DEF serves
<1>6. ASSUME NEW o \in Call!Used
      PROVE  Call!CredentialNearest(o)
  <2>1. o \in {"probeToken", "apiToken"} /\ settings[o] # None
    BY <1>2 DEF Call!Used, Call!Credentials
  <2>2. settings[o] = Call!Credential(o)
    BY <1>2, <2>1
  <2> QED BY <1>4, <2>1, <2>2, NearestFacts
<1>7. Call!ExposureExplicit
  <2> SUFFICES ASSUME serves
               PROVE  /\ settings.listen = "remote" =>
                           /\ settings.apiToken # None
                           /\ TRUE \in {cli.allowRemote, chosen.allowRemote}
                           /\ cli.allowRemote # FALSE
                      /\ settings.apiToken = None =>
                           settings.listen = "local" /\ cli.apiToken = Clear
    BY DEF Call!ExposureExplicit, serves
  <2>1. settings.listen \in {"local", "remote"}
    BY <1>2, <1>5, FlagFacts
  <2>2. settings.listen = "remote" =>
          TRUE \in {cli.allowRemote, chosen.allowRemote} /\ cli.allowRemote # FALSE
    BY <1>3, <1>4, <1>5, FlagFacts
  <2>3. settings.apiToken = None => settings.listen = "local" /\ cli.apiToken = Clear
    BY <1>3, <1>4, <2>1
  <2> QED BY <1>4, <2>2, <2>3
<1>8. Call!PromptCoherent
  BY DEF Call!PromptCoherent, Call!Monitors, Call!Actives
<1>9. settings.warning < settings.critical
  BY <1>4 DEF Call!Ordered
<1>10. ASSUME NEW o \in (Call!Known \cap DOMAIN settings) \ Call!Credentials,
              cli[o] \notin {None, Clear}
       PROVE  settings[o] = cli[o]
  <2>1. o \in {"probes", "insecureProbes", "warning", "critical"}
        \/ (serves /\ o \in {"listen", "allowRemote"})
    BY DEF Call!Known, Call!Credentials, Call!Monitors, serves
  <2>2. CASE o = "allowRemote" /\ serves
    <3>1. cli.allowRemote \in {None} \cup BOOLEAN /\ cli.allowRemote # None
      BY <1>5, <1>10, <2>2 DEF AskedInv, Call!CliTyped
    <3>2. Call!Setting("allowRemote", FALSE) = cli.allowRemote /\ cli.allowRemote \in BOOLEAN
      BY <3>1 DEF Call!Setting, Call!Or
    <3>3. settings.allowRemote \in BOOLEAN
      BY <1>1 DEF Call!MonitorSettings
    <3>4. settings.allowRemote <=> cli.allowRemote
      BY <1>3, <2>2, <3>2
    <3> QED BY <2>2, <3>2, <3>3, <3>4
  <2>3. CASE o # "allowRemote"
    BY <1>2, <1>10, <2>1, <2>3 DEF Call!Setting, Call!Clearable, Call!Or
  <2> QED BY <2>1, <2>2, <2>3
<1> QED BY <1>6, <1>7, <1>8, <1>9, <1>10

\* The fields of the settings of a request, by name.
LEMMA ActiveFields ==
  ASSUME NEW s, s = Call!ActiveSettings
  PROVE  /\ s.prompt = Call!Prompt /\ s.workload = Call!WorkloadId
         /\ s.expect = Call!Expectation /\ s.key = Call!Credential("key")
         /\ s.url = Call!Setting("url", "local") /\ s.model = Call!Setting("model", None)
         /\ s.insecure = Call!Setting("insecure", FALSE)
         /\ s.stream = Call!Setting("stream", TRUE)
         /\ s.maxTtft = IF command = "benchmark" \/ cli.stream = FALSE THEN None
                        ELSE Call!Clearable("maxTtft")
         /\ s.count = IF command = "benchmark" THEN 1
                      ELSE Call!Setting("count", Call!MergedDefault.count)
         /\ s.concurrency = IF command = "benchmark" THEN 1
                            ELSE Call!Setting("concurrency", Call!MergedDefault.concurrency)
         /\ DOMAIN s = {"prompt", "workload", "expect", "key", "url", "model", "insecure",
                        "stream", "maxTtft", "count", "concurrency"}
BY DEF Call!ActiveSettings

\* What a canary or a benchmark starts with.
LEMMA ActiveStarted ==
  ASSUME Call!SettingsAssumption, SettingsInv, phase = "started", command \in Call!Actives
  PROVE  /\ \A o \in Call!Used : Call!CredentialNearest(o)
         /\ Call!ExposureExplicit /\ Call!PromptCoherent
         /\ \A o \in (Call!Known \cap DOMAIN settings) \ Call!Credentials :
              cli[o] \notin {None, Clear} /\ o # "prompt" => settings[o] = cli[o]
<1>1. settings = Call!ActiveSettings /\ Resolves(settings)
  BY DEF SettingsInv, ResolvedInv
<1>2. /\ settings.prompt = Call!Prompt /\ settings.workload = Call!WorkloadId
      /\ settings.expect = Call!Expectation /\ settings.key = Call!Credential("key")
      /\ settings.url = Call!Setting("url", "local")
      /\ settings.model = Call!Setting("model", None)
      /\ settings.insecure = Call!Setting("insecure", FALSE)
      /\ settings.stream = Call!Setting("stream", TRUE)
      /\ settings.maxTtft = IF command = "benchmark" \/ cli.stream = FALSE THEN None
                            ELSE Call!Clearable("maxTtft")
      /\ settings.count = IF command = "benchmark" THEN 1
                          ELSE Call!Setting("count", Call!MergedDefault.count)
      /\ settings.concurrency = IF command = "benchmark" THEN 1
                          ELSE Call!Setting("concurrency", Call!MergedDefault.concurrency)
      /\ DOMAIN settings = {"prompt", "workload", "expect", "key", "url", "model", "insecure",
                            "stream", "maxTtft", "count", "concurrency"}
  BY <1>1, ActiveFields
<1>3. /\ settings.workload # Clear /\ settings.key # Call!Conflict /\ Call!Sound(settings.key)
  BY <1>1 DEF Resolves
<1>4. /\ cli.prompt \in {None, Clear, "words", "prompt"} /\ Call!Legal(cli)
  BY DEF SettingsInv, AskedInv, Call!CliTyped
<1>5. /\ Clear # None /\ BuiltIn # Clear /\ None # BuiltIn
      /\ {None, Clear, BuiltIn} \cap {"cli", "profile", "words", "prompt"} = {}
      /\ \A l \in {"cli", "profile"}, f \in {"words", "prompt"} :
           BuiltIn # [layer |-> l, form |-> f]
  BY DEF Call!SettingsAssumption
<1>6. ASSUME NEW o \in Call!Used
      PROVE  Call!CredentialNearest(o)
  <2>1. o = "key" /\ settings[o] # None
    BY <1>2 DEF Call!Used, Call!Credentials
  <2> QED BY <1>2, <1>3, <2>1, NearestFacts
<1>7. Call!ExposureExplicit
  BY DEF Call!ExposureExplicit, Call!Actives
<1>8. Call!PromptCoherent
  <2> DEFINE own == {cli.workload, cli.expect}
  <2>1. CASE cli.prompt = Clear
    <3>1. settings.prompt = BuiltIn /\ Call!Prompt = BuiltIn
      BY <1>2, <1>5, <2>1 DEF Call!Prompt
    <3>2. settings.workload = BuiltIn
      BY <1>2, <1>3, <3>1 DEF Call!WorkloadId
    <3>3. settings.expect \in own \cup {None, BuiltIn}
      BY <1>2, <2>1, <3>1 DEF Call!Expectation, Call!Or
    <3> QED BY <1>5, <3>1, <3>2, <3>3 DEF Call!PromptCoherent
  <2>2. CASE cli.prompt \in {"words", "prompt"}
    <3>1. Call!Prompt = [layer |-> "cli", form |-> cli.prompt] /\ Call!CustomOnCli
      BY <1>5, <2>2 DEF Call!Prompt, Call!CustomOnCli
    <3>2. settings.prompt # BuiltIn /\ settings.prompt.layer = "cli"
      BY <1>2, <1>5, <2>2, <3>1
    <3>3. settings.workload = cli.workload
      BY <1>2, <1>3, <3>1, <3>2 DEF Call!WorkloadId, Call!Or
    <3>4. settings.expect \in own \cup {None}
      BY <1>2, <3>1, <3>2 DEF Call!Expectation, Call!Or
    <3>5. cli.prompt # Clear
      BY <1>5, <2>2
    <3> QED BY <1>5, <3>2, <3>3, <3>4, <3>5 DEF Call!PromptCoherent
  <2>3. CASE cli.prompt = None
    <3>1. ~Call!CustomOnCli /\ cli.prompt # Clear
      BY <1>5, <2>3 DEF Call!CustomOnCli
    <3>2. CASE chosen.prompt = None
      <4>1. settings.prompt = BuiltIn /\ Call!Prompt = BuiltIn
        BY <1>2, <1>5, <2>3, <3>2 DEF Call!Prompt
      <4>2. settings.workload = BuiltIn
        BY <1>2, <1>3, <4>1 DEF Call!WorkloadId
      <4> QED BY <1>5, <3>1, <4>1, <4>2 DEF Call!PromptCoherent
    <3>3. CASE chosen.prompt # None
      <4>1. Call!Prompt = [layer |-> "profile", form |-> "prompt"]
        BY <1>5, <2>3, <3>3 DEF Call!Prompt
      <4>2. settings.prompt # BuiltIn /\ settings.prompt.layer = "profile"
        BY <1>2, <1>5, <4>1
      <4>3. settings.expect \in own \cup {None, chosen.expect}
        BY <1>2, <1>5, <4>2 DEF Call!Expectation, Call!Or
      <4> QED BY <1>5, <3>1, <4>2, <4>3 DEF Call!PromptCoherent
    <3> QED BY <3>2, <3>3
  <2> QED BY <1>4, <2>1, <2>2, <2>3
<1>9. ASSUME NEW o \in (Call!Known \cap DOMAIN settings) \ Call!Credentials,
             cli[o] \notin {None, Clear}, o # "prompt"
      PROVE  settings[o] = cli[o]
  <2>1. o \in {"workload", "expect", "url", "model", "insecure", "stream"}
        \/ (command = "canary" /\ o \in {"maxTtft", "count", "concurrency"})
    BY <1>9 DEF Call!Known, Call!Credentials, Call!Actives
  <2>2. CASE o = "workload"
    BY <1>2, <1>3, <1>9, <2>2 DEF Call!WorkloadId, Call!Or
  <2>3. CASE o = "expect"
    BY <1>2, <1>9, <2>3 DEF Call!Expectation, Call!Or
  <2>4. CASE o = "maxTtft"
    BY <1>2, <1>4, <1>9, <2>1, <2>4 DEF Call!Clearable, Call!Legal, Call!Or
  <2>5. CASE o \in {"url", "model", "insecure", "stream"}
    BY <1>2, <1>9, <2>5 DEF Call!Setting, Call!Or
  <2>6. CASE command = "canary" /\ o \in {"count", "concurrency"}
    BY <1>2, <1>9, <2>6 DEF Call!Setting, Call!Or
  <2> QED BY <2>1, <2>2, <2>3, <2>4, <2>5, <2>6
<1> QED BY <1>6, <1>7, <1>8, <1>9

\* A command that is asked with at most its credential, its model and its
\* streaming.
Plain ==
  /\ \A o \in Call!Known \ {"apiToken", "model", "stream"} : cli[o] = None
  /\ \A o \in DOMAIN env : env[o] = {}
  /\ damaged = {}

\* Without a credential in the environment there is no conflict.
LEMMA NoConflict ==
  ASSUME Call!SettingsAssumption, AskedInv, Plain, NEW o \in Call!Credentials
  PROVE  /\ Call!Credential(o) # Call!Conflict
         /\ Call!Credential(o) = None => cli[o] = Clear \/ (cli[o] = None /\ chosen[o] = None)
<1>1. env[o] = {}
  BY DEF AskedInv, Call!EnvTyped, Plain, Call!Credentials
<1>2. Call!Cardinality(env[o]) = 0
  <2>1. Call!Cardinality({}) = Cardinality({})
    BY DEF Call!Cardinality, Call!IsFiniteSet, Cardinality, IsFiniteSet
  <2> QED BY <1>1, <2>1, FS_EmptySet
<1>3. /\ Clear # None /\ Clear \notin {"cli", "env", "profile"}
      /\ None # [layer |-> Clear, form |-> Clear]
      /\ None # [layer |-> "profile", form |-> "file"]
      /\ \A f \in {"text", "file"} : None # [layer |-> "cli", form |-> f]
  BY ValuesDiffer
<1>4. \A f : [layer |-> "cli", form |-> f] # Call!Conflict
  BY <1>3 DEF Call!Conflict
<1>5. [layer |-> "profile", form |-> "file"] # Call!Conflict /\ None # Call!Conflict
  BY <1>3 DEF Call!Conflict
<1>6. CASE cli[o] = Clear
  BY <1>3, <1>5, <1>6 DEF Call!Credential
<1>7. CASE cli[o] \notin {Clear, None}
  <2>1. cli[o] \in {"text", "file"}
    BY <1>7 DEF AskedInv, Call!CliTyped, Call!Credentials
  <2>2. Call!Credential(o) = [layer |-> "cli", form |-> cli[o]]
    BY <1>3, <1>7 DEF Call!Credential
  <2> QED BY <1>3, <1>4, <2>1, <2>2
<1>8. CASE cli[o] = None
  <2>1. Call!Credential(o) = IF chosen[o] # None THEN [layer |-> "profile", form |-> "file"]
                             ELSE None
    BY <1>1, <1>2, <1>3, <1>8 DEF Call!Credential
  <2> QED BY <1>3, <1>5, <1>8, <2>1
<1> QED BY <1>6, <1>7, <1>8

\* What a monitor is refused for, once its profile is a sound one.
LEMMA MonitorRefused ==
  ASSUME Call!SettingsAssumption, AskedInv, Plain, Call!ValidProfile(chosen),
         command \in Call!Monitors,
         Unused \/ ~Agreed(Call!MonitorSettings) \/ ~Starts(Call!MonitorSettings)
  PROVE  \/ command = "serve" /\ cli.apiToken = None /\ chosen.apiToken = None
         \/ command = "serve" /\ cli.apiToken = Clear /\ chosen.listen = "remote"
<1> DEFINE s == Call!MonitorSettings
           serves == command = "serve"
<1>1. /\ s.probeToken = IF Call!Clearable("probes") = None THEN None
                        ELSE Call!Credential("probeToken")
      /\ s.warning = Call!Setting("warning", Call!MergedDefault.warning)
      /\ s.critical = Call!Setting("critical", Call!MergedDefault.critical)
      /\ s.listen = IF serves THEN Call!Setting("listen", "local") ELSE None
      /\ s.apiToken = IF serves THEN Call!Credential("apiToken") ELSE None
      /\ s.unauthenticated <=> serves /\ cli.apiToken = Clear
      /\ s.allowRemote <=> serves /\ Call!Setting("allowRemote", FALSE)
  BY DEF Call!MonitorSettings
<1>2. /\ cli.probeToken = None /\ cli.insecureProbes = None
      /\ cli.warning = None /\ cli.critical = None
      /\ serves => cli.listen = None /\ cli.allowRemote = None
  BY DEF Plain, Call!Known, Call!Monitors
<1>3. /\ None \notin {"local", "remote"} /\ None # TRUE
      /\ None # [layer |-> Clear, form |-> Clear]
  BY ValuesDiffer
<1>4. ~Unused
  BY <1>2 DEF Unused
<1>5. /\ Call!Credential("probeToken") # Call!Conflict
      /\ Call!Credential("apiToken") # Call!Conflict
      /\ Call!Credential("apiToken") = None =>
           cli.apiToken = Clear \/ (cli.apiToken = None /\ chosen.apiToken = None)
  BY NoConflict DEF Call!Credentials
<1> HIDE DEF s, serves
<1>6. Agreed(s)
  BY <1>1, <1>3, <1>5 DEF Agreed, Call!Conflict
<1>7. ~Starts(s)
  BY <1>4, <1>6 DEF s
<1>8. Call!Sound(s.probeToken) /\ Call!Sound(s.apiToken)
  BY DEF Plain, Call!Sound
<1>9. Call!Ordered(s.warning, s.critical)
  <2>1. /\ s.warning = Call!Or(chosen.warning, 90) /\ s.critical = Call!Or(chosen.critical, 99)
    BY <1>1, <1>2 DEF Call!Setting, Call!Or, Call!MergedDefault
  <2>2. /\ Call!Ordered(Call!Or(chosen.warning, 90), Call!Or(chosen.critical, 99))
    BY DEF Call!ValidProfile, Call!ProfileDefault
  <2> QED BY <2>1, <2>2
<1>10. serves
  BY <1>1, <1>3, <1>7, <1>8, <1>9 DEF Starts, Call!ValidArgs
<1>11. s.listen = Call!Or(chosen.listen, "local")
  BY <1>1, <1>2, <1>10 DEF Call!Setting, Call!Or
<1>12. s.listen = "remote" => chosen.listen = "remote" /\ s.allowRemote
  <2> SUFFICES ASSUME s.listen = "remote"
               PROVE  chosen.listen = "remote" /\ s.allowRemote
    OBVIOUS
  <2>1. chosen.listen = "remote"
    BY <1>11 DEF Call!Or
  <2>2. chosen.allowRemote = TRUE
    BY <2>1 DEF Call!ValidProfile
  <2>3. Call!Setting("allowRemote", FALSE) = TRUE
    BY <1>2, <1>3, <1>10, <2>2 DEF Call!Setting, Call!Or
  <2> QED BY <1>1, <1>10, <2>1, <2>3
<1>13. ~(s.listen = "remote" => s.allowRemote /\ s.apiToken # None)
       \/ ~(s.listen = "local" => s.apiToken # None \/ s.unauthenticated)
  BY <1>7, <1>8, <1>9 DEF Starts, Call!ValidArgs
<1>14. s.apiToken = None /\ (s.listen = "remote" \/ ~s.unauthenticated)
  BY <1>12, <1>13
<1>15. CASE cli.apiToken = Clear
  <2>1. s.unauthenticated
    BY <1>1, <1>10, <1>15
  <2> QED BY <1>10, <1>12, <1>14, <1>15, <2>1 DEF serves
<1>16. CASE cli.apiToken # Clear
  BY <1>1, <1>5, <1>10, <1>14, <1>16 DEF serves
<1> QED BY <1>15, <1>16

\* And what a request is.
LEMMA ActiveRefused ==
  ASSUME Call!SettingsAssumption, AskedInv, Plain, Call!ValidProfile(chosen),
         command \in Call!Actives,
         ~Resolves(Call!ActiveSettings) \/ ~Call!Admissible(Call!ActiveSettings)
  PROVE  None = cli.model /\ None = chosen.model
<1> DEFINE s == Call!ActiveSettings
<1>1. /\ s.prompt = Call!Prompt /\ s.workload = Call!WorkloadId
      /\ s.key = Call!Credential("key")
      /\ s.url = Call!Setting("url", "local") /\ s.model = Call!Setting("model", None)
      /\ s.insecure = Call!Setting("insecure", FALSE)
      /\ s.stream = Call!Setting("stream", TRUE)
      /\ s.maxTtft = IF command = "benchmark" \/ cli.stream = FALSE THEN None
                     ELSE Call!Clearable("maxTtft")
      /\ s.count = IF command = "benchmark" THEN 1
                   ELSE Call!Setting("count", Call!MergedDefault.count)
      /\ s.concurrency = IF command = "benchmark" THEN 1
                         ELSE Call!Setting("concurrency", Call!MergedDefault.concurrency)
  BY ActiveFields
<1> HIDE DEF s
<1>2. /\ cli.prompt = None /\ cli.workload = None /\ cli.url = None /\ cli.insecure = None
      /\ command = "canary" => cli.maxTtft = None /\ cli.count = None /\ cli.concurrency = None
      /\ command \in {"canary", "benchmark"}
  BY DEF Plain, Call!Known, Call!Actives
<1>3. /\ Clear # None /\ BuiltIn # Clear /\ None \notin {"local", "remote"} /\ None # TRUE
      /\ BuiltIn # [layer |-> "profile", form |-> "prompt"]
  BY ValuesDiffer
<1>4. Call!Sound(s.prompt) /\ Call!Sound(s.key)
  BY DEF Plain, Call!Sound
<1>5. s.key # Call!Conflict
  BY <1>1, NoConflict DEF Call!Credentials
<1>6. s.workload # Clear
  <2>1. chosen.workload # Clear
    BY DEF AskedInv, Call!ProfileTyped
  <2>2. (chosen.prompt = None) <=> (chosen.workload = None)
    BY DEF Call!ValidProfile
  <2>3. ~Call!CustomOnCli
    BY <1>2, <1>3 DEF Call!CustomOnCli, Call!SettingsAssumption
  <2>4. CASE chosen.prompt = None
    <3>1. Call!Prompt = BuiltIn
      BY <1>2, <1>3, <2>4 DEF Call!Prompt
    <3> QED BY <1>1, <1>2, <1>3, <3>1 DEF Call!WorkloadId
  <2>5. CASE chosen.prompt # None
    <3>1. Call!Prompt # BuiltIn
      BY <1>2, <1>3, <2>5 DEF Call!Prompt
    <3>2. Call!WorkloadId = chosen.workload
      BY <1>2, <2>2, <2>3, <2>5, <3>1 DEF Call!WorkloadId, Call!Or
    <3> QED BY <1>1, <2>1, <3>2
  <2> QED BY <2>4, <2>5
<1>7. s.concurrency <= s.count
  <2>1. CASE command = "benchmark"
    BY <1>1, <2>1
  <2>2. CASE command = "canary"
    <3>1. s.count = Call!Or(chosen.count, 1) /\ s.concurrency = Call!Or(chosen.concurrency, 1)
      BY <1>1, <1>2, <2>2 DEF Call!Setting, Call!Or, Call!MergedDefault
    <3>2. Call!Or(chosen.concurrency, 1) <= Call!Or(chosen.count, 1)
      BY DEF Call!ValidProfile, Call!ProfileDefault
    <3> QED BY <3>1, <3>2
  <2> QED BY <1>2, <2>1, <2>2
<1>8. s.stream = FALSE => s.maxTtft = None
  <2> SUFFICES ASSUME s.stream = FALSE, command = "canary", cli.stream # FALSE
               PROVE  s.maxTtft = None
    BY <1>1, <1>2
  <2>1. chosen.stream = FALSE
    BY <1>1 DEF Call!Setting, Call!Or
  <2>2. chosen.maxTtft = None
    BY <2>1 DEF Call!ValidProfile
  <2> QED BY <1>1, <1>2, <1>3, <2>2 DEF Call!Clearable, Call!Or
<1>9. s.url = "remote" => s.insecure
  <2> SUFFICES ASSUME s.url = "remote"
               PROVE  s.insecure
    OBVIOUS
  <2>1. chosen.url = "remote"
    BY <1>1, <1>2 DEF Call!Setting, Call!Or
  <2>2. chosen.insecure = TRUE
    BY <2>1 DEF Call!ValidProfile
  <2>3. s.insecure = TRUE
    BY <1>1, <1>2, <1>3, <2>2 DEF Call!Setting, Call!Or
  <2> QED BY <2>3
<1>10. Call!Admissible(s)
  BY <1>7, <1>8, <1>9 DEF Call!Admissible
<1>11. s.model = None
  BY <1>4, <1>5, <1>6, <1>10 DEF Resolves, s
<1> QED BY <1>1, <1>11 DEF Call!Setting, Call!Or

\* The parts together.
LEMMA SettingsAreExact ==
  ASSUME Call!SettingsAssumption, SettingsInv
  PROVE  Call!SettingsSound
<1>1. AskedInv
  BY DEF SettingsInv
<1>2. Call!RefusedForCause
  <2> SUFFICES ASSUME phase = "refused", Plain, Call!Dispatched
               PROVE  \/ command = "serve" /\ cli.apiToken = None /\ chosen.apiToken = None
                      \/ command = "serve" /\ cli.apiToken = Clear /\ chosen.listen = "remote"
                      \/ command \in Call!Actives /\ None = cli.model /\ None = chosen.model
    BY DEF Call!RefusedForCause, Plain
  <2>1. /\ Call!ValidProfile(chosen)
        /\ \/ /\ command \in Call!Monitors
              /\ Unused \/ ~Agreed(Call!MonitorSettings) \/ ~Starts(Call!MonitorSettings)
           \/ /\ command \in Call!Actives
              /\ ~Resolves(Call!ActiveSettings) \/ ~Call!Admissible(Call!ActiveSettings)
    BY DEF SettingsInv, RefusedInv
  <2> QED BY <1>1, <2>1, MonitorRefused, ActiveRefused
<1>3. ASSUME phase = "started", Call!Aware
      PROVE  /\ \A o \in Call!Used : Call!CredentialNearest(o)
             /\ Call!ExposureExplicit /\ Call!PromptCoherent
             /\ command \in Call!Monitors => settings.warning < settings.critical
             /\ \A o \in (Call!Known \cap DOMAIN settings) \ Call!Credentials :
                  cli[o] \notin {None, Clear} /\ o # "prompt" => settings[o] = cli[o]
  <2>1. CASE command \in Call!Monitors
    BY <1>3, <2>1, MonitorStarted
  <2>2. CASE command \in Call!Actives
    <3>1. command \notin Call!Monitors
      BY <2>2 DEF Call!Monitors, Call!Actives
    <3> QED BY <1>3, <2>2, <3>1, ActiveStarted
  <2> QED BY <1>3, <2>1, <2>2 DEF Call!Aware
<1> QED BY <1>2, <1>3 DEF Call!SettingsSound

\* Settings.SettingsSound for any documents, profiles, command lines and
\* environments (config/validation.rs and application/mod.rs): what a command
\* starts with is what its layers say, and what is refused has a cause.
THEOREM SettingsAlwaysSound ==
  ASSUME Call!SettingsAssumption
  PROVE  Call!Spec => []Call!SettingsSound
<1>1. Call!Init => SettingsInv
  BY SettingsInitially
<1>2. SettingsInv /\ [Call!Next]_(Call!vars) => SettingsInv'
  BY SettingsStep
<1>3. SettingsInv => Call!SettingsSound
  BY SettingsAreExact
<1> QED BY <1>1, <1>2, <1>3, PTL DEF Call!Spec

=============================================================================
