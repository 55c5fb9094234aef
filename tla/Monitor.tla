------------------------------- MODULE Monitor -------------------------------
(***************************************************************************)
(* The snapshot and continuous-monitor lifecycle, run of                   *)
(* src/application/monitor.rs, with the history file it appends to         *)
(* (src/operations/history.rs: append) and the service manager that starts *)
(* it again after a failure (packaging/systemd).                           *)
(*                                                                         *)
(* The signal handler, the disk and the reader of stdout act between any   *)
(* two steps.  A cycle's outcome is a report, a record of the GPUs and the *)
(* findings it holds and of whether a required source failed, or an error. *)
(***************************************************************************)
EXTENDS Integers, Sequences, FiniteSets, SequencesExt

CONSTANTS Arguments,  \* MonitorArgs: sets of records, see ArgumentsAssumption
          Reports,    \* what collect_cycle may return
          Errors,     \* what it may fail with
          Host,       \* the GPU index of findings about the host
          Slices,     \* the interval in slices of interruptible_wait
          Cap,        \* 30 s in those slices
          MaxCycles,  \* bound on the cycles of a process (model bound)
          MaxStarts,  \* bound on the starts by the service manager (model bound)
          Garbage,    \* a line of the history file that holds no record
          None

Severities == {"info", "warning", "critical"}

\* validate_args and the dispatcher: --listen implies an interval, --quiet a
\* history file or a listener.
ArgumentsAssumption ==
  \A a \in Arguments :
    /\ a.interval \in BOOLEAN /\ a.listen \in BOOLEAN /\ a.history \in BOOLEAN
    /\ a.quiet \in BOOLEAN /\ a.failOn \in {"never", "warning", "critical"}
    /\ a.listen => a.interval
    /\ a.quiet => a.history \/ a.listen

\* A report is a record, its findings are about its GPUs or the host; what a
\* selection leaves of it is still a report, and no error is "no error".
ReportsAssumption ==
  \A r \in Reports :
    /\ r = [gpus |-> r.gpus, findings |-> r.findings, sourceFailed |-> r.sourceFailed]
    /\ \A f \in r.findings : f[1] \in r.gpus \cup {Host} /\ f[2] \in Severities
    /\ \A g \in SUBSET r.gpus, s \in SUBSET r.findings :
         [r EXCEPT !.gpus = g, !.findings = s] \notin {None, Garbage}

ASSUME MonitorAssumption ==
  /\ ArgumentsAssumption /\ ReportsAssumption
  /\ None \notin Errors \cup {Garbage, 0, 1, 2, 137}
  /\ Slices \in Nat \ {0} /\ Cap \in Nat /\ MaxCycles \in Nat /\ MaxStarts \in Nat

VARIABLES
  args,        \* the arguments
  pc,          \* where run is
  running,     \* the flag the signal handler clears
  report,      \* the report of the cycle at work, or None
  streak, lastError, repeated,  \* failure_streak, last_error, repeated_error
  told,        \* the error stderr last named since the last success, or None
  wait,        \* what interruptible_wait has left
  late,        \* the slices it has slept to their end after a signal (observed)
  published,   \* the exporter's report, or None
  lines,       \* the history file: a report, or Garbage, per line
  torn,        \* it ends in a record without its newline
  printed,     \* the last report on stdout, or None
  exit,        \* the exit code, or None
  cycles, starts  \* cycles of this process, starts of a process

errorVars == <<streak, lastError, repeated, told>>
waitVars == <<wait, late>>
sinkVars == <<published, lines, torn, printed>>
vars == <<args, pc, running, report, errorVars, waitVars, sinkVars, exit, cycles, starts>>

\* run, up to its loop.
Init ==
  /\ args \in Arguments
  /\ pc = "loop" /\ running = TRUE /\ report = None
  /\ streak = 0 /\ lastError = None /\ repeated = 0 /\ told = None
  /\ wait = 0 /\ late = 0 /\ published = None /\ printed = None /\ exit = None /\ cycles = 0
  /\ lines = <<>> /\ torn = FALSE /\ starts = 1

Exit(code) == exit' = code /\ pc' = "done"

-----------------------------------------------------------------------------
(* One cycle.                                                              *)

LoopStops ==
  /\ pc = "loop" /\ ~running
  /\ Exit(0)
  /\ UNCHANGED <<args, running, report, errorVars, waitVars, sinkVars, cycles, starts>>

LoopCollects ==
  /\ pc = "loop" /\ running /\ cycles < MaxCycles
  /\ cycles' = cycles + 1 /\ pc' = "collect"
  /\ UNCHANGED <<args, running, report, errorVars, waitVars, sinkVars, exit, starts>>

Matched(r) == args.gpus \subseteq r.gpus

\* filter_gpus: no selection, or the selected GPUs and the findings on them
\* and on the host.
Filtered(r) ==
  IF args.gpus = {} THEN r
  ELSE [r EXCEPT !.gpus = @ \cap args.gpus,
                 !.findings = {f \in r.findings : f[1] \in args.gpus \cup {Host}}]

\* Seeded fault: a selector that matches nothing is accepted.
CollectUnchecked(r) ==
  /\ pc = "collect"
  /\ streak' = 0 /\ lastError' = None /\ repeated' = 0 /\ told' = None
  /\ report' = Filtered(r) /\ pc' = "publish"
  /\ UNCHANGED <<args, running, waitVars, sinkVars, exit, cycles, starts>>
\* collect_cycle returned a report.  The streak is over, also when the
\* selection then fails.
Collect(r) ==
  /\ pc = "collect"
  /\ streak' = 0 /\ lastError' = None /\ repeated' = 0 /\ told' = None
  /\ IF Matched(r) THEN report' = Filtered(r) /\ pc' = "publish" /\ UNCHANGED exit
                   ELSE Exit(1) /\ UNCHANGED report
  /\ UNCHANGED <<args, running, waitVars, sinkVars, cycles, starts>>

PowerOfTwo(n) == \E k \in 0..n : n = 2^k

\* Seeded fault: within a streak only repetitions are told.
CollectFailsSilently(error) ==
  /\ pc = "collect" /\ args.interval
  /\ streak' = streak + 1
  /\ lastError' = error
  /\ repeated' = IF error = lastError THEN repeated + 1 ELSE 0
  /\ told' = IF lastError = None \/ PowerOfTwo(repeated') THEN error ELSE told
  /\ pc' = "delay"
  /\ UNCHANGED <<args, running, report, waitVars, sinkVars, exit, cycles, starts>>
\* It failed: a snapshot ends with the error, a monitor counts it and says so
\* when the message is new or has come back a power of two times.
CollectFails(error) ==
  /\ pc = "collect" /\ args.interval
  /\ streak' = streak + 1
  /\ lastError' = error
  /\ repeated' = IF error = lastError THEN repeated + 1 ELSE 0
  /\ told' = IF error = lastError /\ ~PowerOfTwo(repeated + 1) THEN told ELSE error
  /\ pc' = "delay"
  /\ UNCHANGED <<args, running, report, waitVars, sinkVars, exit, cycles, starts>>

SnapshotFails ==
  /\ pc = "collect" /\ ~args.interval
  /\ Exit(1)
  /\ UNCHANGED <<args, running, report, errorVars, waitVars, sinkVars, cycles, starts>>

\* Exporter::set_report.
Publish ==
  /\ pc = "publish"
  /\ IF args.listen THEN published' = report ELSE UNCHANGED published
  /\ pc' = IF args.history THEN "append" ELSE "print"
  /\ UNCHANGED <<args, running, report, errorVars, waitVars, lines, torn, printed, exit,
                 cycles, starts>>

\* history::append writes the record and its newline; after a torn record
\* both share a line.
NewLines == Append(lines, IF torn THEN Garbage ELSE report)
AppendHistory ==
  /\ pc = "append"
  /\ lines' = NewLines /\ torn' = FALSE
  /\ pc' = "print"
  /\ UNCHANGED <<args, running, report, errorVars, waitVars, published, printed, exit,
                 cycles, starts>>

\* The target was refused before the write, or the disk filled up during it.
AppendFails ==
  /\ pc = "append"
  /\ torn' \in {torn, TRUE}
  /\ Exit(1)
  /\ UNCHANGED <<args, running, report, errorVars, waitVars, published, lines, printed,
                 cycles, starts>>

PrintReport ==
  /\ pc = "print"
  /\ IF args.quiet THEN UNCHANGED printed ELSE printed' = report
  /\ pc' = "gate"
  /\ UNCHANGED <<args, running, report, errorVars, waitVars, published, lines, torn, exit,
                 cycles, starts>>

\* The reader of stdout is gone: a normal end; another error is not.
PrintFails ==
  /\ pc = "print" /\ ~args.quiet
  /\ (Exit(0) \/ Exit(1))
  /\ UNCHANGED <<args, running, report, errorVars, waitVars, sinkVars, cycles, starts>>

\* failed_threshold
Crossed(r) ==
  \E f \in r.findings :
    \/ f[2] = "critical" /\ args.failOn # "never"
    \/ f[2] = "warning" /\ args.failOn = "warning"

\* Seeded faults: the gate looks at critical findings only; it applies the
\* rule for snapshots to monitors too.
UnhealthyCriticalOnly(r) ==
  \/ ~args.interval /\ r.sourceFailed
  \/ Crossed(r) /\ \E f \in r.findings : f[2] = "critical"
UnhealthySource(r) == r.sourceFailed \/ Crossed(r)
Unhealthy(r) == (~args.interval /\ r.sourceFailed) \/ Crossed(r)

Gate ==
  /\ pc = "gate"
  /\ IF Unhealthy(report) THEN Exit(2)
     ELSE IF args.interval THEN pc' = "delay" /\ UNCHANGED exit
     ELSE Exit(0)
  /\ UNCHANGED <<args, running, report, errorVars, waitVars, sinkVars, cycles, starts>>

-----------------------------------------------------------------------------
(* Between two cycles.                                                     *)

Least(a, b) == IF a < b THEN a ELSE b
Greatest(a, b) == IF a > b THEN a ELSE b

\* retry_delay
Delay(n) ==
  IF n <= 1 THEN Slices
  ELSE Least(Slices * 2^(Least(n - 1, 5)), Greatest(Slices, Cap))

StartWait ==
  /\ pc = "delay"
  /\ wait' = Delay(streak) /\ pc' = "wait"
  /\ UNCHANGED <<late, args, running, report, errorVars, sinkVars, exit, cycles, starts>>

\* Seeded fault: the wait does not look at the signal.
WaitSliceDeaf ==
  /\ pc = "wait" /\ wait > 0
  /\ pc' = "sleep"
  /\ UNCHANGED <<args, running, report, errorVars, waitVars, sinkVars, exit, cycles, starts>>
\* interruptible_wait: a slice is only begun while no signal has come,
WaitSlice ==
  /\ pc = "wait" /\ wait > 0 /\ running
  /\ pc' = "sleep"
  /\ UNCHANGED <<args, running, report, errorVars, waitVars, sinkVars, exit, cycles, starts>>
\* and slept to its end.
Sleep ==
  /\ pc = "sleep"
  /\ wait' = wait - 1 /\ late' = IF running THEN late ELSE late + 1
  /\ pc' = "wait"
  /\ UNCHANGED <<args, running, report, errorVars, sinkVars, exit, cycles, starts>>
\* The wait is over, or the signal ends it.
WaitEnds ==
  /\ pc = "wait" /\ (wait = 0 \/ ~running)
  /\ pc' = "loop" /\ report' = None
  /\ UNCHANGED <<args, running, errorVars, waitVars, sinkVars, exit, cycles, starts>>

-----------------------------------------------------------------------------
(* The environment.                                                        *)

\* SIGINT or SIGTERM.
Signal ==
  /\ pc # "done" /\ running
  /\ running' = FALSE
  /\ UNCHANGED <<args, pc, report, errorVars, waitVars, sinkVars, exit, cycles, starts>>

\* SIGKILL or a power cut, possibly in the middle of a write.
Crash ==
  /\ pc # "done"
  /\ torn' \in {torn, pc = "append" \/ torn}
  /\ Exit(137)
  /\ UNCHANGED <<args, running, report, errorVars, waitVars, published, lines, printed,
                 cycles, starts>>

\* The service manager starts a failed process again (Restart=on-failure).
Restart ==
  /\ pc = "done" /\ exit # 0 /\ starts < MaxStarts
  /\ pc' = "loop" /\ running' = TRUE /\ report' = None
  /\ streak' = 0 /\ lastError' = None /\ repeated' = 0 /\ told' = None
  /\ wait' = 0 /\ late' = 0 /\ published' = None /\ printed' = None /\ exit' = None /\ cycles' = 0
  /\ starts' = starts + 1
  /\ UNCHANGED <<args, lines, torn>>

Step ==
  \/ LoopStops \/ LoopCollects \/ SnapshotFails \/ Publish \/ AppendHistory
  \/ AppendFails \/ PrintReport \/ PrintFails \/ Gate \/ StartWait
  \/ WaitSlice \/ Sleep \/ WaitEnds
  \/ \E r \in Reports : Collect(r)
  \/ \E error \in Errors : CollectFails(error)

Next == Step \/ Signal \/ Crash \/ Restart

Spec == Init /\ [][Next]_vars

\* The process runs; every command, probe and write of a cycle ends, the
\* first two because they have deadlines.
FairSpec == Spec /\ WF_vars(Step)

-----------------------------------------------------------------------------
(* Properties.                                                             *)

Newest == IF lines = <<>> THEN None ELSE lines[Len(lines)]

\* "Appends the same selected and finalized report used by stdout and the
\* exporter": when a cycle reaches its gate, every sink that is on has this
\* cycle's report, and the report holds selected GPUs only.  "Stale selectors
\* fail before output, history, or service state is updated": no sink ever
\* holds a report that lacks a selected GPU.
SinksAgree ==
  /\ pc = "gate" =>
       /\ args.listen => published = report
       /\ args.history => Newest \in {report, Garbage}
       /\ ~args.quiet => printed = report
       /\ args.gpus # {} =>
            /\ report.gpus = args.gpus
            /\ \A f \in report.findings : f[1] \in args.gpus \cup {Host}
  /\ \A r \in ({published, printed} \cup Range(lines)) \ {None, Garbage} :
       args.gpus \subseteq r.gpus

\* The exit code follows the policy: 2 exactly for a report that broke it,
\* after every sink that is on got the evidence; 0 only if the last report
\* passed, the reader of stdout left or a signal came.
ExitFollowsPolicy ==
  /\ exit = 2 => /\ report # None /\ Unhealthy(report)
                 /\ args.listen => published = report
                 /\ args.history => Newest \in {report, Garbage}
                 /\ ~args.quiet => printed = report
  /\ exit = 0 /\ running /\ (args.quiet \/ printed = report) =>
       /\ report # None
       /\ args.failOn # "never" => \A f \in report.findings : f[2] # "critical"
       /\ args.failOn = "warning" => \A f \in report.findings : f[2] = "info"
       /\ ~args.interval => ~report.sourceFailed

\* "Continuous workflows keep publishing the violation": a monitor that no
\* signal stops never ends for a failed collection or a failed required
\* source, only for a crossed threshold, a stale selector or a failed sink.
ContinuousKeepsGoing ==
  [][pc # "done" /\ pc' = "done" /\ args.interval /\ running /\ exit' # 137 =>
       \/ (pc = "gate" /\ Crossed(report))
       \/ pc \in {"append", "print"}
       \/ (pc = "collect" /\ args.gpus # {} /\ streak' = 0)]_vars

\* However rarely a persistent failure is repeated, stderr has named the
\* error the collection fails with now, and none after it has recovered; and
\* the wait is the interval after a success, else between it and the larger of
\* it and 30 s, and never shorter than before within a streak of failures.
FailureTold ==
  /\ told = lastError /\ (streak > 0 <=> told # None)
  /\ pc = "delay" /\ report # None => Delay(streak) = Slices
  /\ Delay(streak) \in Slices..Greatest(Slices, Cap)
  /\ streak > 0 => Delay(streak - 1) <= Delay(streak)

\* A signal ends the process, whatever it does, and of the wait between two
\* cycles it sees no more than the end of the slice it sleeps.
SignalEnds == ~running ~> (pc = "done" /\ late <= 1) \/ running

\* "--history produces one compact object per line": every line of the
\* history file is one record.
OneRecordPerLine == Garbage \notin Range(lines)

=============================================================================
