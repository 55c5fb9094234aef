----------------------------- MODULE Saturation -----------------------------
(***************************************************************************)
(* The saturation benchmark, src/operations/saturation.rs: admission of    *)
(* the plan, an excluded warmup and a measured stage at every concurrency, *)
(* the abort guard, the gates, the assessment and the verification of the  *)
(* report, and the reconstruction of a saved report from its attempts.     *)
(*                                                                         *)
(* A batch is one step: what execute_batch promises is checked on          *)
(* Workload, what a single attempt may be on Completion.  An attempt is    *)
(* its success, its time in ticks, its completion tokens (None when usage  *)
(* is missing or implausible) and whether its response broke off.  A p95   *)
(* latency gate stands for those on TTFT and on end-to-end time.  Rates    *)
(* are fractions, compared by multiplying crosswise.  Only the error       *)
(* percentages are compared bit by bit when a report is read back, and     *)
(* they are parsed without float_roundtrip (Cargo.toml): of each the model *)
(* keeps whether it still is the percentage of its counts.                 *)
(***************************************************************************)
EXTENDS Integers, Sequences, FiniteSets, FiniteSetsExt, SequencesExt

CONSTANTS Options,         \* SaturationOptions, see OptionsAssumption
          Outcomes,        \* attempts a request may end in
          Timeout,         \* of a request, in ticks
          MaxConcurrency, MaxAttempts, MaxWallTime,  \* admission limits
          MinimumSamples,  \* MINIMUM_LATENCY_SAMPLES
          Blurred,         \* <<failed, attempted>> whose percentage, once printed,
                           \* is parsed as another number
          None

\* max_p95, min_rps and min_goodput may be None; so may verify.
OptionsAssumption ==
  Options \subseteq
    [stages : Seq(Nat), warmup : Nat, requests : Nat, maxError : 0..100, abortError : 0..100,
     maxP95 : Nat \cup {None}, minRps : Nat \cup {None}, minGoodput : Nat \cup {None},
     verify : Nat \cup {None}]

ASSUME SaturationAssumption ==
  /\ OptionsAssumption
  /\ {Timeout, MinimumSamples} \subseteq Nat \ {0}
  /\ {MaxConcurrency, MaxAttempts, MaxWallTime} \subseteq Nat
  /\ Blurred \subseteq Nat \X Nat
  /\ Outcomes \subseteq [ok : BOOLEAN, time : 1..Timeout, tokens : Nat \cup {None},
                         cut : BOOLEAN]
  /\ \A o \in Outcomes : o.ok => ~o.cut
  /\ None \notin Nat \cup ({"warmup", "stage"} \X {"noSuccess", "errorRate"})

VARIABLES
  options,          \* the command line
  pc,               \* where run is
  warmups, stages,  \* execute_schedule's results so far
  abort,            \* abort_reason, or None
  report,           \* the SaturationBenchmarkReport, or None
  saved,            \* the report as it is read back later, or None
  sent, elapsed     \* requests sent and time spent on them

vars == <<options, pc, warmups, stages, abort, report, saved, sent, elapsed>>

-----------------------------------------------------------------------------
(* Admission: validate, before any request.                                *)

Total(numbers) == FoldLeft(+, 0, numbers)

\* Seeded fault: warmup requests are not counted.
PlannedMeasuredOnly(o) == Total(o.stages) * o.requests
Planned(o) == Total(o.stages) * (o.warmup + o.requests)

\* Request waves: one worker's requests one after the other.
Waves(o) == Len(o.stages) * (o.warmup + o.requests)

\* validate_schedule
ValidSchedule(o) ==
  /\ o.stages # <<>> /\ o.stages[1] = 1
  /\ \A i \in DOMAIN o.stages : o.stages[i] \in 1..MaxConcurrency
  /\ \A i, j \in DOMAIN o.stages : i < j => o.stages[i] < o.stages[j]
  /\ o.warmup > 0 /\ o.requests > 0
  /\ o.verify = None \/ \E i \in DOMAIN o.stages : o.verify = o.stages[i]

\* validate_thresholds
ValidThresholds(o) ==
  o.maxError < 100 /\ o.abortError > o.maxError /\ o.abortError <= 100

Valid(o) ==
  /\ ValidSchedule(o) /\ ValidThresholds(o)
  /\ Planned(o) <= MaxAttempts
  /\ Waves(o) * Timeout <= MaxWallTime

-----------------------------------------------------------------------------
(* What a phase shows.                                                     *)

Succeeded(attempts) == Cardinality({i \in DOMAIN attempts : attempts[i].ok})
Failed(attempts) == Len(attempts) - Succeeded(attempts)

\* Error percentages.
ErrorAbove(failed, attempted, percent) == 100 * failed > percent * attempted
ErrorReaches(failed, attempted, percent) == 100 * failed >= percent * attempted

\* Seeded fault: the limit itself does not abort.
AbortReasonAbove(phase, succeeded, attempted, percent) ==
  IF succeeded = 0 THEN <<phase, "noSuccess">>
  ELSE IF ErrorAbove(attempted - succeeded, attempted, percent) THEN <<phase, "errorRate">>
  ELSE None
\* warmup_abort_reason, stage_abort_reason
AbortReason(phase, succeeded, attempted, percent) ==
  IF succeeded = 0 THEN <<phase, "noSuccess">>
  ELSE IF ErrorReaches(attempted - succeeded, attempted, percent) THEN <<phase, "errorRate">>
  ELSE None

\* distribution and nearest_rank over the successful attempts.
Times(attempts) == {attempts[i].time : i \in {j \in DOMAIN attempts : attempts[j].ok}}
P95(attempts) ==
  LET rank == (95 * Succeeded(attempts) + 99) \div 100
      upTo(t) == Cardinality({i \in DOMAIN attempts : attempts[i].ok /\ attempts[i].time <= t})
  IN  Min({t \in Times(attempts) : upTo(t) >= rank})

TokensOf(attempts) ==
  Total([i \in DOMAIN attempts |->
           IF attempts[i].ok /\ attempts[i].tokens # None THEN attempts[i].tokens ELSE 0])
UsageComplete(attempts) ==
  Succeeded(attempts) > 0 /\ \A i \in DOMAIN attempts : attempts[i].ok => attempts[i].tokens # None

\* summarize_stage: what the gates and the assessment read.  exact is whether
\* error_percent is the percentage of these counts.
Summary(attempts, duration) ==
  [attempted |-> Len(attempts), succeeded |-> Succeeded(attempts), duration |-> duration,
   exact |-> TRUE,
   p95 |-> IF Succeeded(attempts) = 0 THEN None ELSE P95(attempts),
   usageComplete |-> UsageComplete(attempts), tokens |-> TokensOf(attempts)]

PassIf(condition) == IF condition THEN "pass" ELSE "fail"

\* canonical_gates and latency_gate, the selected gates only.
Gates(s, o) ==
  [successful |-> PassIf(s.succeeded > 0),
   error |-> PassIf(~ErrorAbove(s.attempted - s.succeeded, s.attempted, o.maxError)),
   p95 |-> IF o.maxP95 = None THEN "pass"
           ELSE IF s.succeeded < MinimumSamples THEN "notEvaluable"
           ELSE PassIf(s.p95 <= o.maxP95),
   rps |-> IF o.minRps = None THEN "pass"
           ELSE PassIf(s.succeeded >= o.minRps * s.duration),
   goodput |-> IF o.minGoodput = None THEN "pass"
               ELSE IF ~s.usageComplete THEN "notEvaluable"
               ELSE PassIf(s.tokens >= o.minGoodput * s.duration)]

Statuses(stage) == {stage.gates[g] : g \in DOMAIN stage.gates}
Passes(stage) == Statuses(stage) = {"pass"}

\* Seeded fault: missing evidence counts as a pass.
VerifyLenient(requested, reached) ==
  IF requested = None THEN "notRequested"
  ELSE IF \A i \in DOMAIN reached : reached[i].concurrency # requested THEN "notEvaluable"
  ELSE LET stage == reached[CHOOSE i \in DOMAIN reached : reached[i].concurrency = requested]
       IN  IF "fail" \in Statuses(stage) THEN "fail" ELSE "pass"
\* verify
Verify(requested, reached) ==
  IF requested = None THEN "notRequested"
  ELSE IF \A i \in DOMAIN reached : reached[i].concurrency # requested THEN "notEvaluable"
  ELSE LET stage == reached[CHOOSE i \in DOMAIN reached : reached[i].concurrency = requested]
       IN  IF "fail" \in Statuses(stage) THEN "fail"
           ELSE IF "notEvaluable" \in Statuses(stage) THEN "notEvaluable" ELSE "pass"

-----------------------------------------------------------------------------
(* The assessment of adjacent stages.                                      *)

\* At most 5 % of the added concurrency shows as successful requests; the
\* earlier stage had some, or the run had ended with it.
Plateau(earlier, later) ==
  LET e == earlier.summary
      l == later.summary
      gain == l.succeeded * e.duration - e.succeeded * l.duration
  IN  100 * gain * earlier.concurrency
        <= 5 * (later.concurrency - earlier.concurrency) * e.succeeded * l.duration

InflationKnown(earlier, later) ==
  /\ earlier.summary.succeeded >= MinimumSamples
  /\ later.summary.succeeded >= MinimumSamples
Inflated(earlier, later) ==
  /\ InflationKnown(earlier, later)
  /\ 100 * (later.summary.p95 - earlier.summary.p95) >= 20 * earlier.summary.p95

ErrorExcess(stage, o) ==
  ErrorAbove(stage.summary.attempted - stage.summary.succeeded, stage.summary.attempted,
             o.maxError)

\* The body of assess's loop, for one pair.
Signal(earlier, later, o) ==
  IF ~Plateau(earlier, later) THEN "none"
  ELSE IF ErrorExcess(later, o) THEN "errors"
  ELSE IF Inflated(earlier, later) THEN "latency"
  ELSE IF InflationKnown(earlier, later) THEN "none" ELSE "gap"

\* assess and highest_accepted_concurrency
Assess(reached, o) ==
  LET pairs == 2..Len(reached)
      signal(i) == Signal(reached[i - 1], reached[i], o)
      signals == {i \in pairs : signal(i) \in {"errors", "latency"}}
      accepted == {reached[i].concurrency : i \in {j \in DOMAIN reached : Passes(reached[j])}}
  IN  [status |-> IF signals # {} THEN "signalObserved"
                  ELSE IF pairs = {} \/ \E i \in pairs : signal(i) = "gap" THEN "notEvaluable"
                  ELSE "noSignal",
       first |-> IF signals = {} THEN None ELSE reached[Min(signals)].concurrency,
       highest |-> IF accepted = {} THEN None ELSE Max(accepted)]

-----------------------------------------------------------------------------
(* run                                                                     *)

Init ==
  /\ options \in Options
  /\ pc = "validate"
  /\ warmups = <<>> /\ stages = <<>> /\ abort = None
  /\ report = None /\ saved = None /\ sent = 0 /\ elapsed = 0

Refuse ==
  /\ pc = "validate" /\ ~Valid(options)
  /\ pc' = "refused"
  /\ UNCHANGED <<options, warmups, stages, abort, report, saved, sent, elapsed>>

Admit ==
  /\ pc = "validate" /\ Valid(options)
  /\ pc' = "warmup"
  /\ UNCHANGED <<options, warmups, stages, abort, report, saved, sent, elapsed>>

Concurrency == options.stages[Len(stages) + 1]

AfterWarmup(reason) == IF reason # None THEN "report" ELSE "measure"

\* execute_warmup: its attempts are counted, no more.
Warmup(succeeded, duration) ==
  LET attempted == Concurrency * options.warmup
      reason == AbortReason("warmup", succeeded, attempted, options.abortError)
  IN  /\ pc = "warmup" /\ succeeded <= attempted
      /\ duration \in 1..(options.warmup * Timeout)
      /\ warmups' = Append(warmups, [concurrency |-> Concurrency, attempted |-> attempted,
                                     succeeded |-> succeeded, exact |-> TRUE,
                                     aborted |-> reason # None])
      /\ abort' = reason
      /\ pc' = AfterWarmup(reason)
      /\ sent' = sent + attempted /\ elapsed' = elapsed + duration
      /\ UNCHANGED <<options, stages, report, saved>>

\* Worker w of the stage runs its requests one after the other.
WorkerTime(attempts, w) ==
  Total([i \in 1..options.requests |-> attempts[(w - 1) * options.requests + i].time])
LongestWorker(attempts) ==
  Max({WorkerTime(attempts, w) : w \in 1..(Len(attempts) \div options.requests)})

StageOf(concurrency, attempts, duration, o) ==
  [concurrency |-> concurrency, attempts |-> attempts,
   summary |-> Summary(attempts, duration), gates |-> Gates(Summary(attempts, duration), o)]

\* The measured batch and the guard after it.
Measure(attempts) ==
  LET duration == LongestWorker(attempts)
      reason == AbortReason("stage", Succeeded(attempts), Len(attempts), options.abortError)
  IN  /\ pc = "measure" /\ Len(attempts) = Concurrency * options.requests
      /\ stages' = Append(stages, StageOf(Concurrency, attempts, duration, options))
      /\ abort' = reason
      /\ pc' = IF reason # None \/ Len(stages') = Len(options.stages)
               THEN "report" ELSE "warmup"
      /\ sent' = sent + Len(attempts) /\ elapsed' = elapsed + duration
      /\ UNCHANGED <<options, warmups, report, saved>>

\* execute_batch could not create its workers: no report.
BatchFails ==
  /\ pc \in {"warmup", "measure"}
  /\ pc' = "failed"
  /\ UNCHANGED <<options, warmups, stages, abort, report, saved, sent, elapsed>>

\* serde_json's reading of a percentage of a warmup or a summary, and of the
\* report with all of them.
ParsedOff(counts) == <<counts.attempted - counts.succeeded, counts.attempted>> \in Blurred
ReadWarmup(w) == IF ParsedOff(w) THEN [w EXCEPT !.exact = FALSE] ELSE w
ReadStage(s) == IF ParsedOff(s.summary) THEN [s EXCEPT !.summary.exact = FALSE] ELSE s
ReadBack(r) ==
  [r EXCEPT !.warmups = [i \in DOMAIN r.warmups |-> ReadWarmup(r.warmups[i])],
            !.stages = [i \in DOMAIN r.stages |-> ReadStage(r.stages[i])]]

Report ==
  /\ pc = "report"
  /\ report' = [status |-> IF abort = None THEN "complete" ELSE "aborted", abort |-> abort,
                duration |-> elapsed, warmups |-> warmups, stages |-> stages,
                assessment |-> Assess(stages, options),
                verification |-> Verify(options.verify, stages)]
  /\ pc' = "saved" /\ saved' = ReadBack(report')
  /\ UNCHANGED <<options, warmups, stages, abort, sent, elapsed>>

\* emit_saturation_benchmark
ExitCode(r) ==
  IF r.status = "aborted" \/ r.verification \in {"fail", "notEvaluable"} THEN 2 ELSE 0

-----------------------------------------------------------------------------
(* The saved report, in the hands of others.                               *)

\* The last measured stage is lost, or with it its warmup; the end of the run
\* is reported wrong; a failed attempt becomes a success, or a summary that
\* of another stage.
LostStage(r) == [r EXCEPT !.stages = Front(@)]
LostLevel(r) == [r EXCEPT !.stages = Front(@), !.warmups = Front(@)]
Flipped(r, i) == [r EXCEPT !.stages[Len(r.stages)].attempts[i].ok = ~@]
Stale(r, i, j) == [r EXCEPT !.stages[i].summary = r.stages[j].summary]
EndsAs(r, status, reason) == [r EXCEPT !.status = status, !.abort = reason]
Damages(r) ==
  LET n == Len(r.stages)
      last == IF n = 0 THEN {}
              ELSE {LostStage(r), LostLevel(r)}
                   \cup {Flipped(r, i) : i \in DOMAIN r.stages[n].attempts}
  IN  (last \cup {Stale(r, i, j) : i, j \in 1..n}
       \cup {EndsAs(r, "complete", r.abort), EndsAs(r, r.status, None),
             EndsAs(r, "complete", None)}) \ {r}

Damage ==
  /\ pc = "saved" /\ saved = ReadBack(report)
  /\ \E damaged \in Damages(report) : saved' = ReadBack(damaged)
  /\ UNCHANGED <<options, pc, warmups, stages, abort, report, sent, elapsed>>

\* Seeded fault: the phases are checked, but not that they are the plan's.
ReachedAnyPrefix(r) == r.abort = None \/ r.status = "aborted"
\* validate_saved_schedule: the phases are the plan's up to the first that
\* aborts, and status and reason say so.
ReachedPrefix(r) ==
  LET warmupReason(i) == AbortReason("warmup", r.warmups[i].succeeded,
                                     r.warmups[i].attempted, options.abortError)
      stageReason(i) == AbortReason("stage", r.stages[i].summary.succeeded,
                                    r.stages[i].summary.attempted, options.abortError)
      ends(w, s, reason) ==
        /\ Len(r.warmups) = w /\ Len(r.stages) = s /\ r.abort = reason
        /\ r.status = IF reason = None THEN "complete" ELSE "aborted"
      n == Len(options.stages)
  IN  /\ Len(r.warmups) \in {Len(r.stages), Len(r.stages) + 1} /\ Len(r.warmups) \in 1..n
      /\ \A i \in DOMAIN r.warmups : r.warmups[i].aborted <=> warmupReason(i) # None
      /\ IF \E i \in DOMAIN r.warmups : warmupReason(i) # None
         THEN LET i == Min({j \in DOMAIN r.warmups : warmupReason(j) # None})
              IN  ends(i, i - 1, warmupReason(i))
         ELSE IF \E i \in DOMAIN r.stages : stageReason(i) # None
         THEN LET i == Min({j \in DOMAIN r.stages : stageReason(j) # None})
              IN  ends(i, i, stageReason(i))
         ELSE ends(n, n, None)

\* validate_saved_warmup
WarmupCanonical(w, i) ==
  /\ w.concurrency = options.stages[i]
  /\ w.attempted = w.concurrency * options.warmup /\ w.succeeded <= w.attempted
  /\ w.exact

\* validate_worker_duration_lower_bound
LowerBound(attempts) == LongestWorker(attempts)

\* validate_saved_stage; no attempt that broke off is canonical, see Completion.
StageCanonical(s, i) ==
  /\ s.concurrency = options.stages[i]
  /\ Len(s.attempts) = s.concurrency * options.requests
  /\ LowerBound(s.attempts) <= s.summary.duration
  /\ \A k \in DOMAIN s.attempts : ~s.attempts[k].cut
  /\ s = StageOf(s.concurrency, s.attempts, s.summary.duration, options)

\* validate_report_semantics
Accepts(r) ==
  /\ Valid(options)
  /\ ReachedPrefix(r)
  /\ \A i \in DOMAIN r.warmups : WarmupCanonical(r.warmups[i], i)
  /\ \A i \in DOMAIN r.stages : StageCanonical(r.stages[i], i)
  /\ r.assessment = Assess(r.stages, options)
  /\ r.verification = Verify(options.verify, r.stages)

-----------------------------------------------------------------------------

\* The process has ended.
Ended == pc \in {"saved", "refused", "failed"} /\ UNCHANGED vars

Attempts(n) == [1..n -> Outcomes]

Next ==
  \/ Refuse \/ Admit \/ BatchFails \/ Report \/ Damage \/ Ended
  \/ pc = "warmup" /\ \E succeeded \in 0..(Concurrency * options.warmup),
                         duration \in 1..(options.warmup * Timeout) :
                       Warmup(succeeded, duration)
  \/ pc = "measure" /\ \E attempts \in Attempts(Concurrency * options.requests) :
                         Measure(attempts)

Spec == Init /\ [][Next]_vars

-----------------------------------------------------------------------------
(* Properties.                                                             *)

\* "The complete plan is capped": a refused plan sends nothing, an admitted
\* one never more requests than the cap allows nor for longer than "30 minutes
\* of worst-case sequential request waves", and a complete run sends exactly
\* what the stages say.
TrafficBounded ==
  /\ pc = "refused" => sent = 0
  /\ sent <= MaxAttempts /\ elapsed <= MaxWallTime
  /\ report # None /\ report.status = "complete" =>
       sent = Total(options.stages) * (options.warmup + options.requests)

\* The guard holds: traffic is sent only while every phase before it had a
\* success and an error percentage below the limit.
AbortStopsTraffic ==
  [][sent' > sent =>
       /\ \A i \in DOMAIN warmups :
            /\ warmups[i].succeeded > 0
            /\ 100 * (warmups[i].attempted - warmups[i].succeeded)
                 < options.abortError * warmups[i].attempted
       /\ \A i \in DOMAIN stages :
            /\ stages[i].summary.succeeded > 0
            /\ 100 * Failed(stages[i].attempts)
                 < options.abortError * Len(stages[i].attempts)]_vars

\* A verdict is earned.  Exit 0 after a verification vouches for the stage:
\* the run completed, every gate of the stage passed on sufficient evidence,
\* and the highest accepted concurrency is not below it.  A stage that made the
\* run abort is neither accepted nor verified, for the guard lies above the
\* error gate; one without any success is a signal of saturation, there or in
\* a stage before it.
VerdictEarned ==
  report # None =>
    LET last == report.stages[Len(report.stages)].concurrency
    IN  /\ report.abort # None /\ report.abort[1] = "stage" =>
             /\ report.assessment.highest # last
             /\ options.verify = last => report.verification = "fail"
        /\ report.abort = <<"stage", "noSuccess">> /\ Len(report.stages) >= 2 =>
             /\ report.assessment.status = "signalObserved"
             /\ report.assessment.first <= last
        /\ options.verify # None /\ ExitCode(report) = 0 =>
             /\ Len(report.stages) = Len(options.stages)
             /\ report.assessment.highest # None /\ report.assessment.highest >= options.verify
             /\ \A i \in DOMAIN report.stages :
                  LET s == report.stages[i].summary
                  IN  report.stages[i].concurrency = options.verify =>
                        /\ options.maxP95 # None => s.succeeded >= MinimumSamples
                        /\ options.minGoodput # None => s.usageComplete

\* "Internal reconstruction detects inconsistent evidence": the offline rules
\* accept the report the benchmark wrote, unless a measured response broke
\* off or an error percentage is not parsed as it was printed, and none that
\* lost its end or has stale or edited evidence.
BrokeOff(r) ==
  \E i \in DOMAIN r.stages : \E k \in DOMAIN r.stages[i].attempts : r.stages[i].attempts[k].cut
Distorted(r) ==
  \/ \E i \in DOMAIN r.warmups : ParsedOff(r.warmups[i])
  \/ \E i \in DOMAIN r.stages : ParsedOff(r.stages[i].summary)
ReconstructionExact ==
  saved # None =>
    (Accepts(saved) <=> saved = ReadBack(report) /\ ~BrokeOff(report) /\ ~Distorted(report))
=============================================================================
