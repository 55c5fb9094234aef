------------------------------- MODULE Canary -------------------------------
(***************************************************************************)
(* The inference canary, src/operations/canary.rs: admission of a plan,    *)
(* one batch of requests, the summary, the gates and the report, with the  *)
(* rules of src/operations/rollout.rs by which a saved report is accepted. *)
(*                                                                         *)
(* A batch is one step, see Workload; an attempt is what Completion shows  *)
(* it may be: its success, its times and its token rate, each None when    *)
(* missing, and whether its response broke off.  Time is counted in ticks  *)
(* of 1 / TicksPerMs milliseconds.  A fraction is compared crosswise.      *)
(***************************************************************************)
EXTENDS Integers, Sequences, FiniteSets, FiniteSetsExt, SequencesExt

CONSTANTS Options,     \* CanaryOptions, see OptionsAssumption
          Outcomes,    \* attempts a request may end in
          Durations,   \* ticks a batch may take
          TicksPerMs,
          MaxCount, MaxConcurrency, MaxTokens, MaxRequested,
          MaxTimeout, MaxPlanned,   \* milliseconds
          MaxMemory, AttemptBytes,  \* the memory budget, and one attempt's share
          Blurred,     \* successes of so many attempts: a percentage read as another
          None

\* CanaryOptions: idValid stands for the checks of each string and of the
\* response limit by itself, bytes is the length of the inputs, worker the
\* memory of one worker (worker_memory_budget).  The policy's
\* thresholds are None when they are not selected; expects is
\* expectation_configured.
Policies ==
  LET Threshold == Nat \cup {None}
  IN  [minSuccess : Threshold, maxTtft : Threshold, maxE2e : Threshold, minRate : Threshold,
       expects : BOOLEAN]
OptionsAssumption ==
  \A o \in Options :
    /\ {o.count, o.concurrency, o.maxTokens, o.timeout, o.bytes, o.worker} \subseteq Nat
    /\ o.stream \in BOOLEAN /\ o.idValid \in BOOLEAN
    /\ o.policy \in Policies

\* A response was generated: a success, or content other than was expected,
\* whose measurements finish_attempt keeps all the same.
Completed(a) == a.failure \in {None, "expectation"}

\* output_token_rate, and the moments the times of an attempt are taken at.
Consistent(a) ==
  /\ None \notin {a.ttft, a.e2e} => a.ttft <= a.e2e
  /\ a.rate # None => None \notin {a.ttft, a.e2e, a.tokens} /\ a.tokens >= 2

\* failed_attempt discards what only a completed attempt has.
Discarded(a) == {a.ttft, a.tokens, a.rate} = {None}

ASSUME CanaryAssumption ==
  /\ OptionsAssumption
  /\ TicksPerMs \in Nat \ {0} /\ Durations \subseteq Nat
  /\ {MaxCount, MaxConcurrency, MaxTokens, MaxRequested, MaxTimeout, MaxPlanned} \subseteq Nat
  /\ Blurred \subseteq Nat \X Nat
  /\ None \notin Nat \cup Policies \cup {"protocol", "expectation"}
  /\ \A a \in Outcomes :
       /\ a \in LET Measured == Nat \cup {None}
               IN  [failure : {a.failure}, ttft : Measured, e2e : Measured,
                    tokens : Measured, rate : Measured, cut : BOOLEAN]
       /\ Consistent(a)
       /\ IF Completed(a) THEN a.e2e # None /\ ~a.cut ELSE Discarded(a)

VARIABLES
  options,   \* the command line
  pc,        \* where run is
  started,   \* started_at
  attempts, duration,
  report,    \* the CanaryReport, or None
  saved      \* the report as it is read back, or None

vars == <<options, pc, started, attempts, duration, report, saved>>

-----------------------------------------------------------------------------
(* Admission.                                                              *)

CeilDiv(a, b) == (a + b - 1) \div b
Waves(o) == CeilDiv(o.count, o.concurrency)

\* estimated_canary_memory_bytes: three copies of the inputs, the retained
\* attempts, and one working set per worker.
Memory(o) == 3 * o.bytes + o.count * AttemptBytes + o.concurrency * o.worker

Within(x, low, high) == low <= x /\ x <= high

\* validate_policy and the thresholds of validate.
ValidPolicy(p) ==
  /\ p.minSuccess # None /\ Within(p.minSuccess, 0, 100)
  /\ p.maxTtft # 0 /\ p.maxE2e # 0

\* The gates that need a stream.
StreamOnly(p) == p.maxTtft # None \/ p.minRate # None

\* validate and validate_resource_budget.
Valid(o) ==
  /\ o.idValid
  /\ Within(o.maxTokens, 1, MaxTokens) /\ Within(o.count, 1, MaxCount)
  /\ Within(o.concurrency, 1, Min({o.count, MaxConcurrency}))
  /\ o.count * o.maxTokens <= MaxRequested
  /\ Within(o.timeout, 1, MaxTimeout * TicksPerMs)
  /\ Waves(o) * o.timeout <= MaxPlanned * TicksPerMs
  /\ Memory(o) <= MaxMemory
  /\ ValidPolicy(o.policy)
  /\ ~o.stream => ~StreamOnly(o.policy)

-----------------------------------------------------------------------------
(* Summary and gates.                                                      *)

Successes(s) == {i \in DOMAIN s : s[i].failure = None}
\* The values of a field over the successful attempts that have it, by index.
Values(s, field) == [i \in {j \in Successes(s) : s[j][field] # None} |-> s[i][field]]

\* nearest_rank, of values in any order.
NearestRank(values, percentile) ==
  LET rank == CeilDiv(percentile * Cardinality(DOMAIN values), 100)
      upTo(v) == Cardinality({i \in DOMAIN values : values[i] <= v})
  IN  Min({v \in Range(values) : upTo(v) >= rank})

\* distribution, None in the code without samples; the mean is the sum by their number.
Distribution(values) ==
  IF DOMAIN values = {} THEN [samples |-> 0]
  ELSE [samples |-> Cardinality(DOMAIN values), sum |-> FoldFunction(+, 0, values),
        min |-> Min(Range(values)), p50 |-> NearestRank(values, 50),
        p95 |-> NearestRank(values, 95), max |-> Max(Range(values))]

\* recompute_summary; the achieved rate is attempted by pace, none for pace 0.
\* exact: success_percent is the value the counts make.
Summary(s, pace) ==
  [attempted |-> Len(s), succeeded |-> Cardinality(Successes(s)), exact |-> TRUE,
   pace |-> pace,
   tokens |-> FoldFunction(+, 0, Values(s, "tokens")),
   ttft |-> Distribution(Values(s, "ttft")), e2e |-> Distribution(Values(s, "e2e")),
   rate |-> Distribution(Values(s, "rate"))]

\* Seeded fault: a gate looks at the successes that were measured.
CompleteMeasured(dist, succeeded) == dist.samples > 0
\* Every success has the measurement.
Complete(dist, succeeded) == dist.samples > 0 /\ dist.samples = succeeded

\* maximum_gate
MaximumGate(dist, succeeded, threshold) ==
  Complete(dist, succeeded) /\ dist.max <= threshold

\* canonical_gates: the selected gates, their thresholds and whether they passed.
Gates(sum, p) ==
  LET threshold == [successful |-> 1, percent |-> p.minSuccess, ttft |-> p.maxTtft,
                    e2e |-> p.maxE2e, rate |-> p.minRate]
      passed(g) ==
        CASE g = "successful" -> sum.succeeded > 0
          [] g = "percent" -> 100 * sum.succeeded >= p.minSuccess * sum.attempted
          [] g = "ttft" -> MaximumGate(sum.ttft, sum.succeeded, p.maxTtft)
          [] g = "e2e" -> MaximumGate(sum.e2e, sum.succeeded, p.maxE2e)
          [] g = "rate" -> Complete(sum.rate, sum.succeeded) /\ sum.rate.min >= p.minRate
  IN  [g \in {h \in DOMAIN threshold : threshold[h] # None} |->
        [threshold |-> threshold[g], passed |-> passed(g)]]

Status(gates) == IF \A g \in DOMAIN gates : gates[g].passed THEN "pass" ELSE "fail"

\* elapsed_millis rounds down, duration_millis_ceil up.
FloorMs(ticks) == ticks \div TicksPerMs
CeilMs(ticks) == CeilDiv(ticks, TicksPerMs)

Plan(o) ==
  [count |-> o.count, concurrency |-> o.concurrency, maxTokens |-> o.maxTokens,
   timeout |-> CeilMs(o.timeout)]

\* serde_json, without float_roundtrip, parses the shortest text of some
\* numbers as a neighbour: the success percentage of some counts, which is
\* compared bit by bit with the one they make again, and repeated by its gate.
ParsedOff(sum) == <<sum.succeeded, sum.attempted>> \in Blurred
ReadBack(r) == IF ParsedOff(r.summary) THEN [r EXCEPT !.summary.exact = FALSE] ELSE r

-----------------------------------------------------------------------------
(* run                                                                     *)

Init ==
  /\ options \in Options /\ started \in {0, 1}
  /\ pc = "validate" /\ attempts = <<>> /\ duration = 0
  /\ report = None /\ saved = None

Refuse ==
  /\ pc = "validate" /\ ~Valid(options)
  /\ pc' = "refused"
  /\ UNCHANGED <<options, started, attempts, duration, report, saved>>

\* A completed stream has a first token, and nothing else has one, or a rate.
\* Tokens the server reports are dropped when it cannot have generated them.
Possible(a) ==
  /\ IF options.stream THEN Completed(a) => a.ttft # None
     ELSE {a.ttft, a.rate} = {None}
  /\ a.failure = "expectation" => options.policy.expects
  /\ a.tokens # None => Within(a.tokens, 1, options.maxTokens)

\* execute_batch: any attempt per index, in the order of the indexes.
Batch(results, ticks) ==
  /\ pc = "validate" /\ Valid(options)
  /\ Len(results) = options.count
  /\ \A i \in DOMAIN results : Possible(results[i])
  /\ attempts' = results /\ duration' = ticks
  /\ pc' = "report"
  /\ UNCHANGED <<options, started, report, saved>>

\* execute_batch could not create its workers.
BatchFails ==
  /\ pc = "validate" /\ Valid(options)
  /\ pc' = "failed"
  /\ UNCHANGED <<options, started, attempts, duration, report, saved>>

Report ==
  /\ pc = "report"
  /\ LET sum == Summary(attempts, duration)
         gates == Gates(sum, options.policy)
     IN  report' = [version |-> 2, started |-> started, duration |-> FloorMs(duration),
                    status |-> Status(gates), workload |-> options.workload,
                    target |-> options.target, stream |-> options.stream,
                    plan |-> Plan(options), policy |-> options.policy,
                    summary |-> sum, gates |-> gates, attempts |-> attempts]
  /\ saved' = ReadBack(report') /\ pc' = "saved"
  /\ UNCHANGED <<options, started, attempts, duration>>

-----------------------------------------------------------------------------
(* The saved report.                                                       *)

\* What may have happened to a report: an earlier version wrote it, an attempt
\* is lost, added or contradicts itself, the summary, the pace, the gates, the
\* status or the policy are another report's.
Damages(r) ==
  {[r EXCEPT !.version = 1, !.policy = None],
   [r EXCEPT !.attempts = Tail(@)],
   [r EXCEPT !.attempts = Append(@, Head(@)), !.plan.count = @ + 1],
   [r EXCEPT !.attempts[1].failure = IF @ = None THEN "protocol" ELSE None],
   [r EXCEPT !.summary.succeeded = @ + 1],
   [r EXCEPT !.summary.pace = IF r.duration = 0 THEN @ ELSE @ + 2 * TicksPerMs],
   [r EXCEPT !.gates = [g \in DOMAIN @ |-> [@[g] EXCEPT !.passed = TRUE]], !.status = "pass"],
   [r EXCEPT !.gates = [g \in DOMAIN @ \cap {"successful", "percent"} |-> @[g]]],
   [r EXCEPT !.status = "pass"],
   [r EXCEPT !.policy.minSuccess = 0]} \ {r}

\* validate_plan: the limits of the producer, on the rounded timeout.
PlanCanonical(plan) ==
  /\ Within(plan.count, 1, MaxCount)
  /\ Within(plan.concurrency, 1, Min({plan.count, MaxConcurrency}))
  /\ Within(plan.maxTokens, 1, MaxTokens) /\ plan.count * plan.maxTokens <= MaxRequested
  /\ Within(plan.timeout, 1, MaxTimeout)
  /\ CeilDiv(plan.count, plan.concurrency) * plan.timeout <= MaxPlanned

\* validate_attempt and validate_completed_attempt, see Completion: no response
\* broke off, the evidence of an attempt is that of its outcome.
AttemptCanonical(a, stream, expects) ==
  /\ ~a.cut /\ Consistent(a)
  /\ ~stream => {a.ttft, a.rate} = {None}
  /\ IF Completed(a)
     THEN /\ a.e2e # None /\ (stream => a.ttft # None)
          /\ a.failure = "expectation" => expects
     ELSE Discarded(a)

\* achieved_rate_matches_duration: the pace lies within the rounded duration.
PaceMatches(r) ==
  r.duration = 0 \/ Within(r.summary.pace, r.duration * TicksPerMs,
                           (r.duration + 1) * TicksPerMs)

\* validate_report_semantics
Integrity(r) ==
  /\ r.version = 2 /\ PlanCanonical(r.plan)
  /\ r.policy # None /\ ValidPolicy(r.policy) /\ (r.stream \/ ~StreamOnly(r.policy))
  /\ Len(r.attempts) = r.plan.count
  /\ \A i \in DOMAIN r.attempts :
       AttemptCanonical(r.attempts[i], r.stream, r.policy.expects)
  /\ PaceMatches(r)
  /\ r.summary = Summary(r.attempts, r.summary.pace)
  /\ r.gates = Gates(r.summary, r.policy)
  /\ r.status = Status(r.gates)

\* The damage is to the text: a percentage that is read as another still is.
Damage ==
  /\ pc = "saved" /\ saved = ReadBack(report)
  /\ saved' \in Damages(saved)
  /\ UNCHANGED <<options, pc, started, attempts, duration, report>>

-----------------------------------------------------------------------------
Results(n) == [1..n -> Outcomes]

Next ==
  \/ Refuse \/ BatchFails \/ Report \/ Damage
  \/ \E results \in Results(options.count), ticks \in Durations : Batch(results, ticks)

Spec == Init /\ [][Next]_vars

-----------------------------------------------------------------------------
(* Properties.                                                             *)

BrokeOff(r) == \E i \in DOMAIN r.attempts : r.attempts[i].cut
RoundedOver(o) == Waves(o) * CeilMs(o.timeout) > MaxPlanned
\* Its success percentage is read as another number.
Distorted(r) == ParsedOff(r.summary)

\* A canary passes exactly when a request succeeded, enough of them did, and
\* every single success shows each selected measurement within its limit:
\* "unavailable evidence never passes a gate".  And the rules for saved
\* reports accept the report the canary wrote and no damaged one, with three
\* exceptions: a response that broke off; a timeout that is no whole number
\* of milliseconds, so that the rounded plan exceeds the wall-time limit the
\* plan itself keeps; and a success percentage such as that of 11 of 12
\* requests, which the reader takes for a neighbouring number.
StatusIsEarned ==
  /\ report # None =>
       LET ok == {i \in DOMAIN attempts : attempts[i].failure = None}
           p == options.policy
           shown(field) == \A i \in ok : attempts[i][field] # None
       IN  report.status = "pass" <=>
             /\ ok # {} /\ 100 * Cardinality(ok) >= p.minSuccess * options.count
             /\ p.maxTtft # None => shown("ttft") /\ \A i \in ok : attempts[i].ttft <= p.maxTtft
             /\ p.maxE2e # None => shown("e2e") /\ \A i \in ok : attempts[i].e2e <= p.maxE2e
             /\ p.minRate # None => shown("rate") /\ \A i \in ok : attempts[i].rate >= p.minRate
  /\ saved # None =>
       (Integrity(saved) <=>
          /\ saved = ReadBack(report)
          /\ ~BrokeOff(report) /\ ~RoundedOver(options) /\ ~Distorted(report))
=============================================================================
