-------------------------- MODULE SaturationCompare -------------------------
(***************************************************************************)
(* The offline comparison of two saved saturation benchmarks,              *)
(* src/operations/saturation_compare.rs: integrity and compatibility       *)
(* first, then every selected gate at every stage of the ladder.           *)
(*                                                                         *)
(* The reports are those of module Saturation, kept, damaged or swapped.   *)
(* The one latency of an attempt stands for its TTFT and its end-to-end    *)
(* time; a threshold is a percentage, a rate a fraction.                   *)
(***************************************************************************)
EXTENDS Saturation

CONSTANTS Policies,          \* SaturationComparisonPolicy, None when not selected
          ComparisonSamples  \* MIN_SATURATION_COMPARISON_SAMPLES

\* What a gate may lack of a side, see Lacks.
Evidence == {"success", "samples", "attempts", "usage", "latency", "tokens"}

ASSUME ComparisonAssumption ==
  /\ ComparisonSamples \in Nat \ {0}
  /\ Policies \subseteq [latency : Int \cup {None}, rps : Int \cup {None},
                         goodput : Int \cup {None}, errors : Int \cup {None}]
  /\ None \notin {"baseline", "candidate"} \X Evidence

VARIABLES
  kept,   \* the options and the saved report of an earlier run, or None
  result  \* the SaturationComparisonReport and what was compared, or None

compareVars == <<vars, kept, result>>

-----------------------------------------------------------------------------
\* validate_comparison_policy
PolicyValid(p) ==
  {p.latency, p.rps, p.goodput} \subseteq Nat \cup {None} /\ p.errors \in (0..100) \cup {None}

\* compatibility_checks: a side is the options and the saved report of a run.
\* Of the options all are compared but the concurrency to verify.
Compatible(b, c) ==
  /\ b.intact /\ c.intact
  /\ c.started >= b.started
  /\ b.report.status = "complete" /\ c.report.status = "complete"
  /\ \A k \in DOMAIN b.options \ {"verify"} : b.options[k] = c.options[k]

\* stage_policy_status
StagePolicy(stage) ==
  IF stage.summary.attempted < ComparisonSamples THEN "notEvaluable"
  ELSE IF "fail" \in Statuses(stage) THEN "fail"
  ELSE IF "notEvaluable" \in Statuses(stage) THEN "notEvaluable" ELSE "pass"

\* compare_stage_policy
PolicyComparison(b, c) ==
  CASE b = "pass" /\ c = "pass" -> "pass"
    [] b = "pass" /\ c = "fail" -> "regression"
    [] OTHER -> "notEvaluable"

\* What a side may lack.
Lacks(s, evidence) ==
  CASE evidence = "success" -> s.succeeded = 0
    [] evidence = "samples" -> s.succeeded < ComparisonSamples
    [] evidence = "attempts" -> s.attempted < ComparisonSamples
    [] evidence = "usage" -> ~s.usageComplete   \* some success has none
    [] evidence = "latency" -> s.p95 = 0
    [] evidence = "tokens" -> s.tokens = 0

\* What each gate needs of which side, in the order of the code.
LatencyNeeds ==
  << <<"baseline", "success">>, <<"candidate", "success">>,
     <<"baseline", "samples">>, <<"candidate", "samples">>, <<"baseline", "latency">> >>
\* rps_ratio_gate
RpsNeeds ==
  << <<"baseline", "attempts">>, <<"candidate", "attempts">>, <<"baseline", "success">> >>
\* completion_goodput_ratio_gate
GoodputNeeds ==
  << <<"baseline", "success">>, <<"candidate", "success">>,
     <<"baseline", "usage">>, <<"candidate", "usage">>,
     <<"baseline", "samples">>, <<"candidate", "samples">>, <<"baseline", "tokens">> >>
\* error_increase_gate
ErrorNeeds == << <<"baseline", "attempts">>, <<"candidate", "attempts">> >>

\* Why a gate cannot be evaluated: the first of its needs that is not met.
Reason(needs, b, c) ==
  LET of(side) == IF side = "baseline" THEN b ELSE c
      missing == {i \in DOMAIN needs : Lacks(of(needs[i][1]), needs[i][2])}
  IN  IF missing = {} THEN None ELSE needs[Min(missing)]

\* evaluated_gate
Evaluated(reason, passed) ==
  [status |-> IF reason # None THEN "notEvaluable" ELSE PassIf(passed), reason |-> reason]

\* after / before >= percent / 100, both by their durations.
RatioAtLeast(after, afterTime, before, beforeTime, percent) ==
  100 * after * beforeTime >= percent * before * afterTime

Gate(kind, b, c, threshold) ==
  CASE kind = "latency" ->
         LET reason == Reason(LatencyNeeds, b, c)
         IN  Evaluated(reason, reason # None \/ 100 * (c.p95 - b.p95) <= threshold * b.p95)
    [] kind = "rps" ->
         Evaluated(Reason(RpsNeeds, b, c),
                   RatioAtLeast(c.succeeded, c.duration, b.succeeded, b.duration, threshold))
    [] kind = "goodput" ->
         Evaluated(Reason(GoodputNeeds, b, c),
                   RatioAtLeast(c.tokens, c.duration, b.tokens, b.duration, threshold))
    [] kind = "errors" ->
         Evaluated(Reason(ErrorNeeds, b, c),
                   100 * ((c.attempted - c.succeeded) * b.attempted
                          - (b.attempted - b.succeeded) * c.attempted)
                     <= threshold * b.attempted * c.attempted)

\* compare_stage, the selected gates only.
CompareStage(b, c, p) ==
  [concurrency |-> b.concurrency,
   policy |-> PolicyComparison(StagePolicy(b), StagePolicy(c)),
   gates |-> [kind \in {k \in DOMAIN p : p[k] # None} |->
                Gate(kind, b.summary, c.summary, p[kind])]]

Outcome(stage) == {stage.policy} \cup {stage.gates[k].status : k \in DOMAIN stage.gates}

\* Seeded fault: what cannot be evaluated is left out.
ComparisonStatusLenient(compatible, compared) ==
  IF ~compatible THEN "notEvaluable"
  ELSE IF \E i \in DOMAIN compared : Outcome(compared[i]) \cap {"regression", "fail"} # {}
  THEN "regression" ELSE "pass"
\* comparison_status: an observed regression goes before missing evidence.
ComparisonStatus(compatible, compared) ==
  IF ~compatible THEN "notEvaluable"
  ELSE IF \E i \in DOMAIN compared : Outcome(compared[i]) \cap {"regression", "fail"} # {}
  THEN "regression"
  ELSE IF \E i \in DOMAIN compared : "notEvaluable" \in Outcome(compared[i])
  THEN "notEvaluable" ELSE "pass"

\* compare
Comparison(b, c, p) ==
  LET compared == IF ~Compatible(b, c) THEN <<>>
                  ELSE [i \in DOMAIN b.report.stages |->
                          CompareStage(b.report.stages[i], c.report.stages[i], p)]
      status == ComparisonStatus(Compatible(b, c), compared)
  IN  [baseline |-> b, candidate |-> c, policy |-> p, compared |-> compared,
       status |-> status, regression |-> status = "regression"]

\* run_saturation_comparison
ComparisonExit(r, failOnRegression) ==
  IF failOnRegression /\ r.status # "pass" THEN 2 ELSE 0

-----------------------------------------------------------------------------
\* What is kept of a run that ended; its clock may have been set back since.
Side(started) ==
  [options |-> options, report |-> saved, intact |-> Accepts(saved), started |-> started]

CompareInit == Init /\ kept = None /\ result = None

\* A run is kept and another one made.
KeepRun(started) ==
  /\ pc = "saved" /\ kept = None
  /\ kept' = Side(started)
  /\ options' \in Options /\ pc' = "validate"
  /\ warmups' = <<>> /\ stages' = <<>> /\ abort' = None
  /\ report' = None /\ saved' = None /\ sent' = 0 /\ elapsed' = 0
  /\ UNCHANGED result

CompareRuns(p) ==
  /\ pc = "saved" /\ kept # None /\ result = None
  /\ PolicyValid(p)
  /\ \/ result' = Comparison(kept, Side(1), p)
     \/ result' = Comparison(Side(1), kept, p)
  /\ UNCHANGED <<vars, kept>>

\* A policy out of range fails before the reports are looked at.
CompareRefused(p) ==
  /\ pc = "saved" /\ kept # None /\ result = None
  /\ ~PolicyValid(p)
  /\ pc' = "failed"
  /\ UNCHANGED <<options, warmups, stages, abort, report, saved, sent, elapsed, kept, result>>

CompareNext ==
  \/ Next /\ result = None /\ UNCHANGED <<kept, result>>
  \/ \E started \in {0, 2} : KeepRun(started)
  \/ \E p \in Policies : CompareRuns(p) \/ CompareRefused(p)
  \/ result # None /\ UNCHANGED compareVars

CompareSpec == CompareInit /\ [][CompareNext]_compareVars

-----------------------------------------------------------------------------
(* Properties.                                                             *)

\* What the gates are about, in terms of the attempts of a stage.
Ok(s) == {i \in DOMAIN s.attempts : s.attempts[i].ok}
Measured(s) == \A i \in Ok(s) : s.attempts[i].tokens # None
Sampled(s, kind) ==
  IF kind \in {"rps", "errors"} THEN Len(s.attempts) >= ComparisonSamples
  ELSE Cardinality(Ok(s)) >= ComparisonSamples /\ (kind = "goodput" => Measured(s))
Generated(s) ==
  Total([i \in DOMAIN s.attempts |-> IF s.attempts[i].ok THEN s.attempts[i].tokens ELSE 0])
\* At least 95 % of the successes, scaled, lie within the time.
MostWithin(s, scale, time) ==
  100 * Cardinality({i \in Ok(s) : scale * s.attempts[i].time <= time}) >= 95 * Cardinality(Ok(s))
NotWorse(kind, b, c, percent) ==
  CASE kind = "latency" ->
         \A i \in Ok(b) :
           MostWithin(b, 1, b.attempts[i].time) =>
             MostWithin(c, 100, (100 + percent) * b.attempts[i].time)
    [] kind = "rps" -> 100 * Cardinality(Ok(c)) * b.summary.duration
                         >= percent * Cardinality(Ok(b)) * c.summary.duration
    [] kind = "goodput" -> 100 * Generated(c) * b.summary.duration
                             >= percent * Generated(b) * c.summary.duration
    [] kind = "errors" -> 100 * (Failed(c.attempts) * Len(b.attempts)
                                 - Failed(b.attempts) * Len(c.attempts))
                            <= percent * Len(b.attempts) * Len(c.attempts)

\* "Only status: pass exits 0", and it is earned: both runs had the same plan
\* but for the stage to verify and ran it to the end, every stage passed its
\* own gates in both, and on every selected gate both sides have the samples
\* and the candidate is not worse than allowed.
\* Missing evidence "cannot silently pass and is not mislabeled as an observed
\* regression": a regression is a stage the baseline passed and the candidate
\* failed, or a measurement both have that is worse.
ComparisonEarned ==
  result # None =>
    LET from == result.baseline.report
        to == result.candidate.report
        stagePairs == {<<from.stages[i], to.stages[i]>> :
                         i \in DOMAIN from.stages \cap DOMAIN to.stages}
        selected == {k \in DOMAIN result.policy : result.policy[k] # None}
        sampled(s, k) == Sampled(s[1], k) /\ Sampled(s[2], k)
        notWorse(s, k) == NotWorse(k, s[1], s[2], result.policy[k])
    IN  /\ ComparisonExit(result, TRUE) = 0 =>
             /\ from.status = "complete" /\ to.status = "complete"
             /\ \A k \in DOMAIN result.baseline.options \ {"verify"} :
                  result.baseline.options[k] = result.candidate.options[k]
             /\ \A s \in stagePairs :
                  /\ Passes(s[1]) /\ Passes(s[2])
                  /\ \A k \in selected : sampled(s, k) /\ notWorse(s, k)
        /\ result.regression =>
             \E s \in stagePairs :
               \/ Passes(s[1]) /\ "fail" \in Statuses(s[2])
               \/ \E k \in selected : sampled(s, k) /\ ~notWorse(s, k)
=============================================================================
