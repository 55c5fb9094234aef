------------------------------- MODULE Rollout ------------------------------
(***************************************************************************)
(* The offline decision on a rollout, src/operations/rollout.rs: two saved *)
(* canary reports, one kept as the baseline and one of the candidate, are  *)
(* checked for integrity and compatibility and compared under the selected *)
(* thresholds.  The reports are those module Canary produces, in whatever  *)
(* order and shape they reach the comparison.                              *)
(***************************************************************************)
EXTENDS Canary

CONSTANTS Thresholds,     \* RolloutThresholds, in percent, None when not selected
          MinimumSamples  \* MIN_ROLLOUT_METRIC_SAMPLES

ASSUME RolloutAssumption ==
  /\ MinimumSamples \in Nat \ {0}
  /\ Thresholds \subseteq [ttft : Int \cup {None}, e2e : Int \cup {None},
                           rate : Int \cup {None}, drop : Int \cup {None}]

VARIABLES baseline,  \* the report kept of the first canary, or None
          verdict    \* the CanaryRolloutComparison and what it was made of, or None

rolloutVars == <<vars, baseline, verdict>>

-----------------------------------------------------------------------------
\* validate_thresholds
ThresholdsValid(t) ==
  /\ {t.ttft, t.e2e, t.rate} \subseteq Nat \cup {None}
  /\ t.drop \in (0..100) \cup {None}

\* Seeded fault: two reports without a policy are alike.
CompatibilityLax(b, c) ==
  [integrity |-> Integrity(b) /\ Integrity(c), version |-> b.version = c.version,
   order |-> TRUE,
   status |-> b.status = "pass" /\ c.status = "pass",
   workload |-> b.workload = c.workload, target |-> b.target = c.target,
   stream |-> b.stream = c.stream, plan |-> b.plan = c.plan, policy |-> b.policy = c.policy]
\* compatibility_checks, by field.
Compatibility(b, c) ==
  [integrity |-> Integrity(b) /\ Integrity(c), version |-> b.version = 2 /\ c.version = 2,
   order |-> c.started >= b.started,
   status |-> b.status = "pass" /\ c.status = "pass",
   workload |-> b.workload = c.workload, target |-> b.target = c.target,
   stream |-> b.stream = c.stream, plan |-> b.plan = c.plan,
   policy |-> b.policy # None /\ c.policy # None /\ b.policy = c.policy]

\* distribution_metric: the value, or None for a reason the detail tells.  The
\* order it demands within a distribution, every one Integrity has rebuilt has.
Metric(r, dist, quantile) ==
  IF /\ r.summary.succeeded > 0 /\ Complete(dist, r.summary.succeeded)
     /\ dist.samples >= MinimumSamples
  THEN dist[quantile] ELSE None

\* evaluated_gate: nothing passes on missing evidence or a baseline of zero.
Evaluated(before, after, passes) ==
  before # None /\ after # None /\ before # 0 /\ passes

\* valid_success_percent, as the successes of as many attempts.
SuccessDrop(b, c, threshold) ==
  /\ b.summary.attempted > 0 /\ c.summary.attempted > 0 /\ b.summary.succeeded > 0
  /\ 100 * (b.summary.succeeded * c.summary.attempted
            - c.summary.succeeded * b.summary.attempted)
       <= threshold * b.summary.attempted * c.summary.attempted

\* regression_percent_gate
NoRegression(b, c, field, threshold) ==
  LET before == Metric(b, b.summary[field], "p95")
      after == Metric(c, c.summary[field], "p95")
  IN  Evaluated(before, after, 100 * (after - before) <= threshold * before)
\* ratio_gate
RatioKept(b, c, threshold) ==
  LET before == Metric(b, b.summary.rate, "p50")
      after == Metric(c, c.summary.rate, "p50")
  IN  Evaluated(before, after, 100 * after >= threshold * before)

\* evaluate_gates, or unavailable_gates unless both reports are intact.
RolloutGates(b, c, t) ==
  LET passes(f) ==
        /\ Integrity(b) /\ Integrity(c)
        /\ CASE f = "drop" -> SuccessDrop(b, c, t.drop)
             [] f = "rate" -> RatioKept(b, c, t.rate)
             [] OTHER -> NoRegression(b, c, f, t[f])
  IN  [f \in {g \in DOMAIN t : t[g] # None} |-> passes(f)]

\* compare
Comparison(b, c, t) ==
  LET checks == Compatibility(b, c)
      gates == RolloutGates(b, c, t)
      compatible == \A f \in DOMAIN checks : checks[f]
  IN  [baseline |-> b, candidate |-> c, thresholds |-> t,
       compatibility |-> checks, gates |-> gates,
       regression |-> ~compatible \/ \E f \in DOMAIN gates : ~gates[f]]

-----------------------------------------------------------------------------
RolloutInit == Init /\ baseline = None /\ verdict = None

\* A report is kept, and another canary runs, maybe with the clock set back.
Keep ==
  /\ pc = "saved" /\ baseline = None
  /\ baseline' = saved
  /\ options' \in Options /\ started' \in {0, 1}
  /\ pc' = "validate" /\ attempts' = <<>> /\ duration' = 0
  /\ report' = None /\ saved' = None
  /\ UNCHANGED verdict

\* The two files, in either order.
Compare(t) ==
  /\ pc = "saved" /\ baseline # None /\ verdict = None
  /\ ThresholdsValid(t)
  /\ \/ verdict' = Comparison(baseline, saved, t)
     \/ verdict' = Comparison(saved, baseline, t)
  /\ UNCHANGED <<vars, baseline>>

\* Thresholds out of range: compare fails before it looks at the reports.
CompareRefused(t) ==
  /\ pc = "saved" /\ baseline # None
  /\ ~ThresholdsValid(t)
  /\ pc' = "refused"
  /\ UNCHANGED <<options, started, attempts, duration, report, saved, baseline, verdict>>

RolloutNext ==
  \/ Next /\ verdict = None /\ UNCHANGED <<baseline, verdict>>
  \/ Keep
  \/ \E t \in Thresholds : Compare(t) \/ CompareRefused(t)

RolloutSpec == RolloutInit /\ [][RolloutNext]_rolloutVars

-----------------------------------------------------------------------------
\* At least percent of the n requests that succeeded are in the set.
Most(set, n, percent) == 100 * Cardinality(set) >= percent * n

Succeeded(r) == {i \in DOMAIN r.attempts : r.attempts[i].failure = None}

\* Both canaries passed the same workload, plan and policy, the candidate not
\* before the baseline, and their reports are intact.
Alike(b, c) ==
  /\ Integrity(b) /\ Integrity(c) /\ b.status = "pass" /\ c.status = "pass"
  /\ b.workload = c.workload /\ b.target = c.target /\ b.stream = c.stream
  /\ b.plan = c.plan /\ b.policy = c.policy
  /\ b.started <= c.started

\* A measurement is complete and of enough samples.
Told(r, f) ==
  /\ Cardinality(Succeeded(r)) >= MinimumSamples
  /\ \A i \in Succeeded(r) : r.attempts[i][f] # None

\* 95 % of the candidate's requests lie within the percentage of any time that
\* 95 % of the baseline's lie within.
WithinTime(b, c, f, percent) ==
  LET D == Succeeded(b)
      E == Succeeded(c)
  IN  /\ ~Most({i \in D : b.attempts[i][f] = 0}, Cardinality(D), 95)
      /\ \A i \in D :
           Most({j \in D : b.attempts[j][f] <= b.attempts[i][f]}, Cardinality(D), 95) =>
             Most({j \in E : 100 * c.attempts[j][f] <= (100 + percent) * b.attempts[i][f]},
                  Cardinality(E), 95)

\* No half of the candidate's requests falls below the ratio of the baseline's
\* median rate.
KeepsRate(b, c, percent) ==
  LET D == Succeeded(b)
      E == Succeeded(c)
  IN  /\ ~Most({i \in D : b.attempts[i]["rate"] = 0}, Cardinality(D), 50)
      /\ \E i \in D :
           /\ Most({j \in D : b.attempts[j]["rate"] <= b.attempts[i]["rate"]},
                   Cardinality(D), 50)
           /\ ~Most({j \in E : 100 * c.attempts[j]["rate"] < percent * b.attempts[i]["rate"]},
                    Cardinality(E), 50)

\* The release gate opens exactly when two intact reports of passing canaries,
\* alike and in order, show on every selected measurement, complete and of
\* enough samples in both, that the candidate's times stay within the
\* percentage of the baseline's at the 95th percentile, its rates above the
\* ratio at the median, and its successes within the percentage points.
RolloutVerdictExact ==
  verdict # None =>
    LET b == verdict.baseline
        c == verdict.candidate
        t == verdict.thresholds
        within(f) == Told(b, f) /\ Told(c, f) /\ WithinTime(b, c, f, t[f])
        lost == Cardinality(Succeeded(b)) - Cardinality(Succeeded(c))
    IN  ~verdict.regression <=>
          /\ Alike(b, c)
          /\ t.ttft # None => within("ttft")
          /\ t.e2e # None => within("e2e")
          /\ t.rate # None => Told(b, "rate") /\ Told(c, "rate") /\ KeepsRate(b, c, t.rate)
          /\ t.drop # None => 100 * lost <= t.drop * Len(b.attempts)
=============================================================================
