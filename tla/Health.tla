-------------------------------- MODULE Health -------------------------------
(***************************************************************************)
(* The health rules, src/analysis/health.rs: the findings a report gives   *)
(* rise to and the status they add up to.                                  *)
(*                                                                         *)
(* A finding is its subject, severity and code; wording is left out.  A    *)
(* measurement is a number on a small scale, -1 for a sensor that is       *)
(* missing and None for a gauge that was not exported.                     *)
(***************************************************************************)
EXTENDS Integers, FiniteSets, Sequences, SequencesExt

CONSTANTS Limits, \* AnalyzerConfig
          None

Found(subject, severity, code) == [subject |-> subject, severity |-> severity, code |-> code]

\* The findings, of the rules given, whose condition holds.
Raised(subject, rules) ==
  {Found(subject, rule[2], rule[3]) : rule \in {r \in rules : r[1]}}

\* memory_percent of a card that reports its capacity.
MemoryPercent(g) == IF g.total > 0 THEN (100 * g.used) \div g.total ELSE 0

\* Of several grades of one rule the first applies.
Graded(value, critical, warning, criticalCode, warningCode) ==
  {<<value >= critical, "critical", criticalCode>>,
   <<value >= warning /\ value < critical, "warning", warningCode>>}

\* analyze_gpus: what concerns memory, heat and load.
LoadRules(g) ==
  LET percent == MemoryPercent(g)
  IN  (IF g.total <= 0 THEN {<<TRUE, "critical", "memory-unavailable">>}
       ELSE Graded(percent, Limits.memoryCritical, Limits.memoryWarning,
                   "vram-critical", "vram-high"))
      \cup Graded(g.temperature, Limits.heatCritical, Limits.heatWarning,
                  "temperature-critical", "temperature-high")
      \cup {<<g.used > Limits.unattributed /\ g.processes = {}, "warning", "unattributed-vram">>,
            <<g.powerLimit > 0 /\ 100 * g.power >= 98 * g.powerLimit, "info", "power-limit">>,
            <<g.load >= 95, "info", "gpu-saturated">>,
            <<g.load < 5 /\ percent >= 50, "info", "vram-reserved">>,
            <<g.temperature < 0, "warning", "sensor-unavailable">>}

\* analyze_gpus: the link, the memory cells, the clocks and the modes.
DeviceRules(g) ==
  {<<g.pcieMax > 0 /\ g.pcie < g.pcieMax /\ g.load >= 50, "warning", "pcie">>,
   <<g.uncorrected > 0, "critical", "ecc-uncorrected">>,
   <<g.corrected > 0, "warning", "ecc-corrected">>,
   <<g.retired > 0, "critical", "retired-pages">>,
   <<g.throttled, "warning", "clock-throttled">>,
   <<g.mig, "info", "mig-enabled">>,
   <<g.processes # {}, "info", "processes">>}

AnalyzeGpus(gpus) == UNION {Raised(k, LoadRules(gpus[k]) \cup DeviceRules(gpus[k])) : k \in DOMAIN gpus}

\* analyze_runtime_rates, and analyze_endpoints of an endpoint that answers.
EndpointRules(e) ==
  LET queued == e.waiting # None /\ e.waiting \in Nat \ {0}
      stalled == e.running # None /\ e.running <= 0
  IN  {<<e.runtime = None, "info", "inference-metrics-unrecognized">>,
       <<e.latency >= Limits.latency, "warning", "inference-metrics-slow">>,
       <<queued /\ stalled, "critical", "inference-stalled">>,
       <<queued /\ ~stalled, "warning", "inference-queue">>,
       <<e.errors \in Nat \ {0}, "warning", "inference-errors">>,
       <<e.preemptions \in Nat \ {0}, "warning", "inference-preemptions">>}
      \cup (IF e.cache = None THEN {}
            ELSE Graded(e.cache, Limits.cacheCritical, Limits.cacheWarning,
                        "kv-cache-critical", "kv-cache-high"))

\* analyze_endpoints
AnalyzeEndpoints(endpoints) ==
  UNION {IF endpoints[k].reachable THEN Raised(k, EndpointRules(endpoints[k]))
         ELSE {Found(k, "warning", "inference-endpoint-down")} : k \in DOMAIN endpoints}

\* The severity of what a required source lacks, None for nothing.
SourceFinding(state) ==
  CASE state = "ok" -> None [] state = "partial" -> "warning" [] OTHER -> "critical"

\* analyze_sources: sources maps a name to a state, an absent one is missed.
AnalyzeSources(sources, required) ==
  LET state(n) == IF n \in DOMAIN sources THEN sources[n] ELSE "absent"
  IN  {Found(n, SourceFinding(state(n)), "telemetry-source") :
         n \in {m \in required : SourceFinding(state(m)) # None}}

\* finalize
Status(findings) ==
  LET severities == {f.severity : f \in findings}
  IN  IF "critical" \in severities THEN "critical"
      ELSE IF "warning" \in severities THEN "warning" ELSE "healthy"
=============================================================================
