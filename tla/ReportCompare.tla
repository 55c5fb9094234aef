---------------------------- MODULE ReportCompare ----------------------------
(***************************************************************************)
(* The comparison of two monitoring reports, src/operations/compare.rs:    *)
(* what was added, removed or changed between them, and whether that is a  *)
(* regression.                                                             *)
(*                                                                         *)
(* A measured value that takes no part in the verdict is one value.        *)
(***************************************************************************)
EXTENDS Integers, Sequences, FiniteSets, FiniteSetsExt

CONSTANTS Reports,    \* the reports that exist
          MaxReports, \* bound on how many are collected (model bound)
          None

VARIABLES history,  \* reports in the order they were collected
          verdicts  \* the comparison of the i-th one with each later one

vars == <<history, verdicts>>

\* Severity orders critical before warning before info.
Alarming == {"critical", "warning"}

\* finding_key and finding_difference: a finding is its GPU, severity and
\* code; what else it says does not make it new.
FindingDifference(source, other) == {f \in source : f \notin other}

\* Entities by key: a report may list a key twice, and the last one counts.
Keys(list) == {list[i].key : i \in DOMAIN list}
Find(list, key) ==
  IF key \in Keys(list)
  THEN list[Max({i \in DOMAIN list : list[i].key = key})] ELSE None

\* gpu_key: cards without a UUID are told apart by their index.
GpuKey(gpu) == IF gpu.uuid # None THEN gpu.uuid ELSE gpu.index
Gpus(r) == [i \in DOMAIN r.gpus |-> [key |-> GpuKey(r.gpus[i]), value |-> r.gpus[i].value]]

\* What the reports are: lists of entities; the modules that give them values
\* assume it.
CompareAssumption ==
  \A r \in Reports : \A list \in {Gpus(r), r.endpoints, r.sources} :
    list \in Seq({list[i] : i \in DOMAIN list} \ {None})

\* gpu_delta, endpoint_delta and source_delta: what became of an entity.
Change(before, after) ==
  CASE before = None -> "added" [] after = None -> "removed"
    [] before = after -> "unchanged" [] OTHER -> "changed"

Delta(before, after) == [change |-> Change(before, after), before |-> before, after |-> after]

\* compare_gpus, compare_endpoints and compare_sources.
Deltas(before, after) ==
  [key \in Keys(before) \cup Keys(after) |-> Delta(Find(before, key), Find(after, key))]

\* An endpoint that is new or was reachable, and is not.
EndpointRegressed(d) ==
  LET reachable(e) == e # None /\ e.reachable
  IN  (d.change = "added" \/ reachable(d.before)) /\ ~reachable(d.after)

\* Seeded fault: a source that is gone has no state to be degraded.
SourceRegressedPresent(d) ==
  /\ d.after # None /\ d.after.state # "ok"
  /\ d.after.required \/ (d.before # None /\ d.before.state = "ok")
\* source_is_regression
SourceRegressed(d) ==
  \/ d.change = "removed"
  \/ /\ d.after # None /\ d.after.state # "ok"
     /\ d.after.required \/ (d.before # None /\ d.before.state = "ok")

\* compare
Compare(baseline, current) ==
  LET new == FindingDifference(current.findings, baseline.findings)
      gpus == Deltas(Gpus(baseline), Gpus(current))
      endpoints == Deltas(baseline.endpoints, current.endpoints)
      sources == Deltas(baseline.sources, current.sources)
  IN  [new |-> new, resolved |-> FindingDifference(baseline.findings, current.findings),
       gpus |-> gpus, endpoints |-> endpoints, sources |-> sources,
       regression |-> \/ \E f \in new : f.severity \in Alarming
                      \/ \E k \in DOMAIN gpus : gpus[k].change = "removed"
                      \/ \E k \in DOMAIN endpoints : EndpointRegressed(endpoints[k])
                      \/ \E k \in DOMAIN sources : SourceRegressed(sources[k])]

-----------------------------------------------------------------------------
Init == history \in {<<r>> : r \in Reports} /\ verdicts = <<>>

\* A new report, compared with every one before it.
Collect(r) ==
  /\ Len(history) < MaxReports
  /\ history' = Append(history, r)
  /\ verdicts' = verdicts \o [i \in DOMAIN history |->
       [from |-> i, to |-> Len(history) + 1, comparison |-> Compare(history[i], r)]]

Next == \E r \in Reports : Collect(r)

Spec == Init /\ [][Next]_vars

-----------------------------------------------------------------------------
\* A gate that is passed release by release is passed over all of them: what
\* three reports show is no regression from the first to the last unless it
\* is one between two that follow each other.  Nothing wears off in steps.
GateComposes ==
  \A v, w, x \in {verdicts[i] : i \in DOMAIN verdicts} :
    /\ v.to = w.from /\ x.from = v.from /\ x.to = w.to
    /\ ~v.comparison.regression /\ ~w.comparison.regression
    => ~x.comparison.regression
=============================================================================
