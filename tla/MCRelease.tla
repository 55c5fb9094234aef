------------------------------ MODULE MCRelease -----------------------------
(* What a release gate is made of: two canaries of two requests and the    *)
(* decision on them, the comparison of monitoring reports, the loading of  *)
(* a report that is still written and the analysis of a history that is.   *)
(* part is the one that is explored.                                       *)
EXTENDS Rollout

CONSTANTS m1, m2

VARIABLES part,
          history, verdicts,
          file, mtime, now, strict, step, initial, bytes, result, writes,
          files, path, writer, reader, present

compareVars == <<history, verdicts>>
historyVars == <<files, path, writer, reader, present>>
inputVars == <<file, mtime, now, strict, step, initial, bytes, result, writes>>

Attempt(failure, ttft, e2e, rate) ==
  [failure |-> failure, ttft |-> ttft, e2e |-> e2e,
   tokens |-> IF rate # None THEN 2 ELSE None, rate |-> rate, cut |-> failure = "transport"]

\* A fast and a slow streamed success, one without tokens or a rate, one that
\* was not streamed; a failure, a broken response, and content other than was
\* expected.
MCOutcomes ==
  {Attempt(None, 1, 2, 2), Attempt(None, 2, 3, 1), Attempt(None, 2, 2, None),
   Attempt(None, None, 2, None), Attempt("protocol", None, None, None),
   Attempt("transport", None, None, None), Attempt("expectation", 1, 2, 2)}

\* Two of three stands for eleven of twelve, the fewest requests whose success
\* percentage serde_json prints and then parses as another number.
MCBlurred == {<<2, 3>>}

Policy(success, ttft, e2e, rate) ==
  [minSuccess |-> success, maxTtft |-> ttft, maxE2e |-> e2e, minRate |-> rate,
   expects |-> FALSE]
Lenient == [Policy(50, None, None, None) EXCEPT !.expects = TRUE]

Option(count, concurrency, timeout, stream, workload, policy) ==
  [workload |-> workload, target |-> "t", idValid |-> TRUE, count |-> count,
   concurrency |-> concurrency, maxTokens |-> 2, timeout |-> timeout, bytes |-> 1,
   worker |-> 4, stream |-> stream, policy |-> policy]

\* The candidates' canaries: the baseline's, and another workload.
Candidates == {Option(2, 1, 2, TRUE, "w", Lenient), Option(2, 1, 2, TRUE, "v", Lenient)}

\* A timeout of 1.5 ms; every gate; no stream; a percentage that is read as
\* another; plans beyond each limit.
MCOptions ==
  Candidates
  \cup {Option(2, 1, 3, TRUE, "w", Lenient), Option(2, 2, 3, TRUE, "w", Lenient)}
  \cup {Option(2, 2, 2, TRUE, "w", p) :
          p \in {Policy(100, 1, None, None), Policy(0, None, 2, 1), Policy(100, 0, None, None)}}
  \cup {Option(2, 2, 2, FALSE, "w", p) :
          p \in {Policy(50, None, 2, None), Policy(50, 1, None, None)}}
  \cup {Option(1, 2, 1, TRUE, "w", Lenient), Option(3, 1, 2, TRUE, "w", Lenient),
        Option(2, 1, 4, TRUE, "w", Lenient), Option(3, 3, 1, TRUE, "w", Lenient),
        Option(3, 1, 1, TRUE, "w", Policy(50, None, None, None))}

Threshold(ttft, e2e, rate, drop) == [ttft |-> ttft, e2e |-> e2e, rate |-> rate, drop |-> drop]
MCThresholds ==
  {Threshold(None, None, None, None), Threshold(50, None, 50, None),
   Threshold(None, 49, None, 50), Threshold(100, 50, None, 0), Threshold(None, None, None, 101)}

-----------------------------------------------------------------------------
Finding(severity) == [gpu |-> None, severity |-> severity, code |-> "c"]
Gpu(uuid, index, value) == [uuid |-> uuid, index |-> index, value |-> value]
Endpoint(key, reachable) == [key |-> key, reachable |-> reachable]
Source(state, required) == [key |-> "nvidia-smi", state |-> state, required |-> required]
Healthy == [findings |-> {}, gpus |-> <<>>, endpoints |-> <<>>, sources |-> <<>>]

\* Reports that differ in one respect: a finding of any severity, a card with
\* and without its UUID, an endpoint named once, twice or not at all, and a
\* source in any state.
MCReports ==
  {[Healthy EXCEPT !.findings = s] :
     s \in {{}} \cup {{Finding(x)} : x \in {"critical", "warning", "info"}}}
  \cup {[Healthy EXCEPT !.gpus = s] :
          s \in {<<Gpu("u", "0", 1)>>, <<Gpu("u", "0", 2)>>, <<Gpu(None, "0", 1)>>,
                 <<Gpu("u", "0", 1), Gpu(None, "1", 1)>>}}
  \cup {[Healthy EXCEPT !.endpoints = s] :
          s \in {<<Endpoint("e", x)>> : x \in BOOLEAN}
                \cup {<<Endpoint("e", x), Endpoint("e", ~x)>> : x \in BOOLEAN}
                \cup {<<Endpoint("e", TRUE), Endpoint("f", x)>> : x \in BOOLEAN}}
  \cup {[Healthy EXCEPT !.sources = <<Source(s, x)>>] :
          s \in {"ok", "degraded", "unavailable"}, x \in BOOLEAN}
Reports == INSTANCE ReportCompare WITH Reports <- MCReports, MaxReports <- 3

\* Two records, a limit of two of them, and a clock slower than the writer.
Input == INSTANCE ReportInput
  WITH Records <- {"a", "b"}, MaxLength <- 4, MaxWrites <- 2, MaxTime <- 1, pc <- step

\* The cycle of one monitor, and the earlier one of another that appends to
\* the same file; and what may be there before: a blank line, an empty
\* record of an older schema, and two that were edited.
Card(index, used, util) == [index |-> index, used |-> used, total |-> 2, util |-> util]
Probed(reachable, waiting, cache, rate) ==
  [reachable |-> reachable, waiting |-> waiting, cache |-> cache, rate |-> rate]
State(name, state, records) ==
  [name |-> name, state |-> state, error |-> state # "ok", records |-> records]
Cycle(at, gpus, endpoints, findings) ==
  [at |-> at, host |-> "h", gpus |-> gpus, endpoints |-> endpoints, findings |-> findings,
   sources |-> <<State("inventory", "ok", 1), State("xid", "skipped", 0),
                 State("topology", "partial", 1)>>]
Left(text, record) == [text |-> text, head |-> record, tail |-> record]
Empty(schema, up, sources) ==
  [at |-> 1, host |-> "h", gpus |-> <<>>, endpoints |-> <<>>, findings |-> <<>>,
   sources |-> sources, schema |-> schema,
   summary |-> [used |-> 0, up |-> up, critical |-> 0, warning |-> 0], status |-> "unknown"]
Analysis == INSTANCE History
  WITH Monitors <- {m1, m2}, Schema <- 3, MaxTokens <- 3,
       Foreign <- {Left("blank", None), Left("line", Empty(2, 0, <<>>)),
                   Left("line", Empty(3, 1, <<>>)),
                   Left("line", Empty(3, 0, <<State("xid", "skipped", 1)>>))},
       Collected <- {Cycle(2, <<Card(0, 1, -1), Card(1, 2, 50)>>, <<Probed(TRUE, 1, 40, None)>>,
                           <<"critical", "critical">>),
                     Cycle(1, <<Card(0, 2, 100)>>,
                           <<Probed(FALSE, None, None, None), Probed(TRUE, 2, 0, 3)>>,
                           <<"warning", "info">>)}

\* One monitor writes its records in two halves, the other without the newline.
HistoryStep ==
  /\ Analysis!Next
  /\ reader.at \notin {"done", "refused"}
  /\ Len(files'[2]) <= 1
  /\ \A w \in {m1, m2} :
       writer'[w] # None =>
         /\ writer'[w].record.at = IF w = m1 THEN 2 ELSE 1
         /\ writer'[w].at # IF w = m1 THEN "whole" ELSE "head"

-----------------------------------------------------------------------------
\* The first canary starts at time 0, and only its report is damaged: it may
\* be the baseline or the candidate of the comparison.  Its failed requests are
\* those that met no expectation or broke off.
MCInit ==
  /\ part \in {"rollout", "reports", "input", "history"}
  /\ RolloutInit /\ Reports!Init /\ Input!Init /\ Analysis!Init
  /\ started = 0
  /\ part # "rollout" => options = CHOOSE o \in Options : TRUE
  /\ part # "reports" => history = <<Healthy>>
  /\ part # "input" => ~strict /\ file = <<>>
  /\ part # "history" => files = << <<>>, <<>> >>

RolloutStep ==
  /\ RolloutNext
  /\ baseline # None => ~Damage
  /\ baseline' # baseline =>
       /\ options.workload = "w" /\ {options, options'} \subseteq Candidates
       /\ \A i \in DOMAIN attempts : attempts[i].failure # "protocol"

MCNext ==
  \/ /\ part = "rollout" /\ RolloutStep
     /\ UNCHANGED <<part, compareVars, inputVars, historyVars>>
  \/ /\ part = "reports" /\ Reports!Next
     /\ UNCHANGED <<part, rolloutVars, inputVars, historyVars>>
  \/ /\ part = "input" /\ Input!Next
     /\ UNCHANGED <<part, rolloutVars, compareVars, historyVars>>
  \/ /\ part = "history" /\ HistoryStep
     /\ UNCHANGED <<part, rolloutVars, compareVars, inputVars>>
MCSpec == MCInit /\ [][MCNext]_<<part, rolloutVars, compareVars, inputVars, historyVars>>

ASSUME ReleaseAssumption ==
  Input!InputAssumption /\ Analysis!HistoryAssumption /\ Reports!CompareAssumption

-----------------------------------------------------------------------------
\* The gate on monitoring reports composes.
GateComposes == Reports!GateComposes

\* A comparison is about reports that were in the file.
LoadedWasWritten == Input!LoadedWasWritten

\* The summary of a history is that of whole, sound records, each once.
AnalysisIsPrefix == Analysis!AnalysisIsPrefix
=============================================================================
