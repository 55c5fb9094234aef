---------------------------- MODULE MCSaturation ----------------------------
(* The clients of inference endpoints on small instances: ladders of load  *)
(* and the comparison of the shortest ones, one completion, and the probes *)
(* of a cycle.  part is the one that is explored.                          *)
EXTENDS SaturationCompare

CONSTANTS a, b, blank

VARIABLES part
VARIABLES stream, needle, at, clock, headers, matcher, finish, tokens, ttft, attempt, content, ended
VARIABLES targets, setting, phase, first, worker, results, answers, requests, endpoints

completionVars ==
  <<stream, needle, at, clock, headers, matcher, finish, tokens, ttft, attempt, content, ended>>
probeVars == <<targets, setting, phase, first, worker, results, answers, requests, endpoints>>

Attempt(ok, time, usage, cut) == [ok |-> ok, time |-> time, tokens |-> usage, cut |-> cut]

\* A fast and a slow success, one without usage, a failure, a broken response.
MCOutcomes ==
  {Attempt(TRUE, 1, 1, FALSE), Attempt(TRUE, 2, 2, FALSE), Attempt(TRUE, 1, None, FALSE),
   Attempt(FALSE, 1, None, FALSE), Attempt(FALSE, 2, None, TRUE)}

Option(ladder, count, maxError, abortError, gates, verify) ==
  [stages |-> ladder, warmup |-> 1, requests |-> count, maxError |-> maxError,
   abortError |-> abortError, maxP95 |-> gates[1], minRps |-> gates[2],
   minGoodput |-> gates[3], verify |-> verify]

NoGates == <<None, None, None>>

\* One failure of three stands for two of thirteen, the fewest of which the
\* percentage is parsed as another number.
MCBlurred == {<<1, 3>>}

\* The plans whose reports are compared: one stage of two requests, two of
\* one, and another that differs from the first in what it verifies.
Compared == {Option(<<1>>, 2, 40, 100, NoGates, None), Option(<<1, 2>>, 1, 40, 100, NoGates, None),
             Option(<<1>>, 2, 40, 100, NoGates, 1)}

\* Admissible ladders with a strict and a lenient guard; plans that start too
\* high, repeat a stage, verify another one, disable the guard, or exceed the
\* limits on attempts and on time.
MCOptions ==
  Compared
  \cup {Option(<<1, 2>>, 1, 0, 50, gates, v) :
     gates \in {NoGates, <<1, None, None>>, <<None, 1, 1>>}, v \in {None, 1, 2}}
  \cup {Option(<<1, 2>>, 2, 50, 100, <<1, None, 1>>, 2)}
  \cup {Option(<<1, 3>>, 1, 40, 67, NoGates, None)}
  \cup {Option(<<2>>, 1, 0, 50, NoGates, None), Option(<<1, 1>>, 1, 0, 50, NoGates, None),
        Option(<<1, 2>>, 1, 0, 50, NoGates, 3), Option(<<1, 2>>, 1, 50, 50, NoGates, 2),
        Option(<<1, 3>>, 2, 0, 50, NoGates, None), Option(<<1>>, 6, 0, 50, NoGates, None)}

Policy(latency, rps, goodput, errors) ==
  [latency |-> latency, rps |-> rps, goodput |-> goodput, errors |-> errors]
MCPolicies ==
  {Policy(None, None, None, None), Policy(0, None, None, 0), Policy(100, 70, None, None),
   Policy(None, None, 90, 60), Policy(None, None, None, 101)}

\* Expectations with and without borders, one with white space.
Client == INSTANCE Completion
  WITH Letters <- {a, b, blank}, Blank <- blank,
       Needles <- {None, <<a>>, <<a, a, b>>, <<a, b, a>>, <<b, blank, b>>},
       Pieces <- {<<>>, <<a>>, <<b>>, <<blank>>, <<a, b>>, <<a, a>>},
       MaxTokens <- 2, MaxContent <- 4, MaxTime <- 1, pc <- at

\* Up to one target more than allowed, in batches of up to two threads: two
\* remote origins, one of them in cleartext, and a local one.  Three threads
\* exceed the budget.
Url(form, origin, cleartext, loopback) ==
  [form |-> form, origin |-> origin, cleartext |-> cleartext, loopback |-> loopback]
Setting(body, threads, limit, token, insecure) ==
  [body |-> body, threads |-> threads, targets |-> limit, token |-> token, insecure |-> insecure]
Probe == INSTANCE Probes
  WITH Urls <- {Url("valid", a, FALSE, FALSE), Url("valid", b, TRUE, FALSE),
                Url("valid", blank, TRUE, TRUE), Url("malformed", None, FALSE, FALSE)},
       OptionSets <- {Setting(1, n, 3, token, x) :
                        n \in {1, 2}, token \in {"none", "good", "bad"}, x \in BOOLEAN}
                     \cup {Setting(1, 3, 3, "none", TRUE), Setting(2, 1, 3, "none", TRUE),
                           Setting(1, 2, 2, "good", TRUE), Setting(1, 2, 4, "none", TRUE)},
       MaxTargets <- 3, MaxThreads <- 3, MaxBody <- 1, MaxBudget <- 2,
       options <- setting, sent <- requests, report <- endpoints

ASSUME ClientsAssumption == Client!CompletionAssumption /\ Probe!ProbesAssumption

-----------------------------------------------------------------------------
\* The runs with two requests per worker and the compared ones have warmups
\* that succeed at once.  The compared ones have the same plan to measure, and
\* no batch that cannot be started; the report that is kept may be damaged.
\* One of two stages is not, its first stage is a fast success, and the other
\* run starts later.
LadderNext ==
  /\ CompareNext
  /\ (options \in Compared \/ options.requests = 2) /\ pc = "warmup" /\ pc' = "measure" =>
       elapsed' = elapsed + 1 /\ Last(warmups').succeeded = Last(warmups').attempted
  /\ kept # None => ~Damage /\ ~BatchFails
  /\ kept' # kept =>
       /\ options \in Compared /\ options.verify = None
       /\ options' = [options EXCEPT !.verify = options'.verify]
       /\ Len(options.stages) = 2 =>
            /\ saved = report /\ kept'.started = 0
            /\ \E i \in DOMAIN stages : i = 1 /\ stages[i].summary.tokens = 1
MCInit ==
  /\ part \in {"ladder", "completion", "probes"}
  /\ part = "ladder" \/ options = CHOOSE o \in Compared : TRUE
  /\ part = "completion" \/ stream = FALSE
  /\ part = "completion" \/ needle = None
  /\ part = "probes" \/ targets = <<>>
  /\ part = "probes" \/ setting = Setting(1, 1, 3, "none", TRUE)
  /\ CompareInit /\ Client!Init /\ Probe!Init

MCNext ==
  \/ part = "ladder" /\ LadderNext /\ UNCHANGED <<part, completionVars, probeVars>>
  \/ part = "completion" /\ Client!Next /\ UNCHANGED <<part, compareVars, probeVars>>
  \/ part = "probes" /\ Probe!Next /\ UNCHANGED <<part, compareVars, completionVars>>

MCSpec == MCInit /\ [][MCNext]_<<part, compareVars, completionVars, probeVars>>

-----------------------------------------------------------------------------
\* What an attempt says of the text is true of it, a success is a whole
\* answer, and the attempt is accepted when it is read back.
AttemptIsSound == Client!AttemptIsSound

\* Every target is probed once and gets its own answer; a token stays with its
\* origin.
ProbesExact == Probe!ProbesExact
=============================================================================
