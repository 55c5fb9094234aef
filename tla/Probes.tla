------------------------------- MODULE Probes -------------------------------
(***************************************************************************)
(* The probes of one cycle: collect and collect_one of                     *)
(* src/inference/probe.rs.  The targets are checked together, then probed  *)
(* in batches of threads that share one client, its token and the results. *)
(*                                                                         *)
(* What a body says is the subject of Histograms and EndpointRates: here a *)
(* body is its size, whole or broken off.                                  *)
(***************************************************************************)
EXTENDS Integers, Sequences, SequencesExt

CONSTANTS Urls,        \* targets: records [form, origin, cleartext, loopback]
          MaxTargets,  \* MAX_PROBE_TARGETS, and the length of a set of targets
          MaxThreads,  \* MAX_PROBE_CONCURRENCY
          MaxBody,     \* MAX_PROBE_BODY_BYTES
          MaxBudget,   \* MAX_PROBE_BODY_BUDGET_BYTES
          OptionSets,  \* ProbeOptions: [body, threads, targets, token, insecure]
          None

\* What the constants are; the modules that give them values assume it.
ProbesAssumption ==
  /\ {MaxTargets, MaxThreads, MaxBody, MaxBudget} \subseteq Nat
  /\ \A o \in OptionSets :
       /\ {o.body, o.threads, o.targets} \subseteq Nat
       /\ o.token \in {"none", "good", "bad"} /\ o.insecure \in BOOLEAN
  /\ \A n \in 0..MaxTargets + 1 :   \* None is no list of endpoints
       None \notin [1..n -> [target : 0..n, reachable : {FALSE},
                            failure : {"options", "targets", "origin", "token"}]]

VARIABLES
  targets, options,
  phase,   \* "validate", "batch", "done" or "panicked"
  first,   \* index of the first target of the batch
  worker,  \* per target: "none", "spawned", "sent", "reading", "ended", "panicked"
  results, \* the slots of the shared vector
  answers, \* what the server of each target answered
  sent,    \* requests: the target, its origin and whether the token went along
  report   \* the endpoints returned, or None

vars == <<targets, options, phase, first, worker, results, answers, sent, report>>

Indices == DOMAIN targets

\* What a server may answer: no response at all, a response without success,
\* or a body of some size, whole or broken off.
Silent == {"timeout", "refused", "failed"}
Answers ==
  [kind : Silent \cup {"redirect", "error"}, size : {0}] \cup
  [kind : {"body", "broken"}, size : 0..MaxBody + 1]

-----------------------------------------------------------------------------
(* Validation.                                                             *)

\* resolve_metrics_url.
Resolves(url) == url.form = "valid"

\* validate_transport_security.
TransportAllowed(url) == url.cleartext /\ ~url.loopback => options.insecure

\* validate_probe_options.
OptionsValid ==
  /\ options.body \in 1..MaxBody
  /\ options.threads \in 1..MaxThreads
  /\ options.body * options.threads <= MaxBudget
  /\ options.targets \in 1..MaxTargets

\* validate_shared_bearer_origin.
SharedOrigin ==
  \A i \in Indices : Resolves(targets[i]) /\ targets[i].origin = targets[1].origin

Failed(i, failure) == [target |-> i, reachable |-> FALSE, failure |-> failure]
ProbeSet(failure) == <<Failed(0, failure)>>

Init ==
  /\ targets \in UNION {[1..n -> Urls] : n \in 0..MaxTargets + 1}
  /\ options \in OptionSets
  /\ phase = "validate" /\ first = 1
  /\ worker = [i \in Indices |-> "none"]
  /\ results = [i \in Indices |-> None]
  /\ answers = [i \in Indices |-> None]
  /\ sent = {} /\ report = None

Refusal ==
  IF targets = <<>> THEN <<>>
  ELSE IF ~OptionsValid THEN ProbeSet("options")
  ELSE IF Len(targets) > options.targets THEN ProbeSet("targets")
  ELSE IF options.token # "none" /\ ~SharedOrigin THEN ProbeSet("origin")
  ELSE IF options.token = "bad" THEN [i \in Indices |-> Failed(i, "token")]
  ELSE None

Validate ==
  /\ phase = "validate"
  /\ report' = Refusal
  /\ phase' = IF Refusal = None THEN "batch" ELSE "done"
  /\ UNCHANGED <<targets, options, first, worker, results, answers, sent>>

-----------------------------------------------------------------------------
(* The batches.                                                            *)

Batch == {i \in Indices : first <= i /\ i < first + options.threads}
Over(i) == worker[i] \in {"ended", "panicked"}

Advance(i, state) == worker' = [worker EXCEPT ![i] = state]

\* Seeded fault: the endpoints in the order in which they arrive.
StoreArrived(i, endpoint) ==
  LET free == CHOOSE j \in Indices : results[j] = None /\ \A k \in 1..j - 1 : results[k] # None
  IN  /\ results' = [results EXCEPT ![free] = endpoint]
      /\ Advance(i, "ended")
\* The slot of a target; a thread that ends stores its endpoint under a lock.
Store(i, endpoint) ==
  /\ results' = [results EXCEPT ![i] = endpoint]
  /\ Advance(i, "ended")

\* Threads are spawned in order; when the system refuses one the scope
\* panics, after the threads it has are joined.
Spawn(i) ==
  /\ phase = "batch" /\ i \in Batch /\ worker[i] = "none"
  /\ \A j \in Batch : j < i => worker[j] # "none"
  /\ \A j \in Batch : worker[j] # "panicked"
  /\ \/ Advance(i, "spawned") \/ Advance(i, "panicked")
  /\ UNCHANGED <<targets, options, phase, first, results, answers, sent, report>>

\* collect_one up to its request.
Send(i) ==
  /\ worker[i] = "spawned"
  /\ IF Resolves(targets[i]) /\ TransportAllowed(targets[i])
     THEN /\ sent' = sent \cup {[target |-> i, origin |-> targets[i].origin,
                                 token |-> options.token = "good"]}
          /\ Advance(i, "sent") /\ UNCHANGED results
     ELSE /\ Store(i, Failed(i, "url")) /\ UNCHANGED sent
  /\ UNCHANGED <<targets, options, phase, first, answers, report>>

\* The response, or that there is none; redirects are not followed.
Answer(i) ==
  /\ worker[i] = "sent"
  /\ \E answer \in Answers :
       /\ answers' = [answers EXCEPT ![i] = answer]
       /\ IF answer.kind \in {"body", "broken"}
          THEN Advance(i, "reading") /\ UNCHANGED results
          ELSE Store(i, Failed(i, answer.kind))
  /\ UNCHANGED <<targets, options, phase, first, sent, report>>

\* The body is read up to one byte more than the limit.
Retained(i) == IF answers[i].size > options.body THEN options.body + 1 ELSE answers[i].size

Read(i) ==
  /\ worker[i] = "reading"
  /\ IF answers[i].kind = "broken" /\ Retained(i) <= options.body THEN Store(i, Failed(i, "broken"))
     ELSE IF Retained(i) > options.body THEN Store(i, Failed(i, "size"))
     ELSE Store(i, [target |-> i, reachable |-> TRUE, failure |-> None])
  /\ UNCHANGED <<targets, options, phase, first, answers, sent, report>>

\* The scope has joined its threads: the next batch, the answer, or a panic.
Join ==
  /\ phase = "batch"
  /\ \/ \A i \in Batch : Over(i)
     \/ /\ \A i \in Batch : worker[i] = "none" \/ Over(i)
        /\ \E i \in Batch : worker[i] = "panicked"
  /\ IF \E i \in Batch : worker[i] = "panicked" THEN phase' = "panicked" /\ UNCHANGED <<first, report>>
     ELSE IF first + options.threads <= Len(targets)
     THEN first' = first + options.threads /\ UNCHANGED <<phase, report>>
     ELSE phase' = "done" /\ report' = results /\ UNCHANGED first
  /\ UNCHANGED <<targets, options, worker, results, answers, sent>>

Next ==
  \/ Validate \/ Join
  \/ \E i \in Indices : Spawn(i) \/ Send(i) \/ Answer(i) \/ Read(i)

Spec == Init /\ [][Next]_vars

-----------------------------------------------------------------------------
(* Properties.                                                             *)

\* Whatever the threads interleave: a token reaches one origin alone and no
\* request is sent over cleartext to a remote host unasked; a set that is
\* refused sends nothing; no target is asked twice; the bodies held at once
\* stay within the budget (and the byte each that shows an excess); and the
\* endpoints are those of the targets in their order, each what its own
\* server answered: reachable after a whole body within the limit alone.
ProbesExact ==
  LET asked == {r.target : r \in sent}
      held == MapThenSumSet(Retained, {i \in Indices : worker[i] = "reading"})
  IN  /\ \A r, s \in sent : (r.token \/ s.token) => r.origin = s.origin
      /\ \A i \in asked : targets[i].cleartext => targets[i].loopback \/ options.insecure
      /\ phase # "validate" /\ held > 0 => held <= MaxBudget + options.threads
      /\ report # None =>
           /\ sent = {} \/ Len(report) = Len(targets)
           /\ \A i \in DOMAIN report : Len(report) = Len(targets) /\ report[i].target # 0 =>
                /\ report[i].target = i
                /\ report[i].reachable <=>
                     /\ i \in asked
                     /\ answers[i].kind = "body" /\ answers[i].size <= options.body
=============================================================================
