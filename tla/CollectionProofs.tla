-------------------------- MODULE CollectionProofs --------------------------
(***************************************************************************)
(* Proofs about how measurements are collected, for every driver, server   *)
(* and limit: what the result of a command promises to its caller          *)
(* (CommandRun), what a batch of probes reports of its targets (Probes),   *)
(* what a healthy report of the cards vouches for (Collector) and what a   *)
(* latency interval says of the requests within it (Histograms).           *)
(***************************************************************************)
EXTENDS CommandRun, SequenceTheorems, FiniteSetTheorems, TLAPS

TypeOK ==
  /\ pc \in Pipes \cup {"wait", "check", "sweep", "reap", "done"}
  /\ result \in {None, "ok", "timeout", "failed", "status", "tooLarge", "text"}
  /\ child \in {"running", "zombie", "reaped"} /\ code \in BOOLEAN /\ text \in BOOLEAN
  /\ helper \in {"none", "group", "left", "gone"}
  /\ written \in [Pipes -> Nat] /\ buffered \in [Pipes -> Nat] /\ retained \in [Pipes -> Nat]
  /\ reader \in [Pipes -> {"reading", "all", "failed"}]
  /\ swept \in BOOLEAN /\ expired \in BOOLEAN

\* No unit of output is lost before the limit: what was written is in the pipe
\* or retained, and what is dropped was beyond a full MaxStdout.
Conserved ==
  /\ written["stderr"] = buffered["stderr"] + retained["stderr"]
  /\ written["stdout"] >= buffered["stdout"] + retained["stdout"]
  /\ retained["stdout"] <= MaxStdout
  /\ retained["stdout"] < MaxStdout => written["stdout"] = buffered["stdout"] + retained["stdout"]

\* A reader is done only when nothing is left and nobody is left to write.
Drained(p) == reader[p] = "all"
DrainedInv == \A p \in Pipes : Drained(p) => ~Running /\ buffered[p] = 0

\* How far run has come, and what it then relies on.
Forced == result \in {"timeout", "failed"}
RunInv ==
  /\ pc \in Pipes \cup {"check", "done"} => child = "reaped"
  /\ pc \in {"stderr", "check"} => Drained("stdout")
  /\ pc = "check" => Drained("stderr")
  /\ pc \in Pipes \cup {"wait", "check"} => result = None
  /\ pc \in {"sweep", "reap"} => Forced
  /\ pc = "done" => Forced \/ Drained("stdout")
  /\ swept => pc \in {"reap", "done"} /\ child # "running" /\ helper # "group"
  /\ result = "ok" => pc = "done" /\ code /\ text /\ Drained("stdout")
                      /\ written["stdout"] = retained["stdout"]

IInv == TypeOK /\ Conserved /\ DrainedInv /\ RunInv

-----------------------------------------------------------------------------
\* Nothing is written, running or answered before it starts.
LEMMA InitInv ==
  ASSUME CommandAssumption, Init
  PROVE  IInv
<1>1. /\ written \in [Pipes -> Nat] /\ buffered \in [Pipes -> Nat] /\ retained \in [Pipes -> Nat]
      /\ \A p \in Pipes : written[p] = 0 /\ buffered[p] = 0 /\ retained[p] = 0
      /\ reader \in [Pipes -> {"reading", "all", "failed"}] /\ \A p \in Pipes : ~Drained(p)
  BY DEF Init, Drained
<1>2. TypeOK BY <1>1 DEF Init, TypeOK
<1>3. Conserved BY <1>1 DEF Conserved, Pipes, CommandAssumption
<1>4. DrainedInv BY <1>1 DEF DrainedInv
<1>5. RunInv BY DEF Init, RunInv, Pipes, CommandAssumption
<1> QED BY <1>2, <1>3, <1>4, <1>5 DEF IInv

\* The ways run goes on; none touches the output.
LEMMA RunCases ==
  ASSUME Run \/ WaitFails
  PROVE  /\ UNCHANGED <<world, expired>>
         /\ \/ Waited \/ Sweep \/ Reap \/ Check
            \/ \E error \in {"timeout", "failed"} :
                 pc \in Pipes \cup {"wait"} /\ Abandon(error)
            \/ \E p \in Pipes : Receive(p)
BY DEF Run, Waited, TimesOut, ReaderFailed, WaitFails, Abandon, Sweep, Reap, Check, Receive

\* Every action keeps the types.
LEMMA TypeStep ==
  ASSUME CommandAssumption, TypeOK, [Next]_vars
  PROVE  TypeOK'
<1> USE DEF TypeOK, Pipes, world, output
<1>1. CASE Behave BY <1>1 DEF Behave
<1>2. CASE Deadline BY <1>2 DEF Deadline
<1>3. CASE Run \/ WaitFails
  <2>1. CASE Waited BY <2>1 DEF Waited
  <2>2. CASE Sweep BY <2>2 DEF Sweep
  <2>3. CASE Reap BY <2>3 DEF Reap
  <2>4. CASE Check BY <2>4 DEF Check, Outcome
  <2>5. ASSUME NEW error \in {"timeout", "failed"}, Abandon(error) PROVE TypeOK'
    BY <2>5 DEF Abandon
  <2>6. ASSUME NEW p \in Pipes, Receive(p) PROVE TypeOK' BY <2>6 DEF Receive
  <2> QED BY <1>3, <2>1, <2>2, <2>3, <2>4, <2>5, <2>6, RunCases
<1>4. ASSUME NEW p \in Pipes, Write(p) PROVE TypeOK' BY <1>4 DEF Write
<1>5. ASSUME NEW p \in Pipes, Read(p) PROVE TypeOK'
  <2>1. /\ buffered[p] - 1 \in Nat
        /\ (IF p = "stdout" /\ retained[p] = MaxStdout THEN retained[p] ELSE retained[p] + 1) \in Nat
    BY <1>5 DEF Read
  <2> QED BY <1>5, <2>1 DEF Read
<1>6. ASSUME NEW p \in Pipes, ReadEnd(p) \/ ReadFails(p) PROVE TypeOK'
  BY <1>6 DEF ReadEnd, ReadFails
<1>7. CASE Done \/ UNCHANGED vars BY <1>7 DEF Done, vars
<1> QED BY <1>1, <1>2, <1>3, <1>4, <1>5, <1>6, <1>7 DEF Next

\* Only who writes and who reads touches what is in a pipe.
LEMMA OutputFrame ==
  ASSUME Behave \/ Deadline \/ Run \/ WaitFails \/ Done \/ UNCHANGED vars
  PROVE  UNCHANGED <<output, reader>>
<1>1. CASE Run \/ WaitFails BY <1>1, RunCases DEF world
<1>2. CASE Behave \/ Deadline \/ Done \/ UNCHANGED vars
  BY <1>2 DEF Behave, Deadline, Done, vars, world, output
<1> QED BY <1>1, <1>2

\* A unit is written into a pipe and read out of it; what the reader does not
\* retain it drops because MaxStdout is reached.
LEMMA ConservedStep ==
  ASSUME CommandAssumption, TypeOK, Conserved, [Next]_vars
  PROVE  Conserved'
<1>0. /\ \A p \in Pipes : written[p] \in Nat /\ buffered[p] \in Nat /\ retained[p] \in Nat
      /\ MaxStdout \in Nat
  BY DEF TypeOK, CommandAssumption
<1>1. ASSUME NEW p \in Pipes, Write(p) PROVE Conserved'
  <2>1. /\ written' = [written EXCEPT ![p] = written[p] + 1]
        /\ buffered' = [buffered EXCEPT ![p] = buffered[p] + 1] /\ UNCHANGED retained
    BY <1>1 DEF Write
  <2>2. CASE p = "stdout" BY <1>0, <2>1, <2>2 DEF Conserved, TypeOK, Pipes
  <2>3. CASE p = "stderr" BY <1>0, <2>1, <2>3 DEF Conserved, TypeOK, Pipes
  <2> QED BY <2>2, <2>3 DEF Pipes
<1>2. ASSUME NEW p \in Pipes, Read(p) PROVE Conserved'
  <2>1. /\ buffered[p] > 0 /\ buffered' = [buffered EXCEPT ![p] = buffered[p] - 1]
        /\ UNCHANGED written
    BY <1>2 DEF Read
  <2>2. CASE p = "stdout"
    <3>1. retained' = [retained EXCEPT !["stdout"] =
            IF retained["stdout"] = MaxStdout THEN retained["stdout"] ELSE retained["stdout"] + 1]
      BY <1>2, <2>2 DEF Read
    <3> QED BY <1>0, <2>1, <2>2, <3>1 DEF Conserved, TypeOK, Pipes
  <2>3. CASE p = "stderr"
    <3>1. retained' = [retained EXCEPT !["stderr"] = retained["stderr"] + 1]
      BY <1>2, <2>3 DEF Read
    <3> QED BY <1>0, <2>1, <2>3, <3>1 DEF Conserved, TypeOK, Pipes
  <2> QED BY <2>2, <2>3 DEF Pipes
<1>3. CASE UNCHANGED <<written, buffered, retained>> BY <1>3 DEF Conserved
<1>4. (\E p \in Pipes : ReadEnd(p) \/ ReadFails(p)) => UNCHANGED <<written, buffered, retained>>
  BY DEF ReadEnd, ReadFails, output
<1> QED BY <1>1, <1>2, <1>3, <1>4, OutputFrame DEF Next, output

\* Once nobody holds a pipe nobody ever will: a process only comes from one
\* that runs.
LEMMA StaysEnded ==
  ASSUME TypeOK, [Next]_vars, ~Running
  PROVE  ~Running' /\ UNCHANGED written
<1>1. CASE Run \/ WaitFails
  BY <1>1, RunCases DEF Waited, Sweep, Reap, Check, Abandon, Receive, Running, TypeOK, world, output
<1>2. CASE ~(Run \/ WaitFails)
  BY <1>2 DEF TypeOK, Next, vars, Behave, Deadline, Done, Write, Read, ReadEnd, ReadFails, world,
     output, Running
<1> QED BY <1>1, <1>2

\* So a pipe that was read to its end stays as it is.
LEMMA DrainedStep ==
  ASSUME TypeOK, DrainedInv, [Next]_vars
  PROVE  /\ DrainedInv'
         /\ \A p \in Pipes : Drained(p) => Drained(p)' /\ retained'[p] = retained[p]
                                           /\ written'[p] = written[p]
<1>1. ASSUME NEW p \in Pipes, Write(p) \/ Read(p)
      PROVE  \A q \in Pipes : /\ reader'[q] = reader[q]
                              /\ Drained(q) => buffered'[q] = buffered[q] /\ retained'[q] = retained[q]
  BY <1>1 DEF Write, Read, TypeOK, DrainedInv, Drained
<1>2. ASSUME NEW p \in Pipes, ReadEnd(p)
      PROVE  /\ ~Running /\ buffered[p] = 0 /\ UNCHANGED <<written, buffered, retained>>
             /\ reader' = [reader EXCEPT ![p] = "all"]
  BY <1>2 DEF ReadEnd, output
<1>3. ASSUME NEW p \in Pipes, ReadFails(p)
      PROVE  /\ ~Drained(p) /\ UNCHANGED <<written, buffered, retained>>
             /\ reader' = [reader EXCEPT ![p] = "failed"]
  BY <1>3 DEF ReadFails, output, Drained
<1>4. (\E p \in Pipes : Drained(p)) => ~Running' /\ UNCHANGED written
  BY StaysEnded DEF DrainedInv
<1>5. CASE \E p \in Pipes : Write(p) \/ Read(p)
  BY <1>1, <1>4, <1>5 DEF DrainedInv, Drained
<1>6. CASE \E p \in Pipes : ReadEnd(p)
  <2>1. PICK p \in Pipes : ReadEnd(p) BY <1>6
  <2>2. ~Running' BY <1>2, <2>1, StaysEnded
  <2> QED BY <1>2, <2>1, <2>2 DEF DrainedInv, TypeOK, Drained
<1>7. CASE \E p \in Pipes : ReadFails(p)
  <2>1. PICK p \in Pipes : ReadFails(p) BY <1>7
  <2> QED BY <1>3, <1>4, <2>1 DEF DrainedInv, TypeOK, Drained
<1>8. CASE Behave \/ Deadline \/ Run \/ WaitFails \/ Done \/ UNCHANGED vars
  BY <1>4, <1>8, OutputFrame DEF DrainedInv, Drained, output
<1> QED BY <1>5, <1>6, <1>7, <1>8 DEF Next

\* run advances only over what is reaped and drained, and answers once; whoever
\* the kill program has killed does not come back.
LEMMA RunStep ==
  ASSUME CommandAssumption, IInv, [Next]_vars
  PROVE  RunInv'
<1>0. /\ \A p \in Pipes : Drained(p) => Drained(p)' /\ retained'[p] = retained[p]
                                        /\ written'[p] = written[p]
      /\ {"stdout", "stderr"} = Pipes /\ TypeOK /\ RunInv
  BY DrainedStep DEF IInv, Pipes
<1>1. CASE Run \/ WaitFails
  <2>0. UNCHANGED <<code, text, written, retained>> /\ UNCHANGED Drained("stdout")
        /\ UNCHANGED Drained("stderr")
    BY <1>1, RunCases DEF world, output, Drained
  <2>1. CASE Waited BY <1>0, <2>1 DEF Waited, RunInv, Forced, CommandAssumption
  <2>2. CASE Sweep BY <1>0, <2>2 DEF Sweep, RunInv, Forced, TypeOK, CommandAssumption
  <2>3. CASE Reap BY <1>0, <2>3 DEF Reap, RunInv, Forced, CommandAssumption
  <2>4. ASSUME NEW p \in Pipes, Receive(p) PROVE RunInv'
    BY <1>0, <2>0, <2>4 DEF Receive, RunInv, Forced, Drained, CommandAssumption
  <2>5. ASSUME NEW error \in {"timeout", "failed"}, pc \in Pipes \cup {"wait"}, Abandon(error)
        PROVE  RunInv'
    BY <1>0, <2>5 DEF Abandon, RunInv, Forced, CommandAssumption
  <2>6. CASE Check
    <3>1. /\ pc = "check" /\ pc' = "done" /\ result' = Outcome
          /\ UNCHANGED <<child, helper, swept>>
      BY <2>6 DEF Check
    <3>2. Drained("stdout") /\ child = "reaped"
      BY <1>0, <3>1 DEF RunInv
    <3>3. result' = "ok" => code /\ text /\ written["stdout"] = retained["stdout"]
      <4>1. result' = "ok" => code /\ text /\ ~(written["stdout"] > retained["stdout"])
        BY <3>1 DEF Outcome
      <4>2. /\ written["stdout"] \in Nat /\ buffered["stdout"] \in Nat
            /\ retained["stdout"] \in Nat
            /\ written["stdout"] >= buffered["stdout"] + retained["stdout"]
        BY <1>0 DEF IInv, TypeOK, Conserved
      <4> QED BY <4>1, <4>2
    <3> QED BY <1>0, <2>0, <3>1, <3>2, <3>3 DEF RunInv
  <2> QED BY <1>1, <2>1, <2>2, <2>3, <2>4, <2>5, <2>6, RunCases
<1>2. CASE ~(Run \/ WaitFails)
  <2>1. UNCHANGED <<pc, result, code, text, swept>>
    BY <1>2 DEF Next, Behave, Deadline, Done, Write, Read, ReadEnd, ReadFails, vars, world, output
  <2>2. child = "reaped" => child' = "reaped"
    BY <1>2 DEF Next, Behave, Deadline, Done, Write, Read, ReadEnd, ReadFails, vars
  <2>3. child # "running" /\ helper # "group" => child' # "running" /\ helper' # "group"
    BY <1>2 DEF Next, Behave, Deadline, Done, Write, Read, ReadEnd, ReadFails, vars
  <2> QED BY <1>0, <2>1, <2>2, <2>3 DEF RunInv, Forced
<1> QED BY <1>1, <1>2

\* What a command returns is all it wrote, of a command that succeeded; however
\* it ends, its child is reaped and nobody is left to write more, but of one that
\* was ended by force who left the group or survived a kill program that failed.
THEOREM CommandIsSound ==
  ASSUME CommandAssumption
  PROVE  Spec => []CommandResultIsSound
<1>1. Init => IInv BY InitInv
<1>2. IInv /\ [Next]_vars => IInv'
  BY TypeStep, ConservedStep, DrainedStep, RunStep DEF IInv
<1>3. IInv => CommandResultIsSound
  BY DEF IInv, TypeOK, Conserved, DrainedInv, Drained, RunInv, Forced, Running,
     CommandResultIsSound, Pipes
<1> QED BY <1>1, <1>2, <1>3, PTL DEF Spec

-----------------------------------------------------------------------------
(* The probes of a cycle, for any targets, options, limits and answers.    *)

CONSTANTS Urls, MaxTargets, MaxThreads, MaxBody, MaxBudget, OptionSets
VARIABLES targets, options, phase, first, worker, results, answers, sent, report

Probe == INSTANCE Probes

\* What a thread of the scope is, and what a slot may hold.
States == {"none", "spawned", "sent", "reading", "ended", "panicked"}
Slots == {None} \cup [target : Probe!Indices, reachable : BOOLEAN,
                      failure : {None, "url", "broken", "size", "redirect", "error"} \cup Probe!Silent]

ProbeTypes ==
  /\ targets \in Seq(Urls) /\ Len(targets) <= MaxTargets + 1
  /\ options \in OptionSets
  /\ phase \in {"validate", "batch", "done", "panicked"} /\ first \in Nat \ {0}
  /\ worker \in [Probe!Indices -> States]
  /\ results \in [Probe!Indices -> Slots]
  /\ answers \in [Probe!Indices -> {None} \cup Probe!Answers]

Asked(i) == \E r \in sent : r.target = i
Idle == sent = {} /\ \A i \in Probe!Indices : worker[i] = "none"

\* Threads run for what was admitted alone.
AdmittedInv ==
  /\ phase = "validate" => Idle
  /\ phase = "batch" \/ ~Idle =>
       /\ Probe!OptionsValid /\ options.token # "bad"
       /\ options.token # "none" => Probe!SharedOrigin

\* They are those of one batch: before it all have ended, beyond it none has
\* begun.
BatchInv ==
  \A i \in Probe!Indices :
    /\ i < first => worker[i] = "ended"
    /\ worker[i] # "none" => i < first + options.threads

\* Each request is that of its target and of a thread that sent it.
SentInv ==
  \A r \in sent :
    /\ r.target \in Probe!Indices /\ worker[r.target] \in {"sent", "reading", "ended"}
    /\ r.origin = targets[r.target].origin /\ r.token = (options.token = "good")
    /\ Probe!TransportAllowed(targets[r.target])

\* What a thread has found is what its own server answered to its request.
Reachable(i) ==
  Asked(i) /\ answers[i].kind = "body" /\ answers[i].size <= options.body
WorkerInv ==
  \A i \in Probe!Indices :
    /\ worker[i] \in {"sent", "reading"} => Asked(i)
    /\ worker[i] = "reading" => answers[i] \in Probe!Answers /\ answers[i].kind \in {"body", "broken"}
    /\ worker[i] = "ended" =>
         /\ results[i].target = i
         /\ results[i].reachable <=> Reachable(i)

\* What is returned is a refusal, or every thread's endpoint in its slot.
ReturnInv ==
  report # None =>
    /\ phase = "done"
    /\ \/ Idle /\ report = Probe!Refusal
       \/ report = results /\ \A i \in Probe!Indices : worker[i] = "ended"

ProbeInv == ProbeTypes /\ AdmittedInv /\ BatchInv /\ SentInv /\ WorkerInv /\ ReturnInv

-----------------------------------------------------------------------------
\* The numbers of a plan, and the targets by their places.
LEMMA ProbeFacts ==
  ASSUME Probe!ProbesAssumption, ProbeTypes
  PROVE  /\ Probe!Indices = 1..Len(targets) /\ Len(targets) \in Nat
         /\ {options.body, options.threads, options.targets} \subseteq Nat
         /\ {MaxTargets, MaxThreads, MaxBody, MaxBudget} \subseteq Nat
         /\ options.token \in {"none", "good", "bad"}
BY DEF Probe!ProbesAssumption, ProbeTypes, Probe!Indices

\* A set of targets that is not refused is admitted.
LEMMA RefusalFacts ==
  ASSUME Probe!ProbesAssumption, ProbeTypes, Probe!Refusal = None
  PROVE  /\ Probe!OptionsValid /\ options.token # "bad"
         /\ options.token # "none" => Probe!SharedOrigin
<1> DEFINE Kinds == {"options", "targets", "origin", "token"}
           Lists(n) == [1..n -> [target : 0..n, reachable : {FALSE}, failure : Kinds]]
<1>0. /\ Probe!Indices = 1..Len(targets) /\ Len(targets) \in Nat
      /\ Len(targets) <= MaxTargets + 1 /\ MaxTargets \in Nat
  BY ProbeFacts DEF ProbeTypes
<1>1. \A n \in 0..MaxTargets + 1 : None \notin Lists(n)
  BY DEF Probe!ProbesAssumption
<1>n. 0 \in 0..MaxTargets + 1 /\ 1 \in 0..MaxTargets + 1 /\ Len(targets) \in 0..MaxTargets + 1
  BY <1>0
<1>l. <<>> \in Lists(0)
  OBVIOUS
<1>e. \A kind \in Kinds : Probe!ProbeSet(kind) \in Lists(1)
  <2> SUFFICES ASSUME NEW kind \in Kinds
               PROVE  Probe!ProbeSet(kind) \in Lists(1)
    OBVIOUS
  <2> DEFINE e == [target |-> 0, reachable |-> FALSE, failure |-> kind]
  <2>1. e \in [target : 0..1, reachable : {FALSE}, failure : Kinds]
    OBVIOUS
  <2>2. Probe!ProbeSet(kind) = <<e>>
    BY DEF Probe!ProbeSet, Probe!Failed
  <2> HIDE DEF e
  <2> DEFINE R == [target : 0..1, reachable : {FALSE}, failure : Kinds]
  <2>3. e \in R
    BY <2>1
  <2> HIDE DEF R
  <2>4. <<e>> \in [1..1 -> R]
    BY <2>3
  <2> QED BY <2>2, <2>4 DEF R
<1>t. [i \in Probe!Indices |-> Probe!Failed(i, "token")] \in Lists(Len(targets))
  <2> SUFFICES ASSUME NEW i \in 1..Len(targets)
               PROVE  Probe!Failed(i, "token") \in [target : 0..Len(targets), reachable : {FALSE},
                                                     failure : Kinds]
    BY <1>0
  <2>1. i \in 0..Len(targets)
    BY <1>0
  <2> QED BY <2>1 DEF Probe!Failed
<1>2. <<>> # None
  <2> HIDE DEF Lists
  <2> QED BY Zenon, <1>n, <1>1, <1>l
<1>3. \A kind \in Kinds : Probe!ProbeSet(kind) # None
  <2> HIDE DEF Lists
  <2> QED BY Zenon, <1>n, <1>1, <1>e
<1>4. [i \in Probe!Indices |-> Probe!Failed(i, "token")] # None
  <2> HIDE DEF Lists
  <2> QED BY Zenon, <1>n, <1>1, <1>t
<1> QED BY <1>2, <1>3, <1>4 DEF Probe!Refusal

\* Nothing has begun.
LEMMA ProbeInit ==
  ASSUME Probe!ProbesAssumption, Probe!Init
  PROVE  ProbeInv
<1>1. PICK n \in 0..MaxTargets + 1 : targets \in [1..n -> Urls]
  BY DEF Probe!Init
<1>2. n \in Nat /\ n <= MaxTargets + 1
  BY DEF Probe!ProbesAssumption
<1>3. targets \in Seq(Urls) /\ Len(targets) = n
  BY <1>1, <1>2
<1>4. ProbeTypes
  BY <1>2, <1>3 DEF ProbeTypes, Probe!Init, States, Slots
<1>5. Idle
  BY DEF Idle, Probe!Init
<1>6. Probe!Indices \subseteq Nat \ {0}
  BY <1>2, <1>3 DEF Probe!Indices
<1> QED BY <1>4, <1>5, <1>6 DEF ProbeInv, AdmittedInv, BatchInv, SentInv, WorkerInv, ReturnInv,
           Probe!Init

\* What is refused is not begun.
LEMMA ValidateStep ==
  ASSUME Probe!ProbesAssumption, ProbeInv, Probe!Validate
  PROVE  ProbeInv'
<1>1. /\ phase = "validate" /\ report' = Probe!Refusal
      /\ phase' = IF Probe!Refusal = None THEN "batch" ELSE "done"
      /\ UNCHANGED <<targets, options, first, worker, results, answers, sent>>
  BY DEF Probe!Validate
<1>2. ProbeTypes' /\ Probe!Indices' = Probe!Indices
  BY <1>1 DEF ProbeInv, ProbeTypes, Slots, Probe!Indices, Probe!Answers, Probe!Silent
<1>3. Idle /\ Idle' /\ (Probe!Refusal)' = Probe!Refusal
  BY <1>1, <1>2 DEF ProbeInv, AdmittedInv, Idle, Probe!Refusal, Probe!OptionsValid,
     Probe!SharedOrigin, Probe!Resolves
<1>4. AdmittedInv'
  <2>1. phase' = "batch" => /\ Probe!OptionsValid /\ options.token # "bad"
                            /\ options.token # "none" => Probe!SharedOrigin
    BY <1>1, RefusalFacts DEF ProbeInv
  <2> QED BY <1>1, <1>2, <1>3, <2>1 DEF AdmittedInv, Probe!OptionsValid, Probe!SharedOrigin,
             Probe!Resolves
<1>5. BatchInv' /\ SentInv' /\ WorkerInv'
  BY <1>1, <1>2 DEF ProbeInv, BatchInv, SentInv, WorkerInv, Reachable, Asked,
     Probe!TransportAllowed, Probe!Answers, Probe!Silent
<1>6. ReturnInv'
  BY <1>1, <1>3 DEF ReturnInv
<1> QED BY <1>2, <1>4, <1>5, <1>6 DEF ProbeInv

\* What was asked for stays what it was.
LEMMA PlanStays ==
  ASSUME UNCHANGED <<targets, options>>
  PROVE  /\ Probe!Indices' = Probe!Indices /\ Slots' = Slots
         /\ (Probe!OptionsValid)' <=> Probe!OptionsValid
         /\ (Probe!SharedOrigin)' <=> Probe!SharedOrigin
         /\ (Probe!Refusal)' = Probe!Refusal
BY DEF Probe!Indices, Slots, Probe!OptionsValid, Probe!SharedOrigin, Probe!Resolves,
   Probe!Refusal, Probe!Silent

\* A thread of the batch begins, or the system refuses it.
LEMMA SpawnStep ==
  ASSUME Probe!ProbesAssumption, ProbeInv, NEW i \in Probe!Indices, Probe!Spawn(i)
  PROVE  ProbeInv'
<1>0. PICK state \in {"spawned", "panicked"} : worker' = [worker EXCEPT ![i] = state]
  BY DEF Probe!Spawn, Probe!Advance
<1>1. /\ phase = "batch" /\ worker[i] = "none" /\ first <= i /\ i < first + options.threads
      /\ UNCHANGED <<targets, options, phase, first, results, answers, sent, report>>
  BY DEF Probe!Spawn, Probe!Batch
<1>2. /\ Probe!Indices' = Probe!Indices /\ Slots' = Slots
      /\ (Probe!OptionsValid)' <=> Probe!OptionsValid
      /\ (Probe!SharedOrigin)' <=> Probe!SharedOrigin
  BY <1>1, PlanStays
<1>3. ProbeTypes'
  BY <1>0, <1>1, <1>2 DEF ProbeInv, ProbeTypes, States, Probe!Answers
<1>4. AdmittedInv'
  BY <1>1, <1>2 DEF ProbeInv, AdmittedInv
<1>5. BatchInv'
  BY <1>0, <1>1, <1>2 DEF ProbeInv, ProbeTypes, BatchInv
<1>6. SentInv'
  BY <1>0, <1>1, <1>2 DEF ProbeInv, ProbeTypes, SentInv, Probe!TransportAllowed
<1>7. WorkerInv'
  BY <1>0, <1>1, <1>2 DEF ProbeInv, ProbeTypes, WorkerInv, Reachable, Asked, Probe!Answers
<1>8. ReturnInv'
  BY <1>1 DEF ProbeInv, ReturnInv
<1> QED BY <1>3, <1>4, <1>5, <1>6, <1>7, <1>8 DEF ProbeInv

\* A thread that runs is of an admitted plan that has not been answered.
LEMMA RunningFacts ==
  ASSUME Probe!ProbesAssumption, ProbeInv, NEW i \in Probe!Indices,
         worker[i] \notin {"none", "ended"},
         UNCHANGED <<targets, options, phase, first, report>>
  PROVE  /\ AdmittedInv' /\ ReturnInv'
         /\ first <= i /\ i < first + options.threads
         /\ Probe!Indices' = Probe!Indices /\ Slots' = Slots
<1>1. ~Idle /\ i \in Nat /\ first \in Nat
  BY ProbeFacts DEF Idle, ProbeInv, ProbeTypes
<1>2. phase # "validate" /\ report = None
  BY <1>1 DEF ProbeInv, AdmittedInv, ReturnInv
<1>3. AdmittedInv'
  BY <1>1, <1>2, PlanStays DEF ProbeInv, AdmittedInv
<1> QED BY <1>1, <1>2, <1>3, PlanStays DEF ProbeInv, BatchInv, ReturnInv

\* A thread that ends has stored what its own server answered, and nothing else
\* has changed.
LEMMA StoreKeeps ==
  ASSUME Probe!ProbesAssumption, ProbeInv, NEW i \in Probe!Indices, NEW e \in Slots,
         worker[i] \notin {"none", "ended"}, Asked(i) \/ worker[i] = "spawned",
         UNCHANGED <<targets, options, phase, first, sent, report>>,
         answers' \in [Probe!Indices -> {None} \cup Probe!Answers],
         \A j \in Probe!Indices \ {i} : answers'[j] = answers[j],
         e.target = i, e.reachable <=> Reachable(i)', Probe!Store(i, e)
  PROVE  ProbeInv'
<1>1. /\ AdmittedInv' /\ ReturnInv' /\ first <= i /\ i < first + options.threads
      /\ Probe!Indices' = Probe!Indices /\ Slots' = Slots
  BY RunningFacts
<1>2. results' = [results EXCEPT ![i] = e] /\ worker' = [worker EXCEPT ![i] = "ended"]
  BY DEF Probe!Store, Probe!Advance
<1>3. ProbeTypes'
  BY <1>1, <1>2 DEF ProbeInv, ProbeTypes, States, Probe!Answers, Probe!Silent
<1>4. BatchInv'
  BY <1>1, <1>2 DEF ProbeInv, ProbeTypes, BatchInv
<1>5. SentInv'
  BY <1>1, <1>2 DEF ProbeInv, ProbeTypes, SentInv, Probe!TransportAllowed
<1>6. WorkerInv'
  <2>1. /\ worker'[i] = "ended" /\ results'[i] = e
        /\ \A j \in Probe!Indices \ {i} : worker'[j] = worker[j] /\ results'[j] = results[j]
        /\ \A j \in Probe!Indices : Asked(j)' <=> Asked(j)
    BY <1>2 DEF Asked, ProbeInv, ProbeTypes
  <2>2. \A j \in Probe!Indices \ {i} : Reachable(j)' <=> Reachable(j)
    BY <2>1 DEF Reachable
  <2>3. (Probe!Answers)' = Probe!Answers
    BY DEF Probe!Answers, Probe!Silent
  <2> SUFFICES ASSUME NEW j \in Probe!Indices
               PROVE  /\ worker'[j] \in {"sent", "reading"} => Asked(j)'
                      /\ worker'[j] = "reading" => /\ answers'[j] \in Probe!Answers
                                                   /\ answers'[j].kind \in {"body", "broken"}
                      /\ worker'[j] = "ended" => /\ results'[j].target = j
                                                 /\ results'[j].reachable <=> Reachable(j)'
    BY <1>1, <2>3 DEF WorkerInv
  <2>4. CASE j = i
    BY <2>1, <2>4
  <2>5. CASE j # i
    BY <2>1, <2>2, <2>5 DEF ProbeInv, WorkerInv
  <2> QED BY <2>4, <2>5
<1> QED BY <1>1, <1>3, <1>4, <1>5, <1>6 DEF ProbeInv

\* A request is sent to a target that allows it, or the slot tells why not.
LEMMA SendStep ==
  ASSUME Probe!ProbesAssumption, ProbeInv, NEW i \in Probe!Indices, Probe!Send(i)
  PROVE  ProbeInv'
<1>1. worker[i] = "spawned" /\ UNCHANGED <<targets, options, phase, first, answers, report>>
  BY DEF Probe!Send
<1>2. /\ AdmittedInv' /\ ReturnInv' /\ first <= i /\ i < first + options.threads
      /\ Probe!Indices' = Probe!Indices /\ Slots' = Slots
  BY <1>1, RunningFacts
<1>3. ~Asked(i)
  BY <1>1 DEF ProbeInv, SentInv, Asked
<1>4. CASE /\ Probe!TransportAllowed(targets[i])
           /\ sent' = sent \cup {[target |-> i, origin |-> targets[i].origin,
                                  token |-> options.token = "good"]}
           /\ worker' = [worker EXCEPT ![i] = "sent"] /\ UNCHANGED results
  <2>1. ProbeTypes'
    BY <1>1, <1>2, <1>4 DEF ProbeInv, ProbeTypes, States, Probe!Answers
  <2>2. BatchInv'
    BY <1>1, <1>2, <1>4 DEF ProbeInv, ProbeTypes, BatchInv
  <2>3. SentInv'
    <3> SUFFICES ASSUME NEW r \in sent'
                 PROVE  /\ r.target \in Probe!Indices
                        /\ worker'[r.target] \in {"sent", "reading", "ended"}
                        /\ r.origin = targets[r.target].origin
                        /\ r.token = (options.token = "good")
                        /\ Probe!TransportAllowed(targets[r.target])
      BY <1>1, <1>2 DEF SentInv, Probe!TransportAllowed
    <3>1. CASE r \in sent
      <4>1. r.target # i
        BY <1>3, <3>1 DEF Asked
      <4> QED BY <1>4, <3>1, <4>1 DEF ProbeInv, SentInv, ProbeTypes
    <3>2. CASE r \notin sent
      <4>1. r = [target |-> i, origin |-> targets[i].origin, token |-> options.token = "good"]
        BY <1>4, <3>2
      <4>2. r.target = i /\ r.origin = targets[i].origin /\ r.token = (options.token = "good")
        BY <4>1
      <4>3. worker'[i] = "sent"
        BY <1>4 DEF ProbeInv, ProbeTypes
      <4> QED BY <1>4, <4>2, <4>3
    <3> QED BY <3>1, <3>2
  <2>4. WorkerInv'
    <3>1. /\ Asked(i)' /\ worker'[i] = "sent"
          /\ \A j \in Probe!Indices \ {i} : worker'[j] = worker[j] /\ (Asked(j)' <=> Asked(j))
      <4> DEFINE q == [target |-> i, origin |-> targets[i].origin, token |-> options.token = "good"]
      <4>1. q.target = i /\ sent' = sent \cup {q}
        BY <1>4
      <4> HIDE DEF q
      <4>2. Asked(i)' /\ \A j \in Probe!Indices \ {i} : Asked(j)' <=> Asked(j)
        BY <4>1 DEF Asked
      <4> QED BY <1>4, <4>2 DEF ProbeInv, ProbeTypes
    <3> QED BY <1>1, <1>2, <1>4, <3>1 DEF ProbeInv, WorkerInv, Reachable, Probe!Answers
  <2> QED BY <1>2, <2>1, <2>2, <2>3, <2>4 DEF ProbeInv
<1>5. CASE /\ results' = [results EXCEPT ![i] = Probe!Failed(i, "url")]
           /\ worker' = [worker EXCEPT ![i] = "ended"] /\ UNCHANGED sent
  <2> DEFINE e == Probe!Failed(i, "url")
  <2>1. e \in Slots /\ e.target = i /\ ~e.reachable
    BY DEF Probe!Failed, Slots
  <2>2. ~Reachable(i)'
    BY <1>3, <1>5 DEF Reachable, Asked
  <2>3. Probe!Store(i, e)
    BY <1>5 DEF Probe!Store, Probe!Advance
  <2>4. answers' \in [Probe!Indices -> {None} \cup Probe!Answers]
    BY <1>1 DEF ProbeInv, ProbeTypes
  <2> HIDE DEF e
  <2> QED BY <1>1, <1>5, <2>1, <2>2, <2>3, <2>4, StoreKeeps
<1> QED BY <1>4, <1>5 DEF Probe!Send, Probe!Store, Probe!Advance

\* There is no response to make use of, or a body begins.
LEMMA AnswerStep ==
  ASSUME Probe!ProbesAssumption, ProbeInv, NEW i \in Probe!Indices, Probe!Answer(i)
  PROVE  ProbeInv'
<1>1. worker[i] = "sent" /\ UNCHANGED <<targets, options, phase, first, sent, report>>
  BY DEF Probe!Answer
<1>2. PICK answer \in Probe!Answers :
        /\ answers' = [answers EXCEPT ![i] = answer]
        /\ IF answer.kind \in {"body", "broken"}
           THEN Probe!Advance(i, "reading") /\ UNCHANGED results
           ELSE Probe!Store(i, Probe!Failed(i, answer.kind))
  BY DEF Probe!Answer
<1>3. /\ answers' \in [Probe!Indices -> {None} \cup Probe!Answers] /\ answers'[i] = answer
      /\ \A j \in Probe!Indices \ {i} : answers'[j] = answers[j]
  BY <1>2 DEF ProbeInv, ProbeTypes
<1>4. Asked(i)
  BY <1>1 DEF ProbeInv, WorkerInv
<1>5. CASE answer.kind \in {"body", "broken"}
  <2>0. worker' = [worker EXCEPT ![i] = "reading"] /\ UNCHANGED results
    BY <1>2, <1>5 DEF Probe!Advance
  <2>1. /\ AdmittedInv' /\ ReturnInv' /\ first <= i /\ i < first + options.threads
        /\ Probe!Indices' = Probe!Indices /\ Slots' = Slots
    BY <1>1, RunningFacts
  <2>2. (Probe!Answers)' = Probe!Answers
    BY DEF Probe!Answers, Probe!Silent
  <2>3. ProbeTypes'
    BY <1>1, <1>3, <2>0, <2>1, <2>2 DEF ProbeInv, ProbeTypes, States
  <2>4. BatchInv'
    BY <1>1, <2>0, <2>1 DEF ProbeInv, ProbeTypes, BatchInv
  <2>5. SentInv'
    BY <1>1, <2>0, <2>1 DEF ProbeInv, ProbeTypes, SentInv, Probe!TransportAllowed
  <2>6. WorkerInv'
    <3>1. /\ worker'[i] = "reading"
          /\ \A j \in Probe!Indices \ {i} : worker'[j] = worker[j]
          /\ \A j \in Probe!Indices : Asked(j)' <=> Asked(j)
      BY <1>1, <2>0 DEF Asked, ProbeInv, ProbeTypes
    <3>2. \A j \in Probe!Indices \ {i} : Reachable(j)' <=> Reachable(j)
      BY <1>1, <1>3, <3>1 DEF Reachable
    <3> QED BY <1>3, <1>4, <1>5, <2>0, <2>1, <2>2, <3>1, <3>2 DEF ProbeInv, WorkerInv
  <2> QED BY <2>1, <2>3, <2>4, <2>5, <2>6 DEF ProbeInv
<1>6. CASE answer.kind \notin {"body", "broken"}
  <2>1. answer.kind \in Probe!Silent \cup {"redirect", "error"}
    BY <1>6 DEF Probe!Answers
  <2> DEFINE e == Probe!Failed(i, answer.kind)
  <2>2. e \in Slots /\ e.target = i /\ ~e.reachable
    BY <2>1 DEF Probe!Failed, Slots
  <2>3. ~Reachable(i)'
    BY <1>3, <1>6 DEF Reachable
  <2>4. Probe!Store(i, e)
    BY <1>2, <1>6
  <2> HIDE DEF e
  <2> QED BY <1>1, <1>3, <1>4, <2>2, <2>3, <2>4, StoreKeeps
<1> QED BY <1>5, <1>6

\* A body counts when it is whole and no larger than the limit.
LEMMA ReadStep ==
  ASSUME Probe!ProbesAssumption, ProbeInv, NEW i \in Probe!Indices, Probe!Read(i)
  PROVE  ProbeInv'
<1>1. worker[i] = "reading" /\ UNCHANGED <<targets, options, phase, first, answers, sent, report>>
  BY DEF Probe!Read
<1>2. /\ Asked(i) /\ answers[i] \in Probe!Answers /\ answers[i].kind \in {"body", "broken"}
      /\ answers \in [Probe!Indices -> {None} \cup Probe!Answers]
  BY <1>1 DEF ProbeInv, WorkerInv, ProbeTypes
<1>3. options.body \in Nat /\ answers[i].size \in Nat
  BY <1>2, ProbeFacts DEF ProbeInv, Probe!Answers
<1>4. Probe!Retained(i) <= options.body <=> answers[i].size <= options.body
  BY <1>3 DEF Probe!Retained
<1>5. /\ Probe!Retained(i) \in Nat
      /\ Probe!Retained(i) > options.body <=> ~(Probe!Retained(i) <= options.body)
  BY <1>3 DEF Probe!Retained
<1>6. Reachable(i)' <=> answers[i].kind = "body" /\ answers[i].size <= options.body
  BY <1>1, <1>2 DEF Reachable, Asked
<1>7. PICK e \in {Probe!Failed(i, "broken"), Probe!Failed(i, "size"),
                  [target |-> i, reachable |-> TRUE, failure |-> None]} :
        /\ Probe!Store(i, e)
        /\ e.reachable <=> answers[i].kind = "body" /\ answers[i].size <= options.body
  <2>1. CASE answers[i].kind = "broken" /\ Probe!Retained(i) <= options.body
    BY <2>1 DEF Probe!Read, Probe!Failed
  <2>2. CASE Probe!Retained(i) > options.body
    BY <2>2, <1>4, <1>5 DEF Probe!Read, Probe!Failed
  <2>3. CASE answers[i].kind = "body" /\ Probe!Retained(i) <= options.body
    BY <2>3, <1>4, <1>5 DEF Probe!Read
  <2> QED BY <1>2, <1>5, <2>1, <2>2, <2>3
<1>8. e \in Slots /\ e.target = i
  <2>1. \A kind \in {"broken", "size"} : /\ Probe!Failed(i, kind) \in Slots
                                         /\ Probe!Failed(i, kind).target = i
    BY DEF Probe!Failed, Slots
  <2>2. /\ [target |-> i, reachable |-> TRUE, failure |-> None] \in Slots
        /\ [target |-> i, reachable |-> TRUE, failure |-> None].target = i
    BY DEF Slots
  <2> HIDE DEF Slots
  <2> QED BY Zenon, <1>7, <2>1, <2>2
<1> QED BY <1>1, <1>2, <1>6, <1>7, <1>8, StoreKeeps

\* The threads of a batch are joined before the next one, the report or a panic.
LEMMA JoinStep ==
  ASSUME Probe!ProbesAssumption, ProbeInv, Probe!Join
  PROVE  ProbeInv'
<1>1. phase = "batch" /\ UNCHANGED <<targets, options, worker, results, answers, sent>>
  BY DEF Probe!Join
<1>2. report = None
  BY <1>1 DEF ProbeInv, ReturnInv
<1>3. /\ Probe!Indices = 1..Len(targets) /\ Len(targets) \in Nat
      /\ options.threads \in Nat \ {0} /\ first \in Nat \ {0}
  BY <1>1, ProbeFacts DEF ProbeInv, ProbeTypes, AdmittedInv, Probe!OptionsValid
<1>4. /\ Probe!Indices' = Probe!Indices /\ Slots' = Slots
      /\ (Probe!OptionsValid)' <=> Probe!OptionsValid
      /\ (Probe!SharedOrigin)' <=> Probe!SharedOrigin
      /\ (Probe!Answers)' = Probe!Answers
  BY <1>1, PlanStays DEF Probe!Answers, Probe!Silent
<1>5. first' \in Nat \ {0} /\ phase' \in {"batch", "done", "panicked"}
  BY <1>1, <1>3 DEF Probe!Join
<1>6. ProbeTypes'
  BY <1>1, <1>4, <1>5 DEF ProbeInv, ProbeTypes
<1>7. AdmittedInv'
  BY <1>1, <1>4, <1>5 DEF ProbeInv, AdmittedInv
<1>8. SentInv' /\ WorkerInv'
  BY <1>1, <1>4 DEF ProbeInv, SentInv, WorkerInv, Reachable, Asked, Probe!TransportAllowed
<1>9. CASE \E i \in Probe!Batch : worker[i] = "panicked"
  <2>1. phase' = "panicked" /\ UNCHANGED <<first, report>>
    BY <1>9 DEF Probe!Join
  <2>2. BatchInv' /\ ReturnInv'
    BY <1>1, <1>2, <1>4, <2>1 DEF ProbeInv, BatchInv, ReturnInv
  <2> QED BY <1>6, <1>7, <1>8, <2>2 DEF ProbeInv
<1>10. CASE ~\E i \in Probe!Batch : worker[i] = "panicked"
  <2>1. \A i \in Probe!Batch : worker[i] = "ended"
    BY <1>10 DEF Probe!Join, Probe!Over
  <2>2. \A i \in Probe!Indices : i < first + options.threads => worker[i] = "ended"
    BY <1>3, <2>1 DEF ProbeInv, BatchInv, Probe!Batch
  <2>3. CASE first + options.threads <= Len(targets)
    <3>1. first' = first + options.threads /\ UNCHANGED report
      BY <1>10, <2>3 DEF Probe!Join
    <3>2. BatchInv'
      BY <1>1, <1>3, <1>4, <2>2, <3>1 DEF ProbeInv, BatchInv
    <3> QED BY <1>2, <1>6, <1>7, <1>8, <3>1, <3>2 DEF ProbeInv, ReturnInv
  <2>4. CASE ~(first + options.threads <= Len(targets))
    <3>1. phase' = "done" /\ report' = results /\ UNCHANGED first
      BY <1>10, <2>4 DEF Probe!Join
    <3>2. \A i \in Probe!Indices : worker[i] = "ended"
      BY <1>3, <2>2, <2>4
    <3>3. ReturnInv' /\ BatchInv'
      BY <1>1, <1>4, <3>1, <3>2 DEF ProbeInv, BatchInv, ReturnInv
    <3> QED BY <1>6, <1>7, <1>8, <3>3 DEF ProbeInv
  <2> QED BY <2>3, <2>4
<1> QED BY <1>9, <1>10

\* Every step keeps the invariant.
LEMMA ProbeStep ==
  ASSUME Probe!ProbesAssumption, ProbeInv, [Probe!Next]_(Probe!vars)
  PROVE  ProbeInv'
<1>1. CASE UNCHANGED Probe!vars
  <2>1. /\ UNCHANGED <<targets, options, phase, first, worker, results, answers, sent, report>>
        /\ Probe!Indices' = Probe!Indices /\ Slots' = Slots
        /\ (Probe!OptionsValid)' <=> Probe!OptionsValid
        /\ (Probe!SharedOrigin)' <=> Probe!SharedOrigin
        /\ (Probe!Refusal)' = Probe!Refusal /\ (Probe!Answers)' = Probe!Answers
    BY <1>1, PlanStays DEF Probe!vars, Probe!Answers, Probe!Silent
  <2>2. ProbeTypes' /\ AdmittedInv' /\ ReturnInv'
    BY <2>1 DEF ProbeInv, ProbeTypes, AdmittedInv, ReturnInv, Idle
  <2>3. BatchInv' /\ SentInv' /\ WorkerInv'
    BY <2>1 DEF ProbeInv, BatchInv, SentInv, WorkerInv, Reachable, Asked, Probe!TransportAllowed
  <2> QED BY <2>2, <2>3 DEF ProbeInv
<1> QED BY <1>1, ValidateStep, JoinStep, SpawnStep, SendStep, AnswerStep, ReadStep DEF Probe!Next

-----------------------------------------------------------------------------
(* The bodies held at once.                                                *)

\* A set that has 0, and with each number its successor, has every natural
\* number: a least one without would leave a place for one too many.
LEMMA SetInduction ==
  ASSUME NEW S, 0 \in S, \A n \in Nat : n \in S => n + 1 \in S
  PROVE  Nat \subseteq S
<1> SUFFICES ASSUME NEW m \in Nat, m \notin S
             PROVE  FALSE
  OBVIOUS
<1> DEFINE T == {x \in 0..m : x \in S}
           f == [x \in T |-> x + 1]
<1>1. IsFiniteSet(T)
  BY FS_Interval, FS_Subset, 0 \in Int, m \in Int
<1>2. 0 \in T
  OBVIOUS
<1>3. IsFiniteSet(T \ {0}) /\ Cardinality(T \ {0}) = Cardinality(T) - 1
  BY <1>1, <1>2, FS_RemoveElement
<1>4. Cardinality(T) \in Nat
  BY <1>1, FS_CardinalityType
<1>5. f \in [T -> T \ {0}]
  <2> SUFFICES ASSUME NEW x \in T
               PROVE  x + 1 \in T \ {0}
    OBVIOUS
  <2> QED BY x # m
<1>6. \E x, y \in T : x # y /\ f[x] = f[y]
  <2> HIDE DEF T, f
  <2> QED BY <1>1, <1>3, <1>4, <1>5, FS_PigeonHole
<1> QED BY <1>6

\* The sum of what bodies of at most k bytes hold is defined for every set of
\* threads and is at most k for each of them.
LEMMA HeldBound ==
  ASSUME NEW S, IsFiniteSet(S), NEW k \in Nat, \A i \in S : Probe!Retained(i) \in 0..k
  PROVE  /\ Probe!MapThenSumSet(Probe!Retained, S) \in Nat
         /\ Probe!MapThenSumSet(Probe!Retained, S) <= k * Cardinality(S)
<1> DEFINE D == SUBSET S
           Size(T) == Cardinality(T)
           Of(T) == CHOOSE x \in T : TRUE
           Value(f, T) == IF T = {} THEN 0 ELSE Probe!Retained(Of(T)) + f[T \ {Of(T)}]
           Fold(f) == [T \in D |-> Value(f, T)]
           Upto(n) == \E f \in [D -> Nat] : \A T \in D :
                        Size(T) <= n => f[T] = Value(f, T) /\ f[T] <= k * Size(T)
           N == {n \in Nat : Upto(n)}
<1>1. \A T \in D : IsFiniteSet(T) /\ Size(T) \in Nat /\ Size(T) <= Size(S)
  BY FS_Subset, FS_CardinalityType
<1>2. \A T \in D : T # {} => /\ Of(T) \in T /\ T \ {Of(T)} \in D
                             /\ Size(T \ {Of(T)}) = Size(T) - 1
                             /\ Probe!Retained(Of(T)) \in 0..k
  BY <1>1, FS_RemoveElement
<1>3. {} \in D /\ Size({}) = 0 /\ \A T \in D : Size(T) = 0 => T = {}
  BY <1>1, FS_EmptySet
<1> HIDE DEF D, Size, Of
<1>4. 0 \in N
  <2> DEFINE f == [T \in D |-> 0]
  <2>1. f \in [D -> Nat]
    OBVIOUS
  <2>2. \A T \in D : Size(T) <= 0 => f[T] = Value(f, T) /\ f[T] <= k * Size(T)
    BY <1>1, <1>3
  <2> QED BY <2>1, <2>2
<1>5. ASSUME NEW n \in Nat, n \in N
      PROVE  n + 1 \in N
  <2>1. PICK f \in [D -> Nat] : \A T \in D :
               Size(T) <= n => f[T] = Value(f, T) /\ f[T] <= k * Size(T)
    BY <1>5
  <2> DEFINE g == [T \in D |-> IF Size(T) = n + 1 THEN Value(f, T) ELSE f[T]]
  <2>2. \A T \in D : Value(f, T) \in Nat
    BY <1>2
  <2>3. g \in [D -> Nat]
    <3> HIDE DEF Value
    <3> QED BY <2>2
  <2>4. ASSUME NEW T \in D, Size(T) <= n + 1
        PROVE  g[T] = Value(g, T) /\ g[T] <= k * Size(T)
    <3>1. CASE T = {}
      <4>1. Size(T) = 0 /\ Size(T) <= n /\ Size(T) # n + 1
        BY <1>3, <3>1
      <4>2. g[T] = f[T] /\ f[T] <= k * Size(T) /\ f[T] = Value(f, T)
        <5> HIDE DEF Value
        <5> QED BY <2>1, <4>1
      <4> HIDE DEF g
      <4> QED BY <3>1, <4>2
    <3>2. CASE T # {}
      <4> DEFINE U == T \ {Of(T)}
      <4>1. U \in D /\ Size(U) = Size(T) - 1 /\ Size(T) \in Nat /\ Size(U) \in Nat
        BY <1>1, <1>2, <3>2
      <4>2. g[U] = f[U] /\ f[U] <= k * Size(U)
        <5> HIDE DEF U, Value
        <5> QED BY <4>1, <2>1, <2>4
      <4>3. g[T] = Value(f, T)
        <5> HIDE DEF Value, U
        <5>1. CASE Size(T) = n + 1
          BY <5>1
        <5>2. CASE Size(T) # n + 1
          BY <5>2, <2>1, <2>4, <4>1
        <5> QED BY <5>1, <5>2
      <4>4. g[T] = Probe!Retained(Of(T)) + f[U] /\ g[T] = Value(g, T)
        <5> HIDE DEF g
        <5> QED BY <3>2, <4>2, <4>3
      <4>5. k * Size(T) = k + k * Size(U)
        <5> HIDE DEF U
        <5> QED BY <4>1
      <4>6. /\ Probe!Retained(Of(T)) \in 0..k /\ f[U] \in Nat /\ k * Size(U) \in Nat
        BY <1>2, <3>2, <4>1
      <4> HIDE DEF U, g, Value
      <4> QED BY <4>2, <4>4, <4>5, <4>6
    <3> QED BY <3>1, <3>2
  <2>5. Upto(n + 1)
    <3> HIDE DEF Value, g
    <3> QED BY <2>3, <2>4
  <2> HIDE DEF Upto
  <2> QED BY <2>5
<1>6. Size(S) \in N
  <2>1. S \in D
    BY DEF D
  <2> HIDE DEF N
  <2> QED BY <1>1, <1>4, <1>5, <2>1, SetInduction
<1>7. PICK f \in [D -> Nat] : \A T \in D : f[T] = Value(f, T) /\ f[T] <= k * Size(T)
  <2> HIDE DEF Value
  <2> QED BY <1>1, <1>6
<1>8. f = Fold(f)
  <2> HIDE DEF Value
  <2> QED BY <1>7
<1>9. ASSUME NEW h, h = Fold(h)
      PROVE  h[S] = f[S]
  <2> DEFINE M == {n \in Nat : \A T \in D : Size(T) <= n => h[T] = f[T]}
  <2>1. \A T \in D : h[T] = Value(h, T) /\ f[T] = Value(f, T)
    <3> HIDE DEF Value
    <3> QED BY <1>7, <1>9
  <2>2. 0 \in M
    <3> SUFFICES ASSUME NEW T \in D, Size(T) <= 0
                 PROVE  h[T] = f[T]
      OBVIOUS
    <3>1. T = {}
      BY <1>1, <1>3
    <3> QED BY <2>1, <3>1
  <2>3. ASSUME NEW n \in Nat, n \in M
        PROVE  n + 1 \in M
    <3> SUFFICES ASSUME NEW T \in D, Size(T) <= n + 1
                 PROVE  h[T] = f[T]
      OBVIOUS
    <3>1. CASE T = {}
      BY <2>1, <3>1
    <3>2. CASE T # {}
      <4>1. /\ T \ {Of(T)} \in D /\ Size(T \ {Of(T)}) = Size(T) - 1 /\ Size(T) \in Nat
        BY <1>1, <1>2, <3>2
      <4>2. h[T \ {Of(T)}] = f[T \ {Of(T)}]
        BY <4>1, <2>3
      <4> QED BY <2>1, <3>2, <4>2
    <3> QED BY <3>1, <3>2
  <2>4. S \in D
    BY DEF D
  <2> HIDE DEF M
  <2>5. Size(S) \in M
    BY <1>1, <2>2, <2>3, <2>4, SetInduction
  <2> QED BY <1>1, <2>4, <2>5 DEF M
<1> DEFINE c == CHOOSE h : h = Fold(h)
<1>10. c = Fold(c)
  <2> HIDE DEF Fold
  <2> QED BY <1>8
<1>11. Probe!MapThenSumSet(Probe!Retained, S) = c[S]
  BY DEF Probe!MapThenSumSet, Probe!MapThenFoldSet, D, Of
<1> HIDE DEF c
<1>12. c[S] = f[S]
  BY <1>9, <1>10
<1>13. f[S] \in Nat /\ f[S] <= k * Size(S)
  BY <1>7 DEF D
<1> QED BY <1>11, <1>12, <1>13 DEF Size

\* As many bodies are held as threads run, and they run for an admitted plan.
LEMMA HeldWithin ==
  ASSUME Probe!ProbesAssumption, ProbeInv
  PROVE  LET held == Probe!MapThenSumSet(Probe!Retained,
                                         {i \in Probe!Indices : worker[i] = "reading"})
         IN  held > 0 => held <= MaxBudget + options.threads
<1> DEFINE S == {i \in Probe!Indices : worker[i] = "reading"}
           held == Probe!MapThenSumSet(Probe!Retained, S)
           t == options.threads
           k == options.body + 1
<1>1. /\ Probe!Indices \subseteq Nat \ {0} /\ t \in Nat /\ options.body \in Nat /\ MaxBudget \in Nat
      /\ first \in Nat \ {0}
  BY ProbeFacts DEF ProbeInv, ProbeTypes
<1>2. S \subseteq first..(first + t - 1)
  <2> SUFFICES ASSUME NEW i \in S
               PROVE  i \in first..(first + t - 1)
    OBVIOUS
  <2>1. first <= i /\ i < first + t /\ i \in Nat
    BY <1>1 DEF ProbeInv, BatchInv
  <2> QED BY <1>1, <2>1
<1>3. IsFiniteSet(S) /\ Cardinality(S) \in Nat /\ Cardinality(S) <= t
  <2>1. first \in Int /\ first + t - 1 \in Int
    BY <1>1
  <2> HIDE DEF t, S
  <2>2. /\ IsFiniteSet(first..(first + t - 1))
        /\ Cardinality(first..(first + t - 1)) = IF first > first + t - 1 THEN 0 ELSE t
    BY <1>1, <2>1, FS_Interval
  <2>3. Cardinality(first..(first + t - 1)) <= t
    BY <1>1, <2>2
  <2>4. /\ IsFiniteSet(S) /\ Cardinality(S) <= Cardinality(first..(first + t - 1))
    BY <1>2, <2>2, FS_Subset
  <2> QED BY <1>1, <2>2, <2>3, <2>4, FS_CardinalityType
<1>4. \A i \in S : Probe!Retained(i) \in 0..k
  <2> SUFFICES ASSUME NEW i \in S
               PROVE  Probe!Retained(i) \in 0..k
    OBVIOUS
  <2>1. answers[i] \in Probe!Answers
    BY DEF ProbeInv, WorkerInv
  <2>2. answers[i].size \in Nat
    BY <2>1, ProbeFacts DEF Probe!Answers, ProbeInv
  <2> QED BY <1>1, <2>2 DEF Probe!Retained
<1>5. held \in Nat /\ held <= k * Cardinality(S)
  <2>1. k \in Nat
    BY <1>1
  <2> HIDE DEF S, k
  <2> QED BY <1>3, <1>4, <2>1, HeldBound
<1> SUFFICES ASSUME held > 0
             PROVE  held <= MaxBudget + t
  OBVIOUS
<1>6. S # {}
  <2>1. S = {} => Cardinality(S) = 0
    BY FS_EmptySet
  <2> HIDE DEF S, held
  <2>2. CASE Cardinality(S) = 0
    BY <1>1, <1>5, <2>2
  <2> QED BY <2>1, <2>2
<1>7. options.body * t <= MaxBudget
  <2>1. PICK i \in Probe!Indices : worker[i] = "reading"
    BY <1>6
  <2> QED BY <2>1 DEF ProbeInv, AdmittedInv, Idle, Probe!OptionsValid
<1> HIDE DEF S, held
<1>8. k * Cardinality(S) <= k * t /\ k * t = options.body * t + t /\ options.body * t \in Nat
  <2> DEFINE c == Cardinality(S)
             body == options.body
  <2>0. c \in Nat /\ c <= t /\ t \in Nat /\ body \in Nat
    BY <1>1, <1>3
  <2> HIDE DEF c, t, body
  <2>1. PICK d \in Nat : t = c + d
    <3>1. t - c \in Nat /\ t = c + (t - c)
      BY <2>0
    <3> QED BY <3>1
  <2>2. (body + 1) * t = (body + 1) * c + (body + 1) * d /\ (body + 1) * c \in Nat /\ (body + 1) * d \in Nat
    BY <2>0, <2>1
  <2>3. (body + 1) * t = body * t + t /\ body * t \in Nat
    BY <2>0
  <2>4. (body + 1) * c <= (body + 1) * t
    BY <2>0, <2>2
  <2> QED BY <2>3, <2>4 DEF c, body, t
<1>9. k * Cardinality(S) \in Nat /\ k * t \in Nat
  BY <1>1, <1>3
<1> HIDE DEF k, t
<1>10. options.body * t \in Nat /\ t \in Nat
  BY <1>1, <1>8 DEF t
<1> QED BY <1>1, <1>5, <1>7, <1>8, <1>9, <1>10

\* What the invariant says of each request and each slot is what is promised of
\* them all.
LEMMA ProbesAreExact ==
  ASSUME Probe!ProbesAssumption, ProbeInv
  PROVE  Probe!ProbesExact
<1>1. \A r, s \in sent : r.token \/ s.token => r.origin = s.origin
  <2> SUFFICES ASSUME NEW r \in sent, NEW s \in sent, r.token \/ s.token
               PROVE  r.origin = s.origin
    OBVIOUS
  <2>1. options.token = "good"
    BY DEF ProbeInv, SentInv
  <2>2. Probe!SharedOrigin
    BY <2>1 DEF ProbeInv, AdmittedInv, Idle
  <2> QED BY <2>2 DEF ProbeInv, SentInv, Probe!SharedOrigin
<1>2. \A i \in {r.target : r \in sent} :
        targets[i].cleartext => targets[i].loopback \/ options.insecure
  BY DEF ProbeInv, SentInv, Probe!TransportAllowed
<1>3. ASSUME report # None, NEW i \in DOMAIN report,
             Len(report) = Len(targets), report[i].target # 0
      PROVE  /\ report[i].target = i
             /\ report[i].reachable <=>
                  /\ i \in {r.target : r \in sent}
                  /\ answers[i].kind = "body" /\ answers[i].size <= options.body
  <2>1. CASE report = results /\ \A j \in Probe!Indices : worker[j] = "ended"
    <3>1. i \in Probe!Indices
      BY <1>3, <2>1 DEF ProbeInv, ProbeTypes
    <3>2. report[i].target = i /\ (report[i].reachable <=> Reachable(i))
      BY <2>1, <3>1 DEF ProbeInv, WorkerInv
    <3>3. Asked(i) <=> i \in {r.target : r \in sent}
      BY DEF Asked
    <3> QED BY <3>2, <3>3 DEF Reachable
  <2>2. CASE Idle /\ report = Probe!Refusal
    <3>1. sent = {}
      BY <2>2 DEF Idle
    <3>2. \/ report = <<>> \/ \E kind : report = Probe!ProbeSet(kind)
          \/ report = [j \in Probe!Indices |-> Probe!Failed(j, "token")]
      BY <1>3, <2>2 DEF Probe!Refusal
    <3>3. report # <<>>
      BY <1>3
    <3>4. ASSUME NEW kind, report = Probe!ProbeSet(kind)
          PROVE  FALSE
      <4>1. report[i] = Probe!Failed(0, kind)
        BY <1>3, <3>4 DEF Probe!ProbeSet
      <4> QED BY <1>3, <4>1 DEF Probe!Failed
    <3>5. report[i].target = i /\ ~report[i].reachable
      BY <1>3, <3>2, <3>3, <3>4 DEF Probe!Failed
    <3> QED BY <3>1, <3>5
  <2> QED BY <1>3, <2>1, <2>2 DEF ProbeInv, ReturnInv
<1>4. report # None => sent = {} \/ Len(report) = Len(targets)
  <2> SUFFICES ASSUME report # None, sent # {}
               PROVE  Len(report) = Len(targets)
    OBVIOUS
  <2>1. report = results
    BY DEF ProbeInv, ReturnInv, Idle
  <2>2. Probe!Indices = 1..Len(targets) /\ Len(targets) \in Nat
    BY ProbeFacts DEF ProbeInv
  <2>3. results \in [1..Len(targets) -> Slots]
    BY <2>2 DEF ProbeInv, ProbeTypes
  <2>4. results \in Seq(Slots) /\ Len(results) = Len(targets)
    BY <2>2, <2>3
  <2> QED BY <2>1, <2>4
<1> DEFINE held == Probe!MapThenSumSet(Probe!Retained,
                                       {i \in Probe!Indices : worker[i] = "reading"})
<1>5. held > 0 => held <= MaxBudget + options.threads
  BY HeldWithin
<1> QED BY <1>1, <1>2, <1>3, <1>4, <1>5 DEF Probe!ProbesExact

\* A token reaches one origin alone, nothing is sent in the clear unasked, the
\* bodies held at once keep the budget, and the report has for every target, in
\* its place, what its own server answered.
THEOREM ProbesAlwaysExact ==
  ASSUME Probe!ProbesAssumption
  PROVE  Probe!Spec => []Probe!ProbesExact
<1>1. Probe!Init => ProbeInv
  BY ProbeInit
<1>2. ProbeInv /\ [Probe!Next]_(Probe!vars) => ProbeInv'
  BY ProbeStep
<1>3. ProbeInv => Probe!ProbesExact
  BY ProbesAreExact
<1> QED BY <1>1, <1>2, <1>3, PTL DEF Probe!Spec
-----------------------------------------------------------------------------
(* The collection of a report: what a healthy one vouches for.             *)

CONSTANTS Cards, Worlds, MaxCycles, MaxChanges, Limits
VARIABLES found, cards, inventory, stable, attributed, optional, topology, xid, cache,
          cycles, changes

Collect == INSTANCE Collector WITH world <- found, processes <- attributed

\* An answer of the driver names cards there are.
Named(answer) == answer = None \/ answer.of \subseteq inventory
Counted(answer) == answer = None \/ answer.rejected \in {0, 1}

\* The matrix that is kept is that of its cards, or empty, unless they changed.
CacheInv == cache.stable => cache.matrix \in {cache.key, {}}

\* What the rows of the optional queries say, and what is told of it.
Tells(w, gpus, details, retired, o) ==
  /\ details # None /\ details.of \subseteq gpus
  /\ \A i \in 1..2 : retired[i] # None /\ retired[i].of = gpus
  /\ DOMAIN o.value = gpus
  /\ \A c \in gpus :
       /\ c \in Collect!Readable(details) /\ c \in w.throttled => o.value[c].throttled = TRUE
       /\ \A i \in 1..2 :
            <<c, i>> \in w.worn /\ c \notin retired[i].blank => o.value[c].retired > 0

\* What the tasks tell of what they were answered.
ProcessesInv ==
  attributed # None /\ attributed.state = "ok" =>
    \A i \in 1..2 : answers.processes[i] # None /\ answers.processes[i].rejected = 0
OptionalInv ==
  optional # None /\ optional.state = "ok" /\ stable =>
    Tells(found, inventory, answers.optional[1],
          <<answers.optional[2], answers.optional[3]>>, optional)
TopologyInv ==
  topology # None /\ topology.state = "ok" /\ stable /\ cache.stable =>
    topology.value = inventory

\* What a report hides nothing of, as AllClearIsEarned says it.
Clear(w, gpus, a, whole, matrix) ==
  /\ "optional" \in w.required =>
       /\ \A i \in 1..2 :
            /\ a.optional[i + 1] # None /\ gpus \subseteq a.optional[i + 1].of
            /\ \A c \in gpus : <<c, i>> \in w.worn => c \in a.optional[i + 1].blank
       /\ Collect!Readable(a.optional[1]) \cap w.throttled = {}
  /\ "processes" \in w.required =>
       \A i \in 1..2 : a.processes[i] # None /\ a.processes[i].rejected = 0
  /\ "topology" \in w.required /\ whole => matrix = gpus

\* What holds after every step: while no card comes or goes the inventory is
\* that of the cards, a task that calls its source whole tells all there is,
\* and a healthy report hides nothing.
CardsInv ==
  /\ cards \subseteq Cards /\ inventory \subseteq Cards
  /\ stable /\ pc # "idle" => cards = inventory
  /\ DOMAIN answers = {"processes", "optional"}
CollectInv ==
  /\ CardsInv /\ CacheInv /\ ProcessesInv /\ OptionalInv /\ TopologyInv
  /\ pc = "report" /\ report.status = "healthy" /\ stable =>
       Clear(found, inventory, answers, cache.stable, report.matrix)

\* The instance counts as this module does.
LEMMA SameCount ==
  ASSUME NEW S
  PROVE  Collect!Cardinality(S) = Cardinality(S)
BY DEF Collect!Cardinality, Collect!IsFiniteSet, Cardinality, IsFiniteSet

\* Pages that some query counts add up to more than none.
LEMMA SomeCount ==
  ASSUME NEW S \in SUBSET (1..2), S # {}
  PROVE  Collect!Cardinality(S) > 0
<1>1. IsFiniteSet(1..2)
  BY FS_Interval, 1 \in Int, 2 \in Int
<1>2. IsFiniteSet(S)
  BY <1>1, FS_Subset
<1>3. Cardinality(S) \in Nat /\ Cardinality(S) # 0
  BY <1>2, FS_CardinalityType, FS_EmptySet
<1>4. Cardinality(S) > 0
  BY <1>3
<1> QED BY <1>4, SameCount

\* A healthy report has no warning and nothing critical.
LEMMA HealthyMeans ==
  ASSUME NEW F, Collect!Status(F) = "healthy"
  PROVE  \A f \in F : f.severity \notin {"warning", "critical"}
BY DEF Collect!Status

\* A rule that applies to a card is a finding.
LEMMA RuleFound ==
  ASSUME NEW gpus, NEW c \in DOMAIN gpus, NEW severity, NEW kind,
         <<TRUE, severity, kind>> \in Collect!DeviceRules(gpus[c])
  PROVE  \E f \in Collect!AnalyzeGpus(gpus) : f.severity = severity
<1> DEFINE rules == Collect!LoadRules(gpus[c]) \cup Collect!DeviceRules(gpus[c])
           rule == <<TRUE, severity, kind>>
           f == Collect!Found(c, rule[2], rule[3])
<1>1. rule \in {r \in rules : r[1]}
  OBVIOUS
<1> HIDE DEF rules
<1>2. f \in Collect!Raised(c, rules)
  BY <1>1 DEF Collect!Raised
<1>3. f \in Collect!AnalyzeGpus(gpus)
  BY <1>2 DEF Collect!AnalyzeGpus, rules
<1>4. f.severity = severity
  BY DEF Collect!Found
<1> QED BY <1>3, <1>4

\* A source that is required and not whole is a finding.
LEMMA SourceFound ==
  ASSUME Collect!CollectorAssumption, NEW sources, NEW required, NEW n \in required,
         n \in DOMAIN sources, sources[n] # "ok"
  PROVE  \E f \in Collect!AnalyzeSources(sources, required) :
           f.severity \in {"warning", "critical"}
<1> DEFINE state(m) == IF m \in DOMAIN sources THEN sources[m] ELSE "absent"
           f == Collect!Found(n, Collect!SourceFinding(state(n)), "telemetry-source")
<1>1. state(n) = sources[n]
  OBVIOUS
<1>2. Collect!SourceFinding(state(n)) \in {"warning", "critical"}
  BY <1>1 DEF Collect!SourceFinding
<1>3. Collect!SourceFinding(state(n)) # None
  BY <1>2 DEF Collect!CollectorAssumption
<1>4. f \in Collect!AnalyzeSources(sources, required)
  BY <1>3 DEF Collect!AnalyzeSources
<1>5. f.severity = Collect!SourceFinding(state(n))
  BY DEF Collect!Found
<1> QED BY <1>2, <1>4, <1>5

\* An optional source that is whole has a row of every card from each query of
\* the retired pages, and what it tells of a card is what the rows say.
LEMMA OptionalMeans ==
  ASSUME NEW details, NEW retired, DOMAIN retired = 1..2, IsFiniteSet(inventory),
         Named(details), Named(retired[1]), Named(retired[2]),
         Collect!Optional(details, retired).state = "ok"
  PROVE  Tells(found, inventory, details, retired, Collect!Optional(details, retired))
<1> DEFINE of(i) == IF retired[i] = None THEN {} ELSE retired[i].of
           named == details.of \cup of(1) \cup of(2)
           pages(c) == {i \in 1..2 : c \in Collect!Readable(retired[i]) /\ <<c, i>> \in found.worn}
           value == [c \in named |->
                       [throttled |-> c \in Collect!Readable(details) \cap found.throttled,
                        retired |-> Collect!Cardinality(pages(c))]]
           o == Collect!Optional(details, retired)
<1>1. details # None
  BY DEF Collect!Optional, Collect!Observed
<1>2. /\ o.value = value
      /\ o.state = Collect!OptionalState(details, retired, Collect!Cardinality(named))
  <2>1. o = Collect!Observed(value, Collect!OptionalState(details, retired,
                                                          Collect!Cardinality(named)))
    BY <1>1 DEF Collect!Optional
  <2> HIDE DEF o, value, named
  <2> QED BY <2>1 DEF Collect!Observed
<1>3. \A i \in 1..2 : retired[i] # None
                      /\ Collect!Cardinality(retired[i].of) = Collect!Cardinality(inventory)
  <2> HIDE DEF o, value, named
  <2>1. Collect!OptionalState(details, retired, Collect!Cardinality(named)) = "ok"
    BY <1>2 DEF o
  <2> QED BY <2>1 DEF Collect!OptionalState
<1>4. /\ retired[1] # None /\ Cardinality(retired[1].of) = Cardinality(inventory)
      /\ retired[2] # None /\ Cardinality(retired[2].of) = Cardinality(inventory)
  BY <1>3, SameCount
<1>5. retired[1].of = inventory /\ retired[2].of = inventory
  BY <1>4, FS_Subset DEF Named
<1>6. of(1) = inventory /\ of(2) = inventory /\ details.of \subseteq inventory
  BY <1>1, <1>4, <1>5 DEF Named
<1>7. named = inventory
  BY <1>6
<1>8. ASSUME NEW c \in inventory
      PROVE  /\ c \in Collect!Readable(details) /\ c \in found.throttled => value[c].throttled = TRUE
             /\ \A i \in 1..2 :
                  <<c, i>> \in found.worn /\ c \notin retired[i].blank => value[c].retired > 0
  <2>1. value[c] = [throttled |-> c \in Collect!Readable(details) \cap found.throttled,
                    retired |-> Collect!Cardinality(pages(c))]
    BY <1>7
  <2>2. ASSUME NEW i \in 1..2, <<c, i>> \in found.worn, c \notin retired[i].blank
        PROVE  i \in pages(c)
    BY <1>3, <1>4, <1>5, <2>2 DEF Collect!Readable
  <2>3. pages(c) \in SUBSET (1..2)
    OBVIOUS
  <2>4. ASSUME NEW i \in 1..2, <<c, i>> \in found.worn, c \notin retired[i].blank
        PROVE  Collect!Cardinality(pages(c)) > 0
    <3>1. i \in pages(c)
      BY <2>2, <2>4
    <3> HIDE DEF pages
    <3> QED BY <2>3, <3>1, SomeCount
  <2>5. /\ value[c].throttled = (c \in Collect!Readable(details) \cap found.throttled)
        /\ value[c].retired = Collect!Cardinality(pages(c))
    <3> HIDE DEF value, pages
    <3> QED BY <2>1
  <2> HIDE DEF value, pages
  <2> QED BY <2>4, <2>5
<1>9. DOMAIN value = inventory
  BY <1>7
<1>10. o.value = value
  BY <1>2
<1> HIDE DEF value, named, of, o, pages
<1>11. \A i \in 1..2 : retired[i] # None /\ retired[i].of = inventory
  BY <1>4, <1>5
<1>12. \A c \in inventory :
         /\ c \in Collect!Readable(details) /\ c \in found.throttled => o.value[c].throttled = TRUE
         /\ \A i \in 1..2 :
              <<c, i>> \in found.worn /\ c \notin retired[i].blank => o.value[c].retired > 0
  BY <1>8, <1>10
<1>13. DOMAIN o.value = inventory
  BY <1>9, <1>10
<1>14. Tells(found, inventory, details, retired, o)
  BY <1>1, <1>6, <1>11, <1>12, <1>13 DEF Tells
<1> QED BY <1>14 DEF o

\* Two queries of processes that answered and had no malformed row.
LEMMA ProcessesMean ==
  ASSUME NEW compute, NEW graphics, Counted(compute), Counted(graphics),
         Collect!Processes(compute, graphics).state = "ok"
  PROVE  /\ compute # None /\ compute.rejected = 0
         /\ graphics # None /\ graphics.rejected = 0
<1> DEFINE rowsOf(kind, answer) == IF answer = None THEN {}
                                   ELSE {p \in found[kind] : p[1] \in answer.of}
           rows == rowsOf("compute", compute) \cup rowsOf("graphics", graphics)
           value == [c \in {p[1] : p \in rows} |-> {p[2] : p \in {q \in rows : q[1] = c}}]
           succeeded == {q \in {compute, graphics} : q # None}
           state == IF compute = None /\ graphics = None THEN "unavailable"
                    ELSE IF None \in {compute, graphics} \/ \E q \in succeeded : q.rejected > 0
                    THEN "partial" ELSE "ok"
<1>1. Collect!Processes(compute, graphics) = Collect!Observed(value, state)
  BY DEF Collect!Processes
<1> HIDE DEF value
<1>2. state = "ok"
  <2> HIDE DEF state
  <2> QED BY <1>1 DEF Collect!Observed
<1> QED BY <1>2 DEF Counted

\* What the tasks found makes a healthy report only if it hides nothing.
LEMMA MergedClear ==
  ASSUME Collect!CollectorAssumption, CollectInv, stable, Collect!Merged.status = "healthy",
         None \notin {attributed, optional, topology}
  PROVE  Clear(found, inventory, answers, cache.stable, Collect!Merged.matrix)
<1> DEFINE F == Collect!Findings
<1>1. topology # None /\ optional # None /\ attributed # None
  OBVIOUS
<1>2. Collect!Merged.matrix = topology.value /\ Collect!Merged.status = Collect!Status(F)
  BY DEF Collect!Merged
<1>3. \A f \in F : f.severity \notin {"warning", "critical"}
  BY <1>2, HealthyMeans
<1>4. ASSUME NEW n \in found.required, n \in {"processes", "optional", "topology"}
      PROVE  Collect!Sources[n] = "ok"
  <2>1. n \in DOMAIN Collect!Sources
    BY <1>4 DEF Collect!Sources
  <2>2. Collect!AnalyzeSources(Collect!Sources, found.required) \subseteq F
    BY DEF Collect!Findings
  <2> QED BY <1>3, <2>1, <2>2, SourceFound
<1>5. /\ Collect!Sources["optional"] = optional.state
      /\ Collect!Sources["processes"] = attributed.state
      /\ Collect!Sources["topology"] = topology.state
  BY DEF Collect!Sources
<1>6. ASSUME NEW c \in inventory, NEW severity \in {"warning", "critical"}, NEW kind
      PROVE  <<TRUE, severity, kind>> \notin Collect!DeviceRules(Collect!Gpus[c])
  <2>1. DOMAIN Collect!Gpus = inventory
    BY DEF Collect!Gpus
  <2>2. Collect!AnalyzeGpus(Collect!Gpus) \subseteq F
    BY DEF Collect!Findings
  <2> QED BY <1>3, <2>1, <2>2, RuleFound
<1> HIDE DEF F
<1>7. ASSUME "optional" \in found.required
      PROVE  /\ \A i \in 1..2 :
                  /\ answers.optional[i + 1] # None /\ inventory \subseteq answers.optional[i + 1].of
                  /\ \A c \in inventory :
                       <<c, i>> \in found.worn => c \in answers.optional[i + 1].blank
             /\ Collect!Readable(answers.optional[1]) \cap found.throttled = {}
  <2> DEFINE o == answers.optional
  <2>0. Tells(found, inventory, o[1], <<o[2], o[3]>>, optional)
    BY <1>1, <1>4, <1>5, <1>7 DEF CollectInv, OptionalInv
  <2>4. /\ o[1] # None /\ o[1].of \subseteq inventory
        /\ o[2] # None /\ o[2].of = inventory
        /\ o[3] # None /\ o[3].of = inventory
        /\ DOMAIN optional.value = inventory
        /\ \A c \in inventory :
             /\ c \in Collect!Readable(o[1]) /\ c \in found.throttled =>
                  optional.value[c].throttled = TRUE
             /\ <<c, 1>> \in found.worn /\ c \notin o[2].blank => optional.value[c].retired > 0
             /\ <<c, 2>> \in found.worn /\ c \notin o[3].blank => optional.value[c].retired > 0
    <3> HIDE DEF o
    <3> QED BY <2>0 DEF Tells
  <2> HIDE DEF o
  <2>5. ASSUME NEW c \in inventory
        PROVE  /\ Collect!Gpus[c].throttled = optional.value[c].throttled
               /\ Collect!Gpus[c].retired = optional.value[c].retired
    BY <2>4 DEF Collect!Gpus, Collect!Sound
  <2>6. ASSUME NEW c \in inventory,
               \/ <<c, 1>> \in found.worn /\ c \notin o[2].blank
               \/ <<c, 2>> \in found.worn /\ c \notin o[3].blank
        PROVE  FALSE
    <3>1. Collect!Gpus[c].retired > 0
      BY <2>4, <2>5, <2>6
    <3>2. (Collect!Gpus[c].retired > 0) = TRUE
      BY <3>1
    <3>3. <<TRUE, "critical", "retired-pages">> \in Collect!DeviceRules(Collect!Gpus[c])
      BY <3>2 DEF Collect!DeviceRules
    <3> QED BY <1>6, <3>3
  <2>7. ASSUME NEW c \in Collect!Readable(o[1]), c \in found.throttled
        PROVE  FALSE
    <3>1. c \in inventory
      BY <2>4 DEF Collect!Readable
    <3>2. Collect!Gpus[c].throttled = TRUE
      BY <2>4, <2>5, <2>7, <3>1
    <3>3. <<TRUE, "warning", "clock-throttled">> \in Collect!DeviceRules(Collect!Gpus[c])
      BY <3>2 DEF Collect!DeviceRules
    <3> QED BY <1>6, <3>1, <3>3
  <2>8. \A i \in 1..2 :
          /\ o[i + 1] # None /\ inventory \subseteq o[i + 1].of
          /\ \A c \in inventory : <<c, i>> \in found.worn => c \in o[i + 1].blank
    <3>1. \A c \in inventory : /\ <<c, 1>> \in found.worn => c \in o[2].blank
                               /\ <<c, 2>> \in found.worn => c \in o[3].blank
      BY <2>6
    <3>2. 1 + 1 = 2 /\ 2 + 1 = 3 /\ 1..2 = {1, 2}
      OBVIOUS
    <3> QED BY <2>4, <3>1, <3>2
  <2> QED BY <2>7, <2>8 DEF o
<1>8. ASSUME "processes" \in found.required
      PROVE  \A i \in 1..2 : answers.processes[i] # None /\ answers.processes[i].rejected = 0
  BY <1>1, <1>4, <1>5, <1>8 DEF CollectInv, ProcessesInv
<1>9. ASSUME "topology" \in found.required, cache.stable
      PROVE  Collect!Merged.matrix = inventory
  <2>1. topology.state = "ok"
    BY <1>4, <1>5, <1>9
  <2> QED BY <1>1, <1>2, <1>9, <2>1 DEF CollectInv, TopologyInv
<1> QED BY <1>7, <1>8, <1>9 DEF Clear

\* What a command answers about the cards there are.
LEMMA AnswersFacts ==
  ASSUME NEW subjects, NEW answer \in Collect!Answers(subjects)
  PROVE  Counted(answer) /\ (cards = inventory => Named(answer))
<1> DEFINE known == subjects \cap cards
<1>1. CASE answer = None
  BY <1>1 DEF Counted, Named
<1>2. CASE answer = [of |-> known, rejected |-> 0]
  BY <1>2 DEF Counted, Named
<1>3. CASE \E c \in known, n \in {0, 1} : answer = [of |-> known \ {c}, rejected |-> n]
  BY <1>3 DEF Counted, Named
<1> QED BY <1>1, <1>2, <1>3 DEF Collect!Answers

\* And about their details: its rows are of the same cards.
LEMMA ReadingsFacts ==
  ASSUME NEW reading \in Collect!Readings
  PROVE  cards = inventory => Named(reading)
<1>1. CASE reading = None
  BY <1>1 DEF Named
<1>2. ASSUME NEW answer \in Collect!Answers(Cards), NEW blank \in SUBSET answer.of,
             reading = [of |-> answer.of, rejected |-> answer.rejected, blank |-> blank],
             answer # None
      PROVE  cards = inventory => Named(reading)
  BY <1>2, AnswersFacts DEF Named
<1> QED BY <1>1, <1>2 DEF Collect!Readings

\* Nothing is collected at first.
LEMMA CollectInitially ==
  ASSUME Collect!Init
  PROVE  CollectInv
BY DEF Collect!Init, Collect!Pending, Collect!Unasked, CollectInv, CardsInv, CacheInv,
   ProcessesInv, OptionalInv, TopologyInv

\* An inventory begins anew.
LEMMA InventoryKeeps ==
  ASSUME CollectInv, Collect!Inventory
  PROVE  CollectInv'
BY DEF CollectInv, CardsInv, CacheInv, ProcessesInv, OptionalInv, TopologyInv,
   Collect!Inventory, Collect!Unasked

\* A task that ends tells what it was answered, and the others keep theirs.
LEMMA TaskKeeps ==
  ASSUME Collect!CollectorAssumption, CollectInv,
         \/ Collect!CollectProcesses \/ Collect!CollectOptional
         \/ Collect!CollectTopology \/ Collect!CollectXid
  PROVE  CollectInv'
<1>1. pc = "tasks" /\ pc' = pc /\ UNCHANGED <<found, cards, inventory, stable>>
  BY DEF Collect!CollectProcesses, Collect!CollectOptional, Collect!CollectTopology,
         Collect!CollectXid
<1>2. ASSUME UNCHANGED attributed, answers'.processes = answers.processes
      PROVE  ProcessesInv'
  BY <1>2 DEF CollectInv, ProcessesInv
<1>3. ASSUME UNCHANGED optional, answers'.optional = answers.optional
      PROVE  OptionalInv'
  BY <1>1, <1>3 DEF CollectInv, OptionalInv
<1>4. ASSUME UNCHANGED <<topology, cache>>
      PROVE  TopologyInv' /\ CacheInv'
  BY <1>1, <1>4 DEF CollectInv, TopologyInv, CacheInv
<1>5. CASE Collect!CollectProcesses
  <2>1. UNCHANGED <<optional, topology, cache>>
    BY <1>5 DEF Collect!CollectProcesses
  <2>2. PICK compute \in Collect!Answers({p[1] : p \in found.compute}),
             graphics \in Collect!Answers({p[1] : p \in found.graphics}) :
          /\ attributed' = Collect!Processes(compute, graphics)
          /\ answers' = [answers EXCEPT !.processes = <<compute, graphics>>]
    BY <1>5 DEF Collect!CollectProcesses
  <2>3. Counted(compute) /\ Counted(graphics)
    BY AnswersFacts
  <2>4. /\ answers'.processes = <<compute, graphics>> /\ answers'.optional = answers.optional
        /\ DOMAIN answers' = {"processes", "optional"}
    BY <2>2 DEF CollectInv, CardsInv
  <2>5. answers'.processes[1] = compute /\ answers'.processes[2] = graphics
    BY <2>4
  <2>6. ProcessesInv'
    BY <2>2, <2>3, <2>5, ProcessesMean DEF ProcessesInv
  <2>7. CardsInv'
    BY <1>1, <2>4 DEF CollectInv, CardsInv
  <2> QED BY <1>1, <1>3, <1>4, <2>1, <2>4, <2>6, <2>7 DEF CollectInv
<1>6. CASE Collect!CollectOptional
  <2>1. UNCHANGED <<attributed, topology, cache>>
    BY <1>6 DEF Collect!CollectOptional
  <2>2. PICK details \in Collect!Readings, single \in Collect!Readings,
             double \in Collect!Readings :
          /\ optional' = Collect!Optional(details, <<single, double>>)
          /\ answers' = [answers EXCEPT !.optional = <<details, single, double>>]
    BY <1>6 DEF Collect!CollectOptional
  <2>3. /\ answers'.optional = <<details, single, double>>
        /\ answers'.processes = answers.processes
        /\ DOMAIN answers' = {"processes", "optional"}
    BY <2>2 DEF CollectInv, CardsInv
  <2> DEFINE retired == <<single, double>>
  <2>4. /\ answers'.optional[1] = details
        /\ <<answers'.optional[2], answers'.optional[3]>> = retired
        /\ DOMAIN retired = 1..2 /\ retired[1] = single /\ retired[2] = double
    BY <2>3
  <2>5. optional' = Collect!Optional(details, retired)
    BY <2>2
  <2> HIDE DEF retired
  <2>6. ASSUME optional'.state = "ok", stable
        PROVE  Tells(found', inventory', details, retired, optional')
    <3>1. Named(details) /\ Named(retired[1]) /\ Named(retired[2])
      <4>1. cards = inventory
        BY <1>1, <2>6 DEF CollectInv, CardsInv
      <4> QED BY <2>4, <4>1, ReadingsFacts
    <3>2. IsFiniteSet(inventory)
      <4>1. IsFiniteSet(Cards)
        BY DEF Collect!CollectorAssumption, Collect!IsFiniteSet, IsFiniteSet
      <4> QED BY <4>1, FS_Subset DEF CollectInv, CardsInv
    <3>3. Collect!Optional(details, retired).state = "ok"
      BY <2>5, <2>6
    <3>4. Tells(found, inventory, details, retired, Collect!Optional(details, retired))
      BY <2>4, <3>1, <3>2, <3>3, OptionalMeans
    <3> QED BY <1>1, <2>5, <3>4
  <2>7. OptionalInv'
    BY <1>1, <2>4, <2>6 DEF OptionalInv
  <2>8. CardsInv'
    BY <1>1, <2>3 DEF CollectInv, CardsInv
  <2> QED BY <1>1, <1>2, <1>4, <2>1, <2>3, <2>7, <2>8 DEF CollectInv
<1>7. CASE Collect!CollectTopology
  <2>1. UNCHANGED <<attributed, optional, answers>>
    BY <1>7 DEF Collect!CollectTopology
  <2>2. TopologyInv' /\ CacheInv'
    <3>1. cards = inventory \/ ~stable
      BY <1>1 DEF CollectInv, CardsInv
    <3>2. CASE cache.key = inventory
      <4>1. topology' = Collect!TopologyOf(cache.matrix) /\ cache' = cache
        BY <1>7, <3>2 DEF Collect!CollectTopology
      <4>2. /\ topology'.value = cache.matrix
            /\ topology'.state = "ok" => cache.matrix # {}
        BY <4>1 DEF Collect!TopologyOf, Collect!Observed
      <4> QED BY <1>1, <3>2, <4>1, <4>2 DEF CollectInv, TopologyInv, CacheInv
    <3>3. CASE topology' = Collect!Observed({}, "unavailable") /\ cache' = cache
      <4>1. topology'.state # "ok"
        BY <3>3 DEF Collect!Observed
      <4> QED BY <3>3, <4>1 DEF CollectInv, TopologyInv, CacheInv
    <3>4. ASSUME NEW matrix \in {cards, {}},
                 topology' = Collect!TopologyOf(matrix),
                 cache' = [key |-> inventory, matrix |-> matrix, stable |-> stable]
          PROVE  TopologyInv' /\ CacheInv'
      <4>1. /\ topology'.value = matrix
            /\ topology'.state = "ok" => matrix # {}
        BY <3>4 DEF Collect!TopologyOf, Collect!Observed
      <4>2. cache'.key = inventory /\ cache'.matrix = matrix /\ cache'.stable = stable
        BY <3>4
      <4> QED BY <1>1, <3>1, <3>4, <4>1, <4>2 DEF TopologyInv, CacheInv
    <3> QED BY <1>7, <3>2, <3>3, <3>4 DEF Collect!CollectTopology
  <2>3. CardsInv'
    BY <1>1, <2>1 DEF CollectInv, CardsInv
  <2> QED BY <1>1, <1>2, <1>3, <2>1, <2>2, <2>3 DEF CollectInv
<1>8. CASE Collect!CollectXid
  <2>1. UNCHANGED <<attributed, optional, topology, cache, answers>>
    BY <1>8 DEF Collect!CollectXid
  <2>2. CardsInv'
    BY <1>1, <2>1 DEF CollectInv, CardsInv
  <2> QED BY <1>1, <1>2, <1>3, <1>4, <2>1, <2>2 DEF CollectInv
<1> QED BY <1>5, <1>6, <1>7, <1>8

\* Every step keeps what is known of the collection.
LEMMA CollectStep ==
  ASSUME Collect!CollectorAssumption, CollectInv, [Collect!Next]_(Collect!vars)
  PROVE  CollectInv'
<1>1. ASSUME UNCHANGED <<found, inventory, attributed, optional, topology, cache, answers>>,
             stable' => stable
      PROVE  ProcessesInv' /\ OptionalInv' /\ TopologyInv' /\ CacheInv'
  BY <1>1 DEF CollectInv, ProcessesInv, OptionalInv, TopologyInv, CacheInv
<1>2. CASE Collect!Merge
  <2>1. /\ pc = "tasks" /\ pc' = "report" /\ report' = Collect!Merged
        /\ UNCHANGED <<found, cards, inventory, stable, attributed, optional, topology, cache,
                       answers>>
        /\ None \notin {attributed, optional, topology}
    BY <1>2 DEF Collect!Merge, Collect!tasks
  <2>2. Collect!Merged.status = "healthy" /\ stable =>
          Clear(found, inventory, answers, cache.stable, Collect!Merged.matrix)
    BY <2>1, MergedClear
  <2>3. report'.status = "healthy" /\ stable' =>
          Clear(found', inventory', answers', cache'.stable, report'.matrix)
    BY <2>1, <2>2
  <2>4. CardsInv'
    BY <2>1 DEF CollectInv, CardsInv
  <2> QED BY <1>1, <2>1, <2>3, <2>4 DEF CollectInv
<1>3. ASSUME NEW c \in Cards, Collect!Change(c)
      PROVE  CollectInv'
  <2>1. /\ stable' = FALSE /\ cards' \subseteq Cards
        /\ UNCHANGED <<found, pc, inventory, attributed, optional, topology, cache, report,
                       answers>>
    BY <1>3 DEF Collect!Change, Collect!tasks, CollectInv, CardsInv
  <2>2. CardsInv'
    BY <2>1 DEF CollectInv, CardsInv
  <2> QED BY <1>1, <2>1, <2>2 DEF CollectInv
<1>4. CASE UNCHANGED Collect!vars
  <2>1. UNCHANGED <<found, pc, cards, inventory, stable, attributed, optional, topology, cache,
                    report, answers>>
    BY <1>4 DEF Collect!vars, Collect!tasks
  <2>2. CardsInv'
    BY <2>1 DEF CollectInv, CardsInv
  <2>3. pc' = "report" /\ report'.status = "healthy" /\ stable' =>
          Clear(found', inventory', answers', cache'.stable, report'.matrix)
    BY <2>1 DEF CollectInv
  <2> QED BY <1>1, <2>1, <2>2, <2>3 DEF CollectInv
<1> QED BY <1>2, <1>3, <1>4, InventoryKeeps, TaskKeeps DEF Collect!Next

\* Whatever the driver leaves out, however cards come and go and in whatever
\* order the tasks end, a report that calls its required sources whole and the
\* cards healthy hides none of what the driver said of them, a row without a
\* value excepted: NvidiaCollector::collect and the health rules.
THEOREM HealthyIsEarned ==
  ASSUME Collect!CollectorAssumption
  PROVE  Collect!Spec => []Collect!AllClearIsEarned
<1>1. Collect!Init => CollectInv
  BY CollectInitially
<1>2. CollectInv /\ [Collect!Next]_(Collect!vars) => CollectInv'
  BY CollectStep
<1>3. CollectInv => Collect!AllClearIsEarned
  BY DEF CollectInv, Clear, Collect!AllClearIsEarned, Collect!Covers
<1> QED BY <1>1, <1>2, <1>3, PTL DEF Collect!Spec
-----------------------------------------------------------------------------
(* The latency of one interval, for any series, buckets, bodies and damage. *)

CONSTANTS Series, Bounds, Inf, Cells, Names, SampleLimits, MaxSeries, MaxBuckets,
          Damageable, MaxObservations, NaN
VARIABLES counts, exposed, since, restarted, tracked, last

Latency == INSTANCE Histograms WITH Limits <- SampleLimits

-----------------------------------------------------------------------------
(* Sums over finite sets.                                                  *)

Any(T) == CHOOSE x \in T : TRUE

\* What holds of no element, and of a set if it does of all but the element
\* that is taken first, holds of every part of a finite set.
LEMMA PartInduction ==
  ASSUME NEW S, IsFiniteSet(S), NEW P, {} \in P,
         \A T \in SUBSET S : T # {} /\ T \ {Any(T)} \in P => T \in P
  PROVE  SUBSET S \subseteq P
<1> DEFINE M == {n \in Nat : \A T \in SUBSET S : Cardinality(T) <= n => T \in P}
<1>1. \A T \in SUBSET S : IsFiniteSet(T) /\ Cardinality(T) \in Nat
  BY FS_Subset, FS_CardinalityType
<1>2. 0 \in M
  <2> SUFFICES ASSUME NEW T \in SUBSET S, Cardinality(T) <= 0
               PROVE  T \in P
    OBVIOUS
  <2>1. T = {}
    BY <1>1, FS_EmptySet
  <2> QED BY <2>1
<1>3. ASSUME NEW n \in Nat, n \in M
      PROVE  n + 1 \in M
  <2> SUFFICES ASSUME NEW T \in SUBSET S, Cardinality(T) <= n + 1, T # {}
               PROVE  T \in P
    OBVIOUS
  <2>1. Any(T) \in T
    BY DEF Any
  <2>2. Cardinality(T \ {Any(T)}) = Cardinality(T) - 1
    BY <1>1, <2>1, FS_RemoveElement
  <2>3. T \ {Any(T)} \in SUBSET S /\ Cardinality(T \ {Any(T)}) <= n
    BY <1>1, <2>2
  <2> QED BY <1>3, <2>3
<1> HIDE DEF M
<1>4. Nat \subseteq M
  BY <1>2, <1>3, SetInduction
<1> QED BY <1>1, <1>4 DEF M

\* The sums over the parts of the domain of f.
Sums(f, c) ==
  /\ c \in [SUBSET DOMAIN f -> Nat]
  /\ \A T \in SUBSET DOMAIN f :
       c[T] = IF T = {} THEN 0 ELSE f[Any(T)] + c[T \ {Any(T)}]
SumFold(f, S, c) ==
  [T \in SUBSET S |-> IF T = {} THEN 0 ELSE f[Any(T)] + c[T \ {Any(T)}]]

\* They exist.
LEMMA SumsExist ==
  ASSUME NEW S, IsFiniteSet(S), NEW f \in [S -> Nat]
  PROVE  \E c : Sums(f, c)
<1> DEFINE D == SUBSET S
           Size(T) == Cardinality(T)
           Value(c, T) == IF T = {} THEN 0 ELSE f[Any(T)] + c[T \ {Any(T)}]
           Upto(n) == \E c \in [D -> Nat] : \A T \in D : Size(T) <= n => c[T] = Value(c, T)
           N == {n \in Nat : Upto(n)}
<1>1. \A T \in D : IsFiniteSet(T) /\ Size(T) \in Nat /\ Size(T) <= Size(S)
  BY FS_Subset, FS_CardinalityType
<1>2. \A T \in D : T # {} => /\ Any(T) \in T /\ T \ {Any(T)} \in D
                             /\ Size(T \ {Any(T)}) = Size(T) - 1
                             /\ f[Any(T)] \in Nat
  <2> SUFFICES ASSUME NEW T \in D, T # {}
               PROVE  /\ Any(T) \in T /\ T \ {Any(T)} \in D
                      /\ Size(T \ {Any(T)}) = Size(T) - 1
                      /\ f[Any(T)] \in Nat
    OBVIOUS
  <2>1. Any(T) \in T
    BY DEF Any
  <2> QED BY <1>1, <2>1, FS_RemoveElement
<1>3. {} \in D /\ Size({}) = 0 /\ \A T \in D : Size(T) = 0 => T = {}
  BY <1>1, FS_EmptySet
<1> HIDE DEF D, Size
<1>4. 0 \in N
  <2> DEFINE c == [T \in D |-> 0]
  <2>1. c \in [D -> Nat]
    OBVIOUS
  <2>2. \A T \in D : Size(T) <= 0 => c[T] = Value(c, T)
    BY <1>1, <1>3
  <2> QED BY <2>1, <2>2
<1>5. ASSUME NEW n \in Nat, n \in N
      PROVE  n + 1 \in N
  <2>1. PICK c \in [D -> Nat] : \A T \in D : Size(T) <= n => c[T] = Value(c, T)
    BY <1>5
  <2> DEFINE g == [T \in D |-> IF Size(T) = n + 1 THEN Value(c, T) ELSE c[T]]
  <2>2. \A T \in D : Value(c, T) \in Nat
    BY <1>2
  <2>3. g \in [D -> Nat]
    <3> HIDE DEF Value
    <3> QED BY <2>2
  <2>4. ASSUME NEW T \in D, Size(T) <= n + 1
        PROVE  g[T] = Value(g, T)
    <3>1. CASE T = {}
      <4>1. Size(T) = 0 /\ Size(T) <= n /\ Size(T) # n + 1
        BY <1>3, <3>1
      <4>2. g[T] = c[T] /\ c[T] = Value(c, T)
        <5> HIDE DEF Value
        <5> QED BY <2>1, <4>1
      <4> HIDE DEF g
      <4> QED BY <3>1, <4>2
    <3>2. CASE T # {}
      <4> DEFINE U == T \ {Any(T)}
      <4>1. U \in D /\ Size(U) = Size(T) - 1 /\ Size(T) \in Nat /\ Size(U) \in Nat
        BY <1>1, <1>2, <3>2
      <4>2. g[U] = c[U]
        <5> HIDE DEF U, Value
        <5> QED BY <4>1, <2>4
      <4>3. g[T] = Value(c, T)
        <5> HIDE DEF Value, U
        <5>1. CASE Size(T) = n + 1
          BY <5>1
        <5>2. CASE Size(T) # n + 1
          BY <5>2, <2>1, <2>4, <4>1
        <5> QED BY <5>1, <5>2
      <4> HIDE DEF g
      <4> QED BY <3>2, <4>2, <4>3
    <3> QED BY <3>1, <3>2
  <2>5. Upto(n + 1)
    <3> HIDE DEF Value, g
    <3> QED BY <2>3, <2>4
  <2> HIDE DEF Upto
  <2> QED BY <2>5
<1>6. Size(S) \in N
  <2>1. S \in D
    BY DEF D
  <2> HIDE DEF N
  <2> QED BY <1>1, <1>4, <1>5, <2>1, SetInduction
<1>7. PICK c \in [D -> Nat] : \A T \in D : c[T] = Value(c, T)
  <2> HIDE DEF Value
  <2> QED BY <1>1, <1>6
<1>8. DOMAIN f = S
  OBVIOUS
<1> QED BY <1>7, <1>8 DEF Sums, D

\* There are no two of them.
LEMMA SumsUnique ==
  ASSUME NEW S, IsFiniteSet(S), NEW f \in [S -> Nat], NEW c, Sums(f, c),
         NEW d, d = SumFold(f, S, d)
  PROVE  d[S] = c[S]
<1> DEFINE P == {T \in SUBSET S : d[T] = c[T]}
<1>1. \A T \in SUBSET S : /\ d[T] = IF T = {} THEN 0 ELSE f[Any(T)] + d[T \ {Any(T)}]
                          /\ c[T] = IF T = {} THEN 0 ELSE f[Any(T)] + c[T \ {Any(T)}]
  BY DEF Sums, SumFold
<1>2. {} \in P
  BY <1>1
<1>3. \A T \in SUBSET S : T # {} /\ T \ {Any(T)} \in P => T \in P
  BY <1>1
<1> HIDE DEF P
<1>4. SUBSET S \subseteq P
  BY <1>2, <1>3, PartInduction
<1> QED BY <1>4 DEF P

\* A sum is the last of them.
LEMMA SumMeans ==
  ASSUME NEW S, IsFiniteSet(S), NEW f \in [S -> Nat]
  PROVE  \E c : Sums(f, c) /\ Latency!Sum(f) = c[S]
<1>1. PICK c : Sums(f, c)
  BY SumsExist
<1> DEFINE d == CHOOSE h : h = SumFold(f, S, h)
<1>2. c = SumFold(f, S, c)
  BY <1>1 DEF Sums, SumFold
<1>3. d = SumFold(f, S, d)
  BY <1>2
<1>4. Latency!Sum(f) = d[S]
  <2>1. DOMAIN f = S
    OBVIOUS
  <2> QED BY <2>1 DEF Latency!Sum, Latency!MapThenSumSet, Latency!MapThenFoldSet, SumFold, Any
<1> HIDE DEF d
<1>5. d[S] = c[S]
  BY <1>1, <1>3, SumsUnique
<1> QED BY <1>1, <1>4, <1>5

\* A sum of sums is the sum of both.
LEMMA SumAdds ==
  ASSUME NEW S, IsFiniteSet(S), NEW f \in [S -> Nat], NEW g \in [S -> Nat],
         NEW h \in [S -> Nat], \A x \in S : h[x] = f[x] + g[x]
  PROVE  /\ {Latency!Sum(f), Latency!Sum(g), Latency!Sum(h)} \subseteq Nat
         /\ Latency!Sum(h) = Latency!Sum(f) + Latency!Sum(g)
<1>1. PICK a : Sums(f, a) /\ Latency!Sum(f) = a[S]
  BY SumMeans
<1>2. PICK b : Sums(g, b) /\ Latency!Sum(g) = b[S]
  BY SumMeans
<1>3. PICK c : Sums(h, c) /\ Latency!Sum(h) = c[S]
  BY SumMeans
<1>4. \A T \in SUBSET S :
        /\ a[T] \in Nat /\ b[T] \in Nat /\ c[T] \in Nat
        /\ a[T] = IF T = {} THEN 0 ELSE f[Any(T)] + a[T \ {Any(T)}]
        /\ b[T] = IF T = {} THEN 0 ELSE g[Any(T)] + b[T \ {Any(T)}]
        /\ c[T] = IF T = {} THEN 0 ELSE h[Any(T)] + c[T \ {Any(T)}]
  BY <1>1, <1>2, <1>3 DEF Sums
<1> DEFINE P == {T \in SUBSET S : c[T] = a[T] + b[T]}
<1>5. {} \in P
  <2>1. {} \in SUBSET S
    OBVIOUS
  <2>2. a[{}] = 0 /\ b[{}] = 0 /\ c[{}] = 0
    BY <1>4, <2>1
  <2> QED BY <2>1, <2>2
<1>6. ASSUME NEW T \in SUBSET S, T # {}, T \ {Any(T)} \in P
      PROVE  T \in P
  <2> DEFINE U == T \ {Any(T)}
  <2>1. Any(T) \in S
    BY <1>6 DEF Any
  <2>2. c[U] = a[U] + b[U] /\ a[U] \in Nat /\ b[U] \in Nat
    BY <1>4, <1>6
  <2>3. /\ a[T] = f[Any(T)] + a[U] /\ b[T] = g[Any(T)] + b[U]
        /\ c[T] = h[Any(T)] + c[U]
    BY <1>4, <1>6
  <2> HIDE DEF U
  <2> QED BY <2>1, <2>2, <2>3
<1> HIDE DEF P
<1>7. SUBSET S \subseteq P
  BY <1>5, <1>6, PartInduction
<1>8. S \in SUBSET S
  OBVIOUS
<1>9. c[S] = a[S] + b[S]
  BY <1>7, <1>8 DEF P
<1> QED BY <1>1, <1>2, <1>3, <1>4, <1>8, <1>9

\* A sum of more is more.
LEMMA SumGrows ==
  ASSUME NEW S, IsFiniteSet(S), NEW f \in [S -> Nat], NEW g \in [S -> Nat],
         \A x \in S : f[x] <= g[x]
  PROVE  /\ {Latency!Sum(f), Latency!Sum(g)} \subseteq Nat
         /\ Latency!Sum(f) <= Latency!Sum(g)
<1> DEFINE h == [x \in S |-> g[x] - f[x]]
<1>1. \A x \in S : g[x] = f[x] + h[x] /\ h[x] \in Nat
  OBVIOUS
<1>2. h \in [S -> Nat]
  BY <1>1
<1> HIDE DEF h
<1> QED BY <1>1, <1>2, SumAdds

\* It does not matter which element is taken first.
LEMMA SumTakes ==
  ASSUME NEW S, IsFiniteSet(S), NEW f \in [S -> Nat], NEW c, Sums(f, c),
         NEW T \in SUBSET S, NEW x \in T
  PROVE  c[T] = f[x] + c[T \ {x}]
<1> DEFINE Taken(V) == \A y \in V : c[V] = f[y] + c[V \ {y}]
           M == {n \in Nat : \A V \in SUBSET S : Cardinality(V) <= n => Taken(V)}
<1>1. \A V \in SUBSET S :
        /\ IsFiniteSet(V) /\ Cardinality(V) \in Nat /\ c[V] \in Nat
        /\ c[V] = IF V = {} THEN 0 ELSE f[Any(V)] + c[V \ {Any(V)}]
  BY FS_Subset, FS_CardinalityType DEF Sums
<1>2. 0 \in M
  <2> SUFFICES ASSUME NEW V \in SUBSET S, Cardinality(V) <= 0
               PROVE  V = {}
    OBVIOUS
  <2>1. IsFiniteSet(V) /\ Cardinality(V) \in Nat
    BY <1>1
  <2>2. Cardinality(V) = 0
    BY <2>1
  <2> QED BY <2>1, <2>2, FS_EmptySet
<1>3. ASSUME NEW n \in Nat, n \in M
      PROVE  n + 1 \in M
  <2> SUFFICES ASSUME NEW V \in SUBSET S, Cardinality(V) <= n + 1, NEW y \in V
               PROVE  c[V] = f[y] + c[V \ {y}]
    OBVIOUS
  <2> DEFINE a == Any(V)
             W == V \ {y}
             U == V \ {a}
  <2>1. a \in V /\ c[V] = f[a] + c[U]
    BY <1>1 DEF Any
  <2>2. \A z \in V : Cardinality(V \ {z}) <= n
    <3> SUFFICES ASSUME NEW z \in V
                 PROVE  Cardinality(V \ {z}) <= n
      OBVIOUS
    <3>1. IsFiniteSet(V) /\ Cardinality(V) \in Nat
      BY <1>1
    <3>2. Cardinality(V \ {z}) = Cardinality(V) - 1
      BY <3>1, FS_RemoveElement
    <3> QED BY <3>1, <3>2
  <2>3. Taken(W) /\ Taken(U)
    <3>1. W \in SUBSET S /\ U \in SUBSET S /\ Cardinality(W) <= n /\ Cardinality(U) <= n
      BY <2>1, <2>2
    <3> HIDE DEF W, U, Taken
    <3> QED BY <1>3, <3>1
  <2>4. CASE y = a
    BY <2>1, <2>4
  <2>5. CASE y # a
    <3> DEFINE R == V \ {a, y}
    <3>1. c[U] = f[y] + c[R] /\ c[W] = f[a] + c[R]
      <4>1. y \in U /\ a \in W /\ U \ {y} = R /\ W \ {a} = R
        BY <2>1, <2>5
      <4> HIDE DEF U, W, R, a
      <4> QED BY <2>3, <4>1
    <3>2. c[W] = c[V \ {y}] /\ f[a] \in Nat /\ f[y] \in Nat /\ c[R] \in Nat
      BY <1>1, <2>1
    <3> HIDE DEF U, W, R, a
    <3> QED BY <2>1, <3>1, <3>2
  <2> QED BY <2>4, <2>5
<1> HIDE DEF M
<1>4. Nat \subseteq M
  BY <1>2, <1>3, SetInduction
<1> HIDE DEF Taken
<1>5. Taken(T)
  <2>1. Cardinality(T) \in Nat /\ Cardinality(T) \in M /\ T \in SUBSET S
    BY <1>1, <1>4
  <2>2. Cardinality(T) <= Cardinality(T)
    BY <2>1
  <2> QED BY <2>1, <2>2 DEF M
<1> QED BY <1>5 DEF Taken

\* r gives each element of S another name, in E.
Renames(r, S, E) ==
  /\ r \in [S -> E] /\ \A x, y \in S : r[x] = r[y] => x = y
  /\ \A e \in E : \E x \in S : r[x] = e

\* A sum is that over any other names of what is summed.
LEMMA SumRenamed ==
  ASSUME NEW S, IsFiniteSet(S), NEW f \in [S -> Nat],
         NEW E, IsFiniteSet(E), NEW g \in [E -> Nat],
         NEW r, Renames(r, S, E), \A x \in S : f[x] = g[r[x]]
  PROVE  Latency!Sum(f) = Latency!Sum(g)
<1>1. PICK c : Sums(f, c) /\ Latency!Sum(f) = c[S]
  BY SumMeans
<1>2. PICK d : Sums(g, d) /\ Latency!Sum(g) = d[E]
  BY SumMeans
<1> DEFINE Image(T) == {r[x] : x \in T}
           P == {T \in SUBSET S : c[T] = d[Image(T)]}
<1>3. c[{}] = 0 /\ d[{}] = 0
  BY <1>1, <1>2 DEF Sums
<1>4. {} \in P
  BY <1>3
<1>5. ASSUME NEW T \in SUBSET S, T # {}, T \ {Any(T)} \in P
      PROVE  T \in P
  <2> DEFINE x == Any(T)
             U == T \ {x}
  <2>1. x \in T
    BY <1>5 DEF Any
  <2>2. Image(U) = Image(T) \ {r[x]} /\ r[x] \in Image(T) /\ Image(T) \in SUBSET E
    <3> HIDE DEF x
    <3> QED BY <2>1 DEF Renames
  <2>3. c[T] = f[x] + c[U]
    BY <1>1, <1>5 DEF Sums
  <2>4. d[Image(T)] = g[r[x]] + d[Image(T) \ {r[x]}]
    <3> DEFINE V == Image(T)
               y == r[x]
    <3>1. V \in SUBSET E /\ y \in V
      BY <2>2
    <3> HIDE DEF V, y
    <3>2. d[V] = g[y] + d[V \ {y}]
      BY <1>2, <3>1, SumTakes
    <3> QED BY <3>2 DEF V, y
  <2>5. c[U] = d[Image(U)]
    BY <1>5
  <2> HIDE DEF x, U, Image
  <2>6. c[T] = d[Image(T)]
    BY <2>1, <2>2, <2>3, <2>4, <2>5
  <2> QED BY <2>6
<1>6. Image(S) = E
  BY DEF Renames
<1> HIDE DEF P, Image
<1>7. SUBSET S \subseteq P
  BY <1>4, <1>5, PartInduction
<1> QED BY <1>1, <1>2, <1>6, <1>7 DEF P

-----------------------------------------------------------------------------
(* A body, line by line.                                                   *)

\* A non-empty bounded set of numbers has a largest one.
LEMMA LargestExists ==
  ASSUME NEW n \in Nat, NEW T \in SUBSET (0..n), T # {}
  PROVE  \E x \in T : \A y \in T : y <= x
<1> DEFINE S == {k \in Nat : k <= n /\ (\E x \in T : x >= n - k)
                               => \E x \in T : \A y \in T : y <= x}
<1>1. 0 \in S
  OBVIOUS
<1>2. ASSUME NEW k \in Nat, k \in S
      PROVE  k + 1 \in S
  <2>0. k <= n /\ (\E x \in T : x >= n - k) => \E x \in T : \A y \in T : y <= x
    BY <1>2
  <2>1. ASSUME k + 1 <= n, NEW z \in T, z >= n - (k + 1)
        PROVE  \E x \in T : \A y \in T : y <= x
    <3>1. CASE \E x \in T : x >= n - k
      BY <3>1, <2>0, <2>1
    <3>2. CASE ~ \E x \in T : x >= n - k
      <4>1. \A y \in T : y <= z
        BY <3>2, <2>1
      <4> QED BY <4>1
    <3> QED BY <3>1, <3>2
  <2> QED BY <2>0, <2>1
<1>3. n \in S
  <2> HIDE DEF S
  <2> QED BY <1>1, <1>2, SetInduction
<1>4. \E x \in T : \A y \in T : y <= x
  <2>1. PICK x \in T : x \in 0..n
    OBVIOUS
  <2>2. n - n = 0 /\ n <= n
    OBVIOUS
  <2> QED BY <1>3, <2>1, <2>2
<1> QED BY <1>4

\* Max is the largest one.
LEMMA LargestOf ==
  ASSUME NEW n \in Nat, NEW T \in SUBSET (0..n), T # {}
  PROVE  Latency!Max(T) \in T /\ \A x \in T : x <= Latency!Max(T)
BY LargestExists DEF Latency!Max

Gathered(body, limit) ==
  Latency!FoldLeft(LAMBDA acc, line : Latency!Take(acc, line, limit), Latency!Empty, body)
LineStep(body, limit, a, i) == Latency!Take(a, body[i], limit)
LineFold(body, limit, n, f) == [T \in SUBSET (1..n) |->
                              IF T = {} THEN Latency!Empty
                              ELSE LineStep(body, limit, f[T \ {Latency!Max(T)}], Latency!Max(T))]

\* The function that FoldLeft chooses by its recursive equation exists.
LEMMA LineFoldExists ==
  ASSUME NEW n \in Nat, NEW limit, NEW body
  PROVE  \E f : f = LineFold(body, limit, n, f)
<1> DEFINE D == SUBSET (1..n)
           Size(T) == Cardinality(T)
           Value(f, T) == IF T = {} THEN Latency!Empty
                          ELSE LineStep(body, limit, f[T \ {Latency!Max(T)}], Latency!Max(T))
           Upto(k) == \E f : \A T \in D : Size(T) <= k => f[T] = Value(f, T)
           N == {k \in Nat : Upto(k)}
<1>1. \A T \in D : IsFiniteSet(T) /\ Size(T) \in Nat /\ Size(T) <= Size(1..n)
  <2>1. IsFiniteSet(1..n)
    BY FS_Interval
  <2> QED BY <2>1, FS_Subset, FS_CardinalityType
<1>2. \A T \in D : T # {} => /\ T \ {Latency!Max(T)} \in D
                             /\ Size(T \ {Latency!Max(T)}) = Size(T) - 1
  <2> SUFFICES ASSUME NEW T \in D, T # {}
               PROVE  /\ T \ {Latency!Max(T)} \in D
                      /\ Size(T \ {Latency!Max(T)}) = Size(T) - 1
    OBVIOUS
  <2>1. T \in SUBSET (0..n)
    OBVIOUS
  <2>2. Latency!Max(T) \in T
    BY <2>1, LargestOf
  <2> QED BY <1>1, <2>2, FS_RemoveElement
<1>3. {} \in D /\ Size({}) = 0 /\ 1..n \in D /\ \A T \in D : Size(T) = 0 => T = {}
  BY <1>1, FS_EmptySet
<1> HIDE DEF D, Size
<1>4. 0 \in N
  <2> DEFINE f == [T \in D |-> Latency!Empty]
  <2>1. \A T \in D : Size(T) <= 0 => f[T] = Value(f, T)
    BY <1>1, <1>3
  <2> QED BY <2>1
<1>5. ASSUME NEW k \in Nat, k \in N
      PROVE  k + 1 \in N
  <2>1. PICK f : \A T \in D : Size(T) <= k => f[T] = Value(f, T)
    BY <1>5
  <2> DEFINE g == [T \in D |-> IF Size(T) = k + 1 THEN Value(f, T) ELSE f[T]]
  <2>2. ASSUME NEW T \in D, Size(T) <= k + 1
        PROVE  g[T] = Value(g, T)
    <3>1. CASE T = {}
      <4>1. Size(T) = 0 /\ Size(T) <= k /\ Size(T) # k + 1
        BY <1>3, <3>1
      <4>2. g[T] = f[T] /\ f[T] = Value(f, T)
        <5> HIDE DEF Value
        <5> QED BY <2>1, <4>1
      <4> HIDE DEF g
      <4> QED BY <3>1, <4>2
    <3>2. CASE T # {}
      <4> DEFINE U == T \ {Latency!Max(T)}
      <4>1. U \in D /\ Size(U) = Size(T) - 1 /\ Size(T) \in Nat /\ Size(U) \in Nat
        BY <1>1, <1>2, <3>2
      <4>2. g[U] = f[U]
        <5> HIDE DEF U, Value
        <5> QED BY <4>1, <2>2
      <4>3. g[T] = Value(f, T)
        <5> HIDE DEF Value, U
        <5>1. CASE Size(T) = k + 1
          BY <5>1
        <5>2. CASE Size(T) # k + 1
          BY <5>2, <2>1, <2>2, <4>1
        <5> QED BY <5>1, <5>2
      <4> HIDE DEF g
      <4> QED BY <3>2, <4>2, <4>3
    <3> QED BY <3>1, <3>2
  <2>3. Upto(k + 1)
    <3> HIDE DEF Value, g
    <3> QED BY <2>2
  <2> HIDE DEF Upto
  <2> QED BY <2>3
<1>6. Size(1..n) \in N
  <2> HIDE DEF N
  <2> QED BY <1>1, <1>3, <1>4, <1>5, SetInduction
<1>7. PICK f : \A T \in D : f[T] = Value(f, T)
  <2> HIDE DEF Value
  <2> QED BY <1>1, <1>6
<1> DEFINE g == [T \in D |-> f[T]]
<1>8. \A T \in D : g[T] = Value(g, T)
  <2> SUFFICES ASSUME NEW T \in D
               PROVE  g[T] = Value(g, T)
    OBVIOUS
  <2>1. T # {} => g[T \ {Latency!Max(T)}] = f[T \ {Latency!Max(T)}]
    BY <1>2
  <2>2. g[T] = f[T] /\ f[T] = Value(f, T)
    <3> HIDE DEF Value
    <3> QED BY <1>7
  <2> HIDE DEF g
  <2> QED BY <2>1, <2>2
<1>9. g = [T \in D |-> Value(g, T)]
  <2> DEFINE h == [T \in D |-> Value(g, T)]
  <2>1. \A T \in D : g[T] = h[T]
    <3> HIDE DEF Value, g
    <3> QED BY <1>8
  <2> HIDE DEF Value
  <2> QED BY <2>1
<1>10. g = LineFold(body, limit, n, g)
  BY <1>9 DEF D, LineFold
<1> HIDE DEF g
<1> QED BY <1>10

\* A body is gathered line by line.
LEMMA LineSteps ==
  ASSUME NEW n \in Nat, NEW limit, NEW body, DOMAIN body = 1..n
  PROVE  \E a : /\ a[0] = Latency!Empty
                /\ \A k \in 1..n : a[k] = LineStep(body, limit, a[k - 1], k)
                /\ Gathered(body, limit) = a[n]
<1> DEFINE f == CHOOSE g : g = LineFold(body, limit, n, g)
           a == [k \in 0..n |-> f[1..k]]
<1>1. f = LineFold(body, limit, n, f)
  BY LineFoldExists
<1>2. Gathered(body, limit) = f[1..n]
  BY DEF Gathered, Latency!FoldLeft, Latency!MapThenFoldSet, LineStep, LineFold
<1>3. f[{}] = Latency!Empty
  <2> HIDE DEF f
  <2> QED BY <1>1 DEF LineFold
<1>4. ASSUME NEW k \in 1..n
      PROVE  f[1..k] = LineStep(body, limit, f[1..(k - 1)], k)
  <2>1. 1..k \in SUBSET (1..n) /\ 1..k # {}
    <3>1. k \in Nat /\ 1 <= k /\ k <= n
      OBVIOUS
    <3>2. \A i \in 1..k : i \in 1..n
      BY <3>1
    <3>3. k \in 1..k
      BY <3>1
    <3> QED BY <3>2, <3>3
  <2>2. Latency!Max(1..k) = k
    BY DEF Latency!Max
  <2>3. (1..k) \ {k} = 1..(k - 1)
    OBVIOUS
  <2> HIDE DEF f
  <2> QED BY <1>1, <2>1, <2>2, <2>3 DEF LineFold
<1> HIDE DEF f
<1>5. a[0] = Latency!Empty
  BY <1>3, 1..0 = {}
<1>6. \A k \in 1..n : a[k] = LineStep(body, limit, a[k - 1], k)
  BY <1>4
<1>7. Gathered(body, limit) = a[n]
  BY <1>2
<1> HIDE DEF a
<1> QED BY <1>5, <1>6, <1>7

-----------------------------------------------------------------------------
(* Quantiles.                                                              *)

\* Sets of bounds have a smallest and a largest one.
LEMMA LeastOf ==
  ASSUME NEW n \in Nat, NEW T \in SUBSET (0..n), T # {}
  PROVE  Latency!Least(T) \in T /\ \A x \in T : Latency!Least(T) <= x
<1> DEFINE U == {n - x : x \in T}
<1>1. U \in SUBSET (0..n) /\ U # {}
  <2>1. \A x \in T : n - x \in 0..n
    OBVIOUS
  <2>2. \A u \in U : u \in 0..n
    BY <2>1
  <2>3. PICK x \in T : TRUE
    OBVIOUS
  <2>4. n - x \in U
    OBVIOUS
  <2> HIDE DEF U
  <2> QED BY <2>2, <2>4
<1>2. PICK u \in U : \A y \in U : y <= u
  <2> HIDE DEF U
  <2> QED BY <1>1, LargestExists
<1>3. PICK x \in T : u = n - x
  OBVIOUS
<1>4. \A y \in T : n - y <= n - x
  BY <1>2, <1>3
<1>5. \A y \in T : x <= y
  <2> SUFFICES ASSUME NEW y \in T
               PROVE  x <= y
    OBVIOUS
  <2>1. x \in Nat /\ y \in Nat /\ n - y <= n - x
    BY <1>4
  <2> QED BY <2>1
<1> HIDE DEF U
<1> QED BY <1>5 DEF Latency!Least

\* The largest of some numbers is one of them and none is above it.
LEMMA TopOf ==
  ASSUME NEW n \in Nat, NEW T \in SUBSET (0..n), T # {}
  PROVE  Latency!Top(T) \in T /\ \A x \in T : x <= Latency!Top(T)
BY LargestExists DEF Latency!Top

\* Some samples, counted cumulatively.
Spread(f) ==
  /\ Inf \in Nat /\ DOMAIN f \in SUBSET (1..Inf) /\ Inf \in DOMAIN f
  /\ f \in [DOMAIN f -> Nat] /\ f[Inf] > 0
  /\ \A x, y \in DOMAIN f : x < y => f[x] <= f[y]
Ranks == {50, 95, 99}

Reached(f, q) == {b \in DOMAIN f : 100 * f[b] >= q * f[Inf]}
Bucket(f, q) == Latency!Least(Reached(f, q))
Below(f, i) == {b \in DOMAIN f : b < i}
Lower(f, i) == IF Below(f, i) = {} THEN 0 ELSE Latency!Top(Below(f, i))
Before(f, i) == IF Below(f, i) = {} THEN 0 ELSE f[Lower(f, i)]

\* The bucket of a rank is the first in which as many samples lie.
LEMMA BucketFacts ==
  ASSUME NEW f, Spread(f), NEW q \in Ranks
  PROVE  LET i == Bucket(f, q)
         IN  /\ i \in DOMAIN f /\ i \in 1..Inf
             /\ 100 * f[i] >= q * f[Inf]
             /\ \A b \in DOMAIN f : b < i => 100 * f[b] < q * f[Inf]
<1> DEFINE R == Reached(f, q)
<1>1. Inf \in Nat /\ Inf \in DOMAIN f /\ DOMAIN f \in SUBSET (1..Inf)
  BY DEF Spread
<1>2. \A b \in DOMAIN f : f[b] \in Nat
  BY DEF Spread
<1>3. q \in Nat /\ q <= 100
  BY DEF Ranks
<1>4. Inf \in R
  <2>1. 100 * f[Inf] >= q * f[Inf]
    <3>1. f[Inf] \in Nat
      BY <1>1, <1>2
    <3> QED BY <3>1 DEF Ranks
  <2> QED BY <1>1, <2>1 DEF Reached
<1>5. R \in SUBSET (0..Inf)
  BY <1>1 DEF Reached
<1>6. Latency!Least(R) \in R /\ \A x \in R : Latency!Least(R) <= x
  <2> HIDE DEF R
  <2> QED BY <1>1, <1>4, <1>5, LeastOf
<1> DEFINE i == Bucket(f, q)
<1>7. i \in DOMAIN f /\ 100 * f[i] >= q * f[Inf]
  BY <1>6 DEF Bucket, Reached
<1>8. ASSUME NEW b \in DOMAIN f, b < i
      PROVE  100 * f[b] < q * f[Inf]
  <2>1. b \notin R
    <3>1. i \in Nat /\ b \in Nat
      BY <1>1, <1>7
    <3>2. b \in R => i <= b
      BY <1>6 DEF Bucket
    <3> HIDE DEF i
    <3> QED BY <1>8, <3>1, <3>2
  <2>2. ~(100 * f[b] >= q * f[Inf])
    BY <2>1 DEF Reached
  <2>3. 100 * f[b] \in Int /\ q * f[Inf] \in Int
    BY <1>1, <1>2, <1>3
  <2> QED BY <2>2, <2>3
<1> HIDE DEF i
<1>9. i \in 1..Inf
  BY <1>1, <1>7
<1> QED BY <1>7, <1>8, <1>9 DEF i

\* What lies below a bucket.
LEMMA LowerFacts ==
  ASSUME NEW f, Spread(f), NEW i \in DOMAIN f
  PROVE  /\ Lower(f, i) \in Nat /\ Lower(f, i) < i
         /\ \A b \in Below(f, i) : b <= Lower(f, i)
         /\ Below(f, i) # {} => Lower(f, i) \in Below(f, i)
         /\ Lower(f, i) = Latency!Top({0} \cup Below(f, i))
<1>1. Inf \in Nat /\ DOMAIN f \in SUBSET (1..Inf) /\ i \in 1..Inf
  BY DEF Spread
<1> DEFINE B == Below(f, i)
           Z == {0} \cup B
<1>2. B \in SUBSET (1..Inf) /\ \A b \in B : b < i
  BY <1>1 DEF Below
<1>3. CASE B = {}
  <2>1. Z = {0}
    BY <1>3
  <2>2. Latency!Top({0}) = 0
    BY DEF Latency!Top
  <2> HIDE DEF B
  <2> QED BY <1>1, <1>3, <2>1, <2>2 DEF B, Lower
<1>4. CASE B # {}
  <2> DEFINE l == Latency!Top(B)
             t == Latency!Top(Z)
  <2>1. l \in B /\ \A x \in B : x <= l
    <3>1. B \in SUBSET (0..Inf)
      BY <1>2
    <3> HIDE DEF B
    <3> QED BY <1>1, <1>4, <3>1, TopOf
  <2>2. t \in Z /\ \A x \in Z : x <= t
    <3>1. Z \in SUBSET (0..Inf) /\ Z # {}
      BY <1>1, <1>2
    <3> HIDE DEF Z
    <3> QED BY <1>1, <3>1, TopOf
  <2> HIDE DEF l, t
  <2>3. l \in 1..Inf /\ l < i /\ t \in 0..Inf
    <3> HIDE DEF B
    <3> QED BY <1>1, <1>2, <2>1, <2>2
  <2>4. t = l
    <3>1. l <= t
      BY <2>1, <2>2
    <3>2. t <= l
      <4>1. CASE t = 0
        BY <2>3, <4>1
      <4>2. CASE t \in B
        BY <2>1, <4>2
      <4> QED BY <2>2, <4>1, <4>2
    <3> QED BY <1>1, <2>3, <3>1, <3>2
  <2>5. Lower(f, i) = l
    BY <1>4 DEF Lower, l
  <2> QED BY <1>4, <2>1, <2>3, <2>4, <2>5 DEF t
<1> QED BY <1>3, <1>4

\* A part of something is between nothing and all of it.
LEMMA PartOf ==
  ASSUME NEW a \in Nat, NEW w \in Nat, NEW c \in Nat, c <= w
  PROVE  a * c \in Nat /\ a * w \in Nat /\ a * c <= a * w
<1>1. PICK d \in Nat : w = c + d
  <2>1. w - c \in Nat /\ w = c + (w - c)
    OBVIOUS
  <2> QED BY <2>1
<1>2. a * w = a * c + a * d
  BY <1>1
<1>3. a * c \in Nat /\ a * d \in Nat
  OBVIOUS
<1> QED BY <1>2, <1>3

\* An estimate lies between what is below its bucket and its bound.
LEMMA QuantileFacts ==
  ASSUME NEW f, Spread(f), NEW q \in Ranks
  PROVE  LET x == Latency!Quantile(f, q)
             i == Bucket(f, q)
             l == Lower(f, i)
         IN  /\ x.num \in Nat /\ x.den \in Nat /\ x.den > 0
             /\ l * x.den <= x.num
             /\ i = Inf => x.num = l * x.den
             /\ i # Inf => /\ x.num <= i * x.den
                           /\ x.den = 100 * (f[i] - Before(f, i))
                           /\ x.num = l * x.den + (i - l) * (q * f[Inf] - 100 * Before(f, i))
                           /\ q * f[Inf] - 100 * Before(f, i) \in Nat
<1> DEFINE x == Latency!Quantile(f, q)
           i == Bucket(f, q)
           l == Lower(f, i)
           e == Before(f, i)
           w == 100 * (f[i] - e)
           c == q * f[Inf] - 100 * e
<1>1. i \in DOMAIN f /\ i \in 1..Inf /\ 100 * f[i] >= q * f[Inf]
  BY BucketFacts
<1>2. l \in Nat /\ l < i /\ (Below(f, i) # {} => l \in Below(f, i))
  <2> HIDE DEF i
  <2> QED BY <1>1, LowerFacts
<1>3. /\ Inf \in Nat /\ f[Inf] \in Nat /\ f[Inf] > 0 /\ \A b \in DOMAIN f : f[b] \in Nat
  BY DEF Spread
<1>4. x = IF i = Inf THEN [num |-> l, den |-> 1]
          ELSE IF w = 0 THEN [num |-> i, den |-> 1]
          ELSE [num |-> l * w + (i - l) * c, den |-> w]
  BY DEF Latency!Quantile, Bucket, Reached, Below, Lower, Before
<1>5. e \in Nat /\ 100 * e < q * f[Inf]
  <2>1. CASE Below(f, i) = {}
    <3>1. e = 0
      BY <2>1 DEF Before
    <3> HIDE DEF e
    <3> QED BY <1>3, <3>1 DEF Ranks
  <2>2. CASE Below(f, i) # {}
    <3>1. l \in DOMAIN f /\ l < i
      BY <1>2, <2>2 DEF Below
    <3>2. e = f[l]
      BY <2>2 DEF Before
    <3>3. 100 * f[l] < q * f[Inf]
      <4> HIDE DEF l
      <4> QED BY <3>1, BucketFacts
    <3> HIDE DEF e, l
    <3> QED BY <1>3, <3>1, <3>2, <3>3
  <2> QED BY <2>1, <2>2
<1>6. w \in Nat /\ w > 0 /\ c \in Nat /\ c <= w
  <2>1. q * f[Inf] \in Nat /\ f[i] \in Nat
    BY <1>1, <1>3 DEF Ranks
  <2>2. 100 * f[i] >= q * f[Inf]
    BY <1>1
  <2> DEFINE r == q * f[Inf]
             s == f[i]
  <2>3. r \in Nat /\ s \in Nat /\ 100 * s >= r /\ e \in Nat /\ 100 * e < r
    BY <1>5, <2>1, <2>2
  <2> HIDE DEF r, s, e
  <2>4. 100 * (s - e) \in Nat /\ 100 * (s - e) > 0 /\ r - 100 * e \in Nat /\ r - 100 * e <= 100 * (s - e)
    BY <2>3
  <2> QED BY <2>4 DEF r, s
<1>7. CASE i = Inf
  <2>1. x.num = l /\ x.den = 1
    BY <1>4, <1>7
  <2> HIDE DEF x, l, i
  <2> QED BY <1>2, <1>7, <2>1 DEF x, l, i
<1>8. CASE i # Inf
  <2>1. x.num = l * w + (i - l) * c /\ x.den = w
    <3> HIDE DEF w, c, l, i
    <3> QED BY <1>4, <1>6, <1>8
  <2>2. i - l \in Nat
    <3> HIDE DEF l, i
    <3> QED BY <1>1, <1>2
  <2>3. /\ (i - l) * c \in Nat /\ (i - l) * w \in Nat /\ (i - l) * c <= (i - l) * w
    <3> HIDE DEF l, i, w, c
    <3> QED BY <1>6, <2>2, PartOf
  <2>4. l * w \in Nat /\ i * w = l * w + (i - l) * w
    <3> HIDE DEF l, i, w, c
    <3> QED BY <1>1, <1>2, <1>6
  <2>5. x.num \in Nat /\ l * x.den <= x.num /\ x.num <= i * x.den
    <3> DEFINE lw == l * w
               iw == i * w
               mc == (i - l) * c
               mw == (i - l) * w
    <3>1. lw \in Nat /\ mc \in Nat /\ mw \in Nat /\ mc <= mw /\ iw = lw + mw
      BY <2>3, <2>4
    <3>2. x.num = lw + mc
      BY <2>1
    <3> HIDE DEF lw, mc, mw, iw
    <3>3. x.num \in Nat /\ lw <= x.num /\ x.num <= iw
      <4> HIDE DEF x
      <4> QED BY <3>1, <3>2
    <3> HIDE DEF x, w, l, i
    <3> QED BY <2>1, <3>3 DEF lw, iw
  <2> HIDE DEF x, l, w, c, i
  <2>6. x.den \in Nat /\ x.den > 0
    BY <1>6, <2>1
  <2> QED BY <1>6, <1>8, <2>1, <2>5, <2>6 DEF w, c, e, x, l, i
<1> HIDE DEF x, l, i
<1> QED BY <1>7, <1>8 DEF x, l, i

\* An estimate is in the bucket that holds the sample of its rank.
LEMMA InBucket ==
  ASSUME NEW f, Spread(f), NEW q \in Ranks
  PROVE  Latency!InItsBucket(Latency!Quantile(f, q), q, f)
<1> DEFINE x == Latency!Quantile(f, q)
           i == Bucket(f, q)
           l == Lower(f, i)
           rank == (q * f[Inf] + 99) \div 100
<1>1. f[Inf] \in Nat /\ \A b \in DOMAIN f : f[b] \in Nat
  BY DEF Spread
<1>2. \A b \in DOMAIN f : f[b] >= rank <=> 100 * f[b] >= q * f[Inf]
  <2> SUFFICES ASSUME NEW b \in DOMAIN f
               PROVE  f[b] >= rank <=> 100 * f[b] >= q * f[Inf]
    OBVIOUS
  <2> DEFINE r == q * f[Inf]
             s == f[b]
  <2>1. r \in Nat /\ s \in Nat
    BY <1>1 DEF Ranks
  <2> HIDE DEF r, s
  <2>2. s >= (r + 99) \div 100 <=> 100 * s >= r
    BY <2>1
  <2> QED BY <2>2 DEF r, s
<1>3. {b \in DOMAIN f : f[b] >= rank} = Reached(f, q)
  <2> HIDE DEF rank
  <2> QED BY <1>2 DEF Reached
<1>4. i \in DOMAIN f
  BY BucketFacts
<1>5. l = Latency!Top({0} \cup Below(f, i))
  <2> HIDE DEF i
  <2> QED BY <1>4, LowerFacts
<1>6. /\ l * x.den <= x.num
      /\ i = Inf => x.num = l * x.den
      /\ i # Inf => x.num <= i * x.den
  BY QuantileFacts
<1>7. Latency!Least({b \in DOMAIN f : f[b] >= rank}) = i
  <2> HIDE DEF rank
  <2> QED BY <1>3 DEF Bucket
<1>8. Latency!InItsBucket(x, q, f) <=>
        IF i = Inf THEN x.num = l * x.den
        ELSE l * x.den <= x.num /\ x.num <= i * x.den
  <2> HIDE DEF x, i, l
  <2> QED BY <1>5, <1>7 DEF Latency!InItsBucket, Below
<1> HIDE DEF x, i, l
<1> QED BY <1>6, <1>8 DEF x, i, l

\* What is at most i is at most what is at least l, if i is at most l.
LEMMA Separated ==
  ASSUME NEW a \in Nat, NEW b \in Nat, NEW i \in Nat, NEW l \in Nat, NEW d \in Nat, NEW e \in Nat,
         a <= i * d, l * e <= b, i <= l
  PROVE  a * e <= b * d
<1>1. i * d \in Nat /\ l * e \in Nat /\ d * e \in Nat
  OBVIOUS
<1>2. e * a <= e * (i * d) /\ e * a \in Nat /\ e * (i * d) \in Nat
  <2> DEFINE n == i * d
  <2> HIDE DEF n
  <2> QED BY <1>1, PartOf DEF n
<1>3. d * (l * e) <= d * b /\ d * (l * e) \in Nat /\ d * b \in Nat
  <2> DEFINE n == l * e
  <2> HIDE DEF n
  <2> QED BY <1>1, PartOf DEF n
<1>4. (d * e) * i <= (d * e) * l
  <2> DEFINE n == d * e
  <2> HIDE DEF n
  <2> QED BY <1>1, PartOf DEF n
<1>5. /\ e * (i * d) = (d * e) * i /\ d * (l * e) = (d * e) * l
      /\ a * e = e * a /\ b * d = d * b
  OBVIOUS
<1> DEFINE ea == e * a
           m == (d * e) * i
           n == (d * e) * l
           db == d * b
<1>6. ea \in Nat /\ m \in Nat /\ n \in Nat /\ db \in Nat /\ ea <= m /\ m <= n /\ n <= db
  BY <1>2, <1>3, <1>4, <1>5
<1> HIDE DEF ea, m, n, db
<1>7. ea <= db
  BY <1>6
<1> QED BY <1>5, <1>7 DEF ea, db

\* The estimates ascend.
LEMMA Ascends ==
  ASSUME NEW f, Spread(f), NEW p \in Ranks, NEW q \in Ranks, p < q
  PROVE  Latency!AtMost(Latency!Quantile(f, p), Latency!Quantile(f, q))
<1> DEFINE x == Latency!Quantile(f, p)
           y == Latency!Quantile(f, q)
           i == Bucket(f, p)
           j == Bucket(f, q)
<1>1. f[Inf] \in Nat /\ Inf \in Nat /\ \A b \in DOMAIN f : f[b] \in Nat
  BY DEF Spread
<1>2. /\ i \in DOMAIN f /\ i \in 1..Inf
      /\ \A b \in DOMAIN f : b < i => 100 * f[b] < p * f[Inf]
  BY BucketFacts
<1>3. j \in DOMAIN f /\ j \in 1..Inf /\ 100 * f[j] >= q * f[Inf]
  BY BucketFacts
<1>4. p * f[Inf] <= q * f[Inf] /\ p * f[Inf] \in Nat /\ q * f[Inf] \in Nat
  <2> DEFINE n == f[Inf]
  <2>1. n \in Nat
    BY <1>1
  <2> HIDE DEF n
  <2>2. p * n <= q * n
    BY <2>1 DEF Ranks
  <2> QED BY <1>1, <2>2 DEF n, Ranks
<1> HIDE DEF i, j
<1>5. i <= j
  <2>1. ASSUME j < i
        PROVE  FALSE
    <3> DEFINE m == p * f[Inf]
               n == q * f[Inf]
               s == 100 * f[j]
    <3>1. s < m /\ s >= n /\ m <= n /\ m \in Nat /\ n \in Nat
      BY <1>2, <1>3, <1>4, <2>1
    <3>2. s \in Nat
      BY <1>1, <1>3
    <3> HIDE DEF m, n, s
    <3> QED BY <3>1, <3>2
  <2> QED BY <1>2, <1>3, <2>1
<1>6. /\ x.num \in Nat /\ x.den \in Nat /\ Lower(f, i) * x.den <= x.num
      /\ i = Inf => x.num = Lower(f, i) * x.den
      /\ i # Inf => /\ x.num <= i * x.den
                    /\ x.den = 100 * (f[i] - Before(f, i))
                    /\ x.num = Lower(f, i) * x.den + (i - Lower(f, i)) * (p * f[Inf] - 100 * Before(f, i))
                    /\ p * f[Inf] - 100 * Before(f, i) \in Nat
  BY QuantileFacts DEF i
<1>7. /\ y.num \in Nat /\ y.den \in Nat /\ Lower(f, j) * y.den <= y.num
      /\ j = Inf => y.num = Lower(f, j) * y.den
      /\ j # Inf => /\ y.num <= j * y.den
                    /\ y.den = 100 * (f[j] - Before(f, j))
                    /\ y.num = Lower(f, j) * y.den + (j - Lower(f, j)) * (q * f[Inf] - 100 * Before(f, j))
                    /\ q * f[Inf] - 100 * Before(f, j) \in Nat
  BY QuantileFacts DEF j
<1> HIDE DEF x, y
<1>8. /\ Lower(f, i) \in Nat /\ Lower(f, i) < i
      /\ Lower(f, j) \in Nat /\ \A b \in Below(f, j) : b <= Lower(f, j)
  BY <1>2, <1>3, LowerFacts
<1>9. CASE i < j
  <2>1. i \in Below(f, j) /\ i # Inf /\ i \in Nat
    BY <1>2, <1>3, <1>9 DEF Below
  <2>2. i <= Lower(f, j)
    BY <1>8, <2>1
  <2>3. x.num * y.den <= y.num * x.den
    BY <1>6, <1>7, <1>8, <2>1, <2>2, Separated
  <2> QED BY <2>3 DEF Latency!AtMost, x, y
<1>10. CASE i = j /\ i = Inf
  <2> DEFINE l == Lower(f, i)
  <2>1. x.num = l * x.den /\ y.num = l * y.den /\ l \in Nat
    BY <1>6, <1>7, <1>8, <1>10
  <2> HIDE DEF l
  <2>2. x.num * y.den <= y.num * x.den
    BY <1>6, <1>7, <2>1, Separated
  <2> QED BY <2>2 DEF Latency!AtMost, x, y
<1>11. CASE i = j /\ i # Inf
  <2> DEFINE l == Lower(f, i)
             c == p * f[Inf] - 100 * Before(f, i)
             e == q * f[Inf] - 100 * Before(f, i)
  <2>1. x.den = y.den
    BY <1>6, <1>7, <1>11
  <2>2. c \in Nat /\ e \in Nat /\ i - l \in Nat
    BY <1>2, <1>6, <1>7, <1>8, <1>11
  <2>3. c <= e
    <3> DEFINE m == p * f[Inf]
               n == q * f[Inf]
               s == 100 * Before(f, i)
    <3>1. m <= n /\ m \in Nat /\ n \in Nat
      BY <1>4
    <3>2. s \in Int
      <4>1. Before(f, i) \in Int
        <5>1. Below(f, i) # {} => Lower(f, i) \in DOMAIN f
          BY <1>2, LowerFacts DEF Below
        <5> QED BY <1>1, <5>1 DEF Before
      <4> QED BY <4>1
    <3> HIDE DEF m, n, s
    <3>3. m - s <= n - s
      BY <3>1, <3>2
    <3> QED BY <3>3 DEF m, n, s
  <2>4. x.num = l * x.den + (i - l) * c /\ y.num = l * x.den + (i - l) * e
    BY <1>6, <1>7, <1>11, <2>1
  <2>5. l * x.den \in Nat /\ (i - l) * c \in Nat /\ (i - l) * e \in Nat /\ (i - l) * c <= (i - l) * e
    <3>1. l \in Nat
      BY <1>8
    <3> DEFINE m == i - l
    <3>2. m \in Nat
      BY <2>2
    <3> HIDE DEF l, c, e, m
    <3>3. m * c \in Nat /\ m * e \in Nat /\ m * c <= m * e
      BY <2>2, <2>3, <3>2, PartOf
    <3> QED BY <1>6, <3>1, <3>3 DEF m
  <2>6. x.num <= y.num
    <3> DEFINE r == l * x.den
               s == (i - l) * c
               t == (i - l) * e
    <3>1. r \in Nat /\ s \in Nat /\ t \in Nat /\ s <= t /\ x.num = r + s /\ y.num = r + t
      BY <2>4, <2>5
    <3> HIDE DEF r, s, t
    <3> QED BY <3>1
  <2>7. x.den * x.num <= x.den * y.num
    BY <1>6, <1>7, <2>6, PartOf
  <2>8. x.num * y.den = x.den * x.num /\ y.num * x.den = x.den * y.num
    BY <1>6, <1>7, <2>1
  <2>9. x.num * y.den <= y.num * x.den
    BY <2>7, <2>8
  <2> QED BY <2>9 DEF Latency!AtMost, x, y
<1>12. i < j \/ i = j
  BY <1>2, <1>3, <1>5
<1> QED BY <1>9, <1>10, <1>11, <1>12

-----------------------------------------------------------------------------
(* Histograms of a server, and what lies between two of them.              *)

\* The module that is instantiated counts the same.
LEMMA SameSize ==
  ASSUME NEW S
  PROVE  Latency!Cardinality(S) = Cardinality(S)
BY DEF Latency!Cardinality, Latency!IsFiniteSet, Cardinality, IsFiniteSet

Counting == [Series -> [Latency!Buckets -> Nat]]

\* The buckets are finitely many numbers from 1 to the open bound.
LEMMA BucketsFinite ==
  ASSUME Latency!HistogramsAssumption
  PROVE  /\ IsFiniteSet(Latency!Buckets) /\ Inf \in Nat /\ Inf \in Latency!Buckets
         /\ Latency!Buckets \in SUBSET (1..Inf)
<1>1. IsFiniteSet(Bounds)
  BY DEF Latency!HistogramsAssumption, Latency!IsFiniteSet, IsFiniteSet
<1>2. /\ Bounds \subseteq Nat \ {0} /\ Inf \in Nat /\ Bounds # {} /\ \A b \in Bounds : b < Inf
  BY DEF Latency!HistogramsAssumption
<1>3. Inf > 0
  <2>1. PICK b \in Bounds : b \in Nat /\ b # 0 /\ b < Inf
    BY <1>2
  <2> QED BY <1>2, <2>1
<1>4. \A b \in Bounds : b \in 1..Inf
  <2> SUFFICES ASSUME NEW b \in Bounds
               PROVE  b \in 1..Inf
    OBVIOUS
  <2>1. b \in Nat /\ b # 0 /\ b < Inf
    BY <1>2
  <2> QED BY <1>2, <2>1
<1>5. IsFiniteSet(Bounds \cup {Inf})
  BY <1>1, FS_AddElement
<1>6. Inf \in 1..Inf
  BY <1>2, <1>3
<1> QED BY <1>2, <1>4, <1>5, <1>6 DEF Latency!Buckets

\* Cumulative counts add up and grow as the counts do.
LEMMA CumulativeFacts ==
  ASSUME Latency!HistogramsAssumption, NEW b,
         NEW f \in [Latency!Buckets -> Nat], NEW g \in [Latency!Buckets -> Nat]
  PROVE  /\ Latency!Cumulative(f, b) \in Nat /\ Latency!Cumulative(g, b) \in Nat
         /\ (\A c \in Latency!Buckets : f[c] <= g[c]) =>
              Latency!Cumulative(f, b) <= Latency!Cumulative(g, b)
         /\ \A h \in [Latency!Buckets -> Nat] :
              (\A c \in Latency!Buckets : h[c] = f[c] + g[c]) =>
                Latency!Cumulative(h, b) = Latency!Cumulative(f, b) + Latency!Cumulative(g, b)
<1> DEFINE S == {x \in Latency!Buckets : x <= b}
           Part(e) == [c \in S |-> e[c]]
<1>1. IsFiniteSet(S)
  BY BucketsFinite, FS_Subset
<1>2. \A e \in [Latency!Buckets -> Nat] :
        Part(e) \in [S -> Nat] /\ Latency!Cumulative(e, b) = Latency!Sum(Part(e))
  BY DEF Latency!Cumulative
<1>3. \A e : \A c \in S : Part(e)[c] = e[c] /\ c \in Latency!Buckets
  OBVIOUS
<1> HIDE DEF S, Part
<1>4. Latency!Sum(Part(f)) \in Nat /\ Latency!Sum(Part(g)) \in Nat
  <2>1. /\ Part(f) \in [S -> Nat] /\ Part(g) \in [S -> Nat]
        /\ (\A c \in S : Part(f)[c] <= Part(f)[c]) /\ (\A c \in S : Part(g)[c] <= Part(g)[c])
    BY <1>2
  <2> QED BY <1>1, <2>1, SumGrows
<1>5. ASSUME \A c \in Latency!Buckets : f[c] <= g[c]
      PROVE  Latency!Sum(Part(f)) <= Latency!Sum(Part(g))
  <2>1. Part(f) \in [S -> Nat] /\ Part(g) \in [S -> Nat] /\ \A c \in S : Part(f)[c] <= Part(g)[c]
    BY <1>2, <1>3, <1>5
  <2> QED BY <1>1, <2>1, SumGrows
<1>6. ASSUME NEW h \in [Latency!Buckets -> Nat], \A c \in Latency!Buckets : h[c] = f[c] + g[c]
      PROVE  Latency!Sum(Part(h)) = Latency!Sum(Part(f)) + Latency!Sum(Part(g))
  <2>1. /\ Part(f) \in [S -> Nat] /\ Part(g) \in [S -> Nat] /\ Part(h) \in [S -> Nat]
        /\ \A c \in S : Part(h)[c] = Part(f)[c] + Part(g)[c]
    BY <1>2, <1>3, <1>6
  <2> QED BY <1>1, <2>1, SumAdds
<1> QED BY <1>2, <1>4, <1>5, <1>6

\* The entries of a histogram are what the series of a server counted.
Entries(series, then) ==
  /\ IsFiniteSet(DOMAIN series)
  /\ \A k \in DOMAIN series :
       /\ k[3] \in Series /\ DOMAIN series[k] \in SUBSET Latency!Buckets
       /\ \A b \in DOMAIN series[k] : series[k][b] = Latency!Cumulative(then[k[3]], b)
  /\ \A k, l \in DOMAIN series : k[3] = l[3] => k = l

Truth(h, then) ==
  /\ Entries(h.series, then)
  /\ h.buckets = Latency!Aggregate(h.series) /\ h.buckets # None

\* An aggregate is one of series that are alike.
LEMMA AggregateFacts ==
  ASSUME NEW series, IsFiniteSet(DOMAIN series), Latency!Aggregate(series) # None
  PROVE  LET shape == DOMAIN Latency!Aggregate(series)
         IN  /\ Cardinality(DOMAIN series) \in 1..MaxSeries
             /\ \A k \in DOMAIN series : Latency!ValidBuckets(series[k]) /\ DOMAIN series[k] = shape
             /\ \E k \in DOMAIN series : TRUE
<1>1. Cardinality(DOMAIN series) \in 1..MaxSeries
  BY SameSize DEF Latency!Aggregate
<1>2. \E k \in DOMAIN series : TRUE
  <2>1. CASE DOMAIN series = {}
    <3>1. Cardinality(DOMAIN series) = 0
      BY <2>1, FS_EmptySet
    <3> QED BY <1>1, <3>1
  <2> QED BY <2>1
<1> DEFINE shape == DOMAIN series[CHOOSE k \in DOMAIN series : TRUE]
<1>3. /\ \A k \in DOMAIN series : Latency!ValidBuckets(series[k]) /\ DOMAIN series[k] = shape
      /\ Latency!Aggregate(series) =
           [b \in shape |-> Latency!Sum([k \in DOMAIN series |-> series[k][b]])]
  BY DEF Latency!Aggregate
<1>4. DOMAIN Latency!Aggregate(series) = shape
  BY <1>3
<1> QED BY <1>1, <1>2, <1>3, <1>4

Made(before, after, b) ==
  Latency!Sum([k \in DOMAIN after.series |-> after.series[k][b] - before.series[k][b]])
MadeBy(before, after) == [b \in DOMAIN after.buckets |-> Made(before, after, b)]

\* Where an interval is reported, the series are the same, none fell, and the
\* quantiles are those of all that was made in between.
LEMMA IntervalFacts ==
  ASSUME Latency!HistogramsAssumption, NEW then \in Counting, NEW now \in Counting,
         NEW before, NEW after, Truth(before, then), Truth(after, now),
         Latency!Interval(before, after) # None
  PROVE  LET d == MadeBy(before, after)
             i == Latency!Interval(before, after)
         IN  /\ Spread(d) /\ DOMAIN d = DOMAIN after.buckets
             /\ IsFiniteSet(DOMAIN after.series)
             /\ \A k \in DOMAIN after.series, b \in DOMAIN d :
                  /\ after.series[k][b] = Latency!Cumulative(now[k[3]], b)
                  /\ before.series[k][b] = Latency!Cumulative(then[k[3]], b)
                  /\ after.series[k][b] - before.series[k][b] \in Nat
             /\ i = [samples |-> d[Inf], p50 |-> Latency!Quantile(d, 50),
                     p95 |-> Latency!Quantile(d, 95), p99 |-> Latency!Quantile(d, 99)]
<1> DEFINE D == DOMAIN after.series
           shape == DOMAIN after.buckets
           Change(k) == Latency!Difference(before.series[k], after.series[k])
           change == [k \in D |-> Change(k)]
           d == MadeBy(before, after)
<1>1. /\ DOMAIN before.series = D
      /\ \A k \in D : Latency!Differs(before.series[k], after.series[k])
      /\ Latency!Interval(before, after) = Latency!Quantiles(Latency!Aggregate(change))
  <2>1. /\ DOMAIN before.series = D
        /\ \A k \in D : Latency!Differs(before.series[k], after.series[k])
    BY DEF Latency!Interval
  <2>2. Latency!Interval(before, after) = Latency!Quantiles(Latency!Aggregate(
          [k \in DOMAIN before.series |-> Latency!Difference(before.series[k], after.series[k])]))
    BY DEF Latency!Interval
  <2> QED BY <2>1, <2>2
<1>2. /\ IsFiniteSet(D) /\ Cardinality(D) \in 1..MaxSeries
      /\ \A k \in D : Latency!ValidBuckets(after.series[k]) /\ DOMAIN after.series[k] = shape
      /\ \E k \in D : TRUE
  BY AggregateFacts DEF Truth, Entries
<1>3. \A k \in D : k[3] \in Series /\ shape \in SUBSET Latency!Buckets
  BY <1>2 DEF Truth, Entries
<1>4. \A k \in D : DOMAIN before.series[k] = shape
  BY <1>1, <1>2 DEF Latency!Differs
<1>5. ASSUME NEW k \in D, NEW b \in shape
      PROVE  /\ after.series[k][b] = Latency!Cumulative(now[k[3]], b)
             /\ before.series[k][b] = Latency!Cumulative(then[k[3]], b)
             /\ after.series[k][b] \in Nat /\ before.series[k][b] \in Nat
             /\ before.series[k][b] <= after.series[k][b]
  <2>1. after.series[k][b] = Latency!Cumulative(now[k[3]], b)
    BY <1>2 DEF Truth, Entries
  <2>2. before.series[k][b] = Latency!Cumulative(then[k[3]], b)
    BY <1>1, <1>4 DEF Truth, Entries
  <2>3. now[k[3]] \in [Latency!Buckets -> Nat] /\ then[k[3]] \in [Latency!Buckets -> Nat]
    BY <1>3 DEF Counting
  <2>4. Latency!Cumulative(now[k[3]], b) \in Nat /\ Latency!Cumulative(then[k[3]], b) \in Nat
    BY <2>3, CumulativeFacts
  <2>5. before.series[k][b] <= after.series[k][b]
    BY <1>1, <1>4 DEF Latency!Differs
  <2> QED BY <2>1, <2>2, <2>4, <2>5
<1>6. \A k \in D : /\ DOMAIN Change(k) = shape /\ Latency!ValidBuckets(Change(k))
                   /\ \A b \in shape : Change(k)[b] = after.series[k][b] - before.series[k][b]
  BY <1>1, <1>4 DEF Latency!Differs, Latency!Difference
<1> DEFINE column(b) == [k \in D |-> after.series[k][b] - before.series[k][b]]
<1>7. \A b \in shape : column(b) \in [D -> Nat]
  <2> SUFFICES ASSUME NEW b \in shape, NEW k \in D
               PROVE  after.series[k][b] - before.series[k][b] \in Nat
    OBVIOUS
  <2> DEFINE m == after.series[k][b]
             n == before.series[k][b]
  <2>1. m \in Nat /\ n \in Nat /\ n <= m
    BY <1>5
  <2> HIDE DEF m, n
  <2>2. m - n \in Nat
    BY <2>1
  <2> QED BY <2>2 DEF m, n
<1>8. \A b \in shape : d[b] = Latency!Sum(column(b)) /\ d[b] \in Nat
  <2> SUFFICES ASSUME NEW b \in shape
               PROVE  d[b] = Latency!Sum(column(b)) /\ d[b] \in Nat
    OBVIOUS
  <2>1. d[b] = Latency!Sum(column(b))
    BY DEF MadeBy, Made
  <2>2. column(b) \in [D -> Nat] /\ \A k \in D : column(b)[k] \in Nat
    BY <1>7
  <2> HIDE DEF column, D, d
  <2>3. \A k \in D : column(b)[k] <= column(b)[k]
    BY <2>2
  <2>4. Latency!Sum(column(b)) \in Nat
    BY <1>2, <2>2, <2>3, SumGrows
  <2> QED BY <2>1, <2>4
<1>9. Latency!Aggregate(change) = d
  <2>1. DOMAIN change = D /\ \A k \in D : change[k] = Change(k)
    OBVIOUS
  <2> DEFINE k0 == CHOOSE k \in DOMAIN change : TRUE
  <2>2. DOMAIN change[k0] = shape
    BY <1>2, <1>6, <2>1
  <2>3. /\ Latency!Cardinality(DOMAIN change) \in 1..MaxSeries
        /\ \A k \in DOMAIN change : Latency!ValidBuckets(change[k]) /\ DOMAIN change[k] = shape
    BY <1>2, <1>6, <2>1, SameSize
  <2>4. Latency!Aggregate(change) =
          [b \in shape |-> Latency!Sum([k \in DOMAIN change |-> change[k][b]])]
    <3> HIDE DEF change, D, shape
    <3> QED BY <2>2, <2>3 DEF Latency!Aggregate
  <2>5. ASSUME NEW b \in shape
        PROVE  [k \in DOMAIN change |-> change[k][b]] = column(b)
    BY <1>6, <2>1
  <2>6. d = [b \in shape |-> Latency!Sum(column(b))]
    BY DEF MadeBy, Made
  <2> HIDE DEF change, column, shape, d
  <2> QED BY <2>4, <2>5, <2>6
<1>10. d[Inf] # 0
  <2>1. Latency!Quantiles(d) # None
    BY <1>1, <1>9
  <2> HIDE DEF d
  <2> QED BY <2>1 DEF Latency!Quantiles
<1>11. Latency!Interval(before, after) =
         [samples |-> d[Inf], p50 |-> Latency!Quantile(d, 50),
          p95 |-> Latency!Quantile(d, 95), p99 |-> Latency!Quantile(d, 99)]
  <2> HIDE DEF d, change
  <2> QED BY <1>1, <1>9, <1>10 DEF Latency!Quantiles
<1>12. Inf \in shape /\ DOMAIN d = shape /\ shape \in SUBSET (1..Inf) /\ Inf \in Nat
  <2>1. PICK k \in D : TRUE
    BY <1>2
  <2>2. Inf \in shape /\ shape \in SUBSET Latency!Buckets
    BY <1>2, <1>3, <2>1 DEF Latency!ValidBuckets
  <2>3. DOMAIN d = shape
    BY DEF MadeBy
  <2> QED BY <2>2, <2>3, BucketsFinite
<1>13. ASSUME NEW x \in shape, NEW y \in shape, x < y
       PROVE  d[x] <= d[y]
  <2>1. \A k \in D : column(x)[k] <= column(y)[k]
    <3> SUFFICES ASSUME NEW k \in D
                 PROVE  column(x)[k] <= column(y)[k]
      OBVIOUS
    <3>1. Change(k)[x] <= Change(k)[y]
      <4>1. Latency!ValidBuckets(Change(k)) /\ DOMAIN Change(k) = shape
        BY <1>6
      <4> HIDE DEF Change
      <4> QED BY <4>1, <1>13 DEF Latency!ValidBuckets
    <3> QED BY <1>6, <3>1
  <2>2. column(x) \in [D -> Nat] /\ column(y) \in [D -> Nat]
    BY <1>7
  <2> HIDE DEF column, D
  <2>3. Latency!Sum(column(x)) <= Latency!Sum(column(y))
    BY <1>2, <2>1, <2>2, SumGrows
  <2> QED BY <1>8, <2>3
<1>14. Spread(d)
  <2>1. d \in [shape -> Nat]
    BY <1>8 DEF MadeBy
  <2>2. d[Inf] \in Nat /\ d[Inf] > 0
    <3>1. d[Inf] \in Nat
      BY <1>8, <1>12
    <3> HIDE DEF d
    <3> QED BY <1>10, <3>1
  <2> HIDE DEF d, shape
  <2> QED BY <1>12, <1>13, <2>1, <2>2 DEF Spread
<1>15. \A k \in D, b \in shape : after.series[k][b] - before.series[k][b] \in Nat
  BY <1>7
<1> HIDE DEF D, shape, change
<1> QED BY <1>2, <1>5, <1>11, <1>12, <1>14, <1>15 DEF D, shape

\* What is told of an interval, of the series of a histogram and the bounds
\* they share, is what was really observed: at most that, if then and now
\* differ by at most it, and just that, if they differ by it.
Told(i, real, shown, bounds, exact) ==
  LET seen == [b \in bounds |-> Latency!Sum([s \in shown |-> Latency!Cumulative(real[s], b)])]
  IN  /\ i.samples \in 1..seen[Inf]
      /\ Latency!AtMost(i.p50, i.p95) /\ Latency!AtMost(i.p95, i.p99)
      /\ exact =>
           /\ i.samples = seen[Inf]
           /\ Latency!InItsBucket(i.p50, 50, seen) /\ Latency!InItsBucket(i.p95, 95, seen)
           /\ Latency!InItsBucket(i.p99, 99, seen)

Shown(h) == {k[3] : k \in DOMAIN h.series}

\* An interval of two true samples tells of what was observed between them:
\* all of it if the server kept running, else no more than that.
LEMMA IntervalTold ==
  ASSUME Latency!HistogramsAssumption, NEW then \in Counting, NEW now \in Counting,
         NEW real \in Counting, NEW exact \in BOOLEAN,
         \A s \in Series, b \in Latency!Buckets :
           IF exact THEN now[s][b] = then[s][b] + real[s][b] ELSE now[s][b] <= real[s][b],
         NEW before, NEW after, Truth(before, then), Truth(after, now),
         Latency!Interval(before, after) # None
  PROVE  Told(Latency!Interval(before, after), real, Shown(after), DOMAIN after.buckets, exact)
<1> DEFINE D == DOMAIN after.series
           shape == DOMAIN after.buckets
           E == Shown(after)
           i == Latency!Interval(before, after)
           d == MadeBy(before, after)
           mine(b) == [k \in D |-> after.series[k][b] - before.series[k][b]]
           theirs(b) == [k \in D |-> Latency!Cumulative(real[k[3]], b)]
           row(b) == [s \in E |-> Latency!Cumulative(real[s], b)]
           seen == [b \in shape |-> Latency!Sum(row(b))]
<1>1. /\ Spread(d) /\ DOMAIN d = shape /\ IsFiniteSet(D)
      /\ \A k \in D, b \in shape :
           /\ after.series[k][b] = Latency!Cumulative(now[k[3]], b)
           /\ before.series[k][b] = Latency!Cumulative(then[k[3]], b)
           /\ after.series[k][b] - before.series[k][b] \in Nat
      /\ i = [samples |-> d[Inf], p50 |-> Latency!Quantile(d, 50),
              p95 |-> Latency!Quantile(d, 95), p99 |-> Latency!Quantile(d, 99)]
  BY IntervalFacts
<1>2. \A k \in D : k[3] \in Series
  BY DEF Truth, Entries
<1>3. \A k, l \in D : k[3] = l[3] => k = l
  BY DEF Truth, Entries
<1>4. ASSUME NEW k \in D, NEW b \in shape
      PROVE  /\ theirs(b)[k] \in Nat /\ mine(b)[k] \in Nat
             /\ mine(b)[k] <= theirs(b)[k] /\ (exact => mine(b)[k] = theirs(b)[k])
  <2> DEFINE n == now[k[3]]
             t == then[k[3]]
             r == real[k[3]]
             cn == Latency!Cumulative(n, b)
             ct == Latency!Cumulative(t, b)
             cr == Latency!Cumulative(r, b)
  <2>1. /\ n \in [Latency!Buckets -> Nat] /\ t \in [Latency!Buckets -> Nat]
        /\ r \in [Latency!Buckets -> Nat]
    BY <1>2 DEF Counting
  <2>2. mine(b)[k] = cn - ct /\ cn - ct \in Nat /\ theirs(b)[k] = cr
    BY <1>1
  <2>3. \A c \in Latency!Buckets : IF exact THEN n[c] = t[c] + r[c] ELSE n[c] <= r[c]
    BY <1>2
  <2> HIDE DEF n, t, r
  <2>4. cn \in Nat /\ ct \in Nat /\ cr \in Nat
    BY <2>1, CumulativeFacts
  <2>5. exact => cn = ct + cr
    BY <2>1, <2>3, CumulativeFacts
  <2>6. ~exact => cn <= cr
    BY <2>1, <2>3, CumulativeFacts
  <2> HIDE DEF cn, ct, cr, mine, theirs
  <2> QED BY <2>2, <2>4, <2>5, <2>6
<1>5. IsFiniteSet(E)
  <2> DEFINE r == [k \in D |-> k[3]]
  <2>1. r \in [D -> E] /\ \A s \in E : \E k \in D : r[k] = s
    BY DEF Shown
  <2>2. r \in Surjection(D, E)
    <3> HIDE DEF r, D, E
    <3> QED BY <2>1 DEF Surjection
  <2> HIDE DEF r, D, E
  <2> QED BY <1>1, <2>2, FS_Surjection
<1>6. ASSUME NEW b \in shape
      PROVE  /\ d[b] = Latency!Sum(mine(b)) /\ seen[b] = Latency!Sum(theirs(b))
             /\ d[b] \in Nat /\ seen[b] \in Nat /\ d[b] <= seen[b]
             /\ exact => d[b] = seen[b]
  <2>1. d[b] = Latency!Sum(mine(b)) /\ seen[b] = Latency!Sum(row(b))
    BY DEF MadeBy, Made
  <2>2. mine(b) \in [D -> Nat] /\ theirs(b) \in [D -> Nat]
    <3>1. \A k \in D : mine(b)[k] \in Nat /\ theirs(b)[k] \in Nat
      BY <1>4
    <3> QED BY <3>1
  <2>3. row(b) \in [E -> Nat]
    <3> SUFFICES ASSUME NEW s \in E
                 PROVE  Latency!Cumulative(real[s], b) \in Nat
      OBVIOUS
    <3>1. s \in Series
      BY <1>2 DEF Shown
    <3>2. real[s] \in [Latency!Buckets -> Nat]
      BY <3>1 DEF Counting
    <3> QED BY <3>2, CumulativeFacts
  <2> DEFINE r == [k \in D |-> k[3]]
  <2>4. Renames(r, D, E) /\ \A x \in D : theirs(b)[x] = row(b)[r[x]]
    <3>1. r \in [D -> E] /\ \A e \in E : \E x \in D : r[x] = e
      BY DEF Shown
    <3>2. \A x, y \in D : r[x] = r[y] => x = y
      BY <1>3
    <3>3. \A x \in D : theirs(b)[x] = row(b)[r[x]]
      BY <3>1
    <3> HIDE DEF D, E, r, theirs, row
    <3> QED BY <3>1, <3>2, <3>3 DEF Renames
  <2>5. \A k \in D : mine(b)[k] <= theirs(b)[k] /\ (exact => mine(b)[k] = theirs(b)[k])
    BY <1>4
  <2>6. exact => mine(b) = theirs(b)
    BY <2>5
  <2> HIDE DEF D, E, r, mine, theirs, row, d, seen
  <2>7. Latency!Sum(theirs(b)) = Latency!Sum(row(b))
    <3> DEFINE f == theirs(b)
               g == row(b)
    <3>1. f \in [D -> Nat] /\ g \in [E -> Nat] /\ \A x \in D : f[x] = g[r[x]]
      BY <2>2, <2>3, <2>4
    <3> HIDE DEF f, g
    <3>2. Latency!Sum(f) = Latency!Sum(g)
      BY <1>1, <1>5, <2>4, <3>1, SumRenamed
    <3> QED BY <3>2 DEF f, g
  <2>8. /\ Latency!Sum(mine(b)) \in Nat /\ Latency!Sum(theirs(b)) \in Nat
        /\ Latency!Sum(mine(b)) <= Latency!Sum(theirs(b))
    BY <1>1, <2>2, <2>5, SumGrows
  <2> QED BY <2>1, <2>6, <2>7, <2>8
<1>7. d[Inf] \in Nat /\ d[Inf] > 0 /\ Inf \in shape
  BY <1>1 DEF Spread
<1>8. d[Inf] \in 1..seen[Inf]
  <2>1. seen[Inf] \in Nat /\ d[Inf] <= seen[Inf]
    BY <1>6, <1>7
  <2> HIDE DEF d, seen
  <2> QED BY <1>7, <2>1
<1>9. exact => seen = d
  <2> SUFFICES ASSUME exact
               PROVE  seen = d
    OBVIOUS
  <2>1. \A b \in shape : seen[b] = d[b]
    BY <1>6
  <2>2. d = [b \in shape |-> d[b]] /\ seen = [b \in shape |-> seen[b]]
    BY DEF MadeBy
  <2> HIDE DEF d, seen
  <2> QED BY <2>1, <2>2
<1>10. Latency!AtMost(i.p50, i.p95) /\ Latency!AtMost(i.p95, i.p99)
  <2>1. /\ Latency!AtMost(Latency!Quantile(d, 50), Latency!Quantile(d, 95))
        /\ Latency!AtMost(Latency!Quantile(d, 95), Latency!Quantile(d, 99))
    <3> HIDE DEF d
    <3> QED BY <1>1, Ascends DEF Ranks
  <2> HIDE DEF d, i
  <2> QED BY <1>1, <2>1
<1>11. /\ Latency!InItsBucket(i.p50, 50, d) /\ Latency!InItsBucket(i.p95, 95, d)
       /\ Latency!InItsBucket(i.p99, 99, d)
  <2>1. \A q \in Ranks : Latency!InItsBucket(Latency!Quantile(d, q), q, d)
    <3> HIDE DEF d
    <3> QED BY <1>1, InBucket
  <2>2. 50 \in Ranks /\ 95 \in Ranks /\ 99 \in Ranks
    BY DEF Ranks
  <2> HIDE DEF d, i
  <2> QED BY <1>1, <2>1, <2>2
<1>12. i.samples = d[Inf]
  BY <1>1
<1> HIDE DEF i, d
<1>13. /\ i.samples \in 1..seen[Inf]
       /\ exact => i.samples = seen[Inf]
  BY <1>8, <1>9, <1>12
<1> HIDE DEF seen
<1>14. exact => /\ Latency!InItsBucket(i.p50, 50, seen) /\ Latency!InItsBucket(i.p95, 95, seen)
                /\ Latency!InItsBucket(i.p99, 99, seen)
  BY <1>9, <1>11
<1> QED BY <1>10, <1>13, <1>14 DEF Told, seen, i

-----------------------------------------------------------------------------
(* What is gathered from a body.                                           *)

\* A line under prefix p says what was counted, unless it says nothing.
SoundLine(line, then, p) ==
  /\ line.prefix = p /\ line.schema # None /\ Latency!ToSet(line.labels) \in Series
  /\ \/ line.value = NaN \/ line.value < 0 \/ line.le \in {None, NaN}
     \/ /\ line.le \in Latency!Buckets
        /\ line.value = Latency!Cumulative(then[Latency!ToSet(line.labels)], line.le)

Fields == {"schema", "series", "invalid", "truncated", "samples", "complete"}

\* An accumulator without fault holds what was counted, under one name.
Accumulated(acc, then, p) ==
  /\ DOMAIN acc = Fields
  /\ ~acc.invalid =>
       /\ Entries(acc.series, then)
       /\ \A k \in DOMAIN acc.series : k = <<p, acc.schema, k[3]>> /\ acc.schema # None

\* What the changes of an accumulator make of it.
LEMMA ChangedFields ==
  ASSUME NEW acc, DOMAIN acc = Fields
  PROVE  /\ \A v : LET a == [acc EXCEPT !.invalid = v]
                   IN  /\ DOMAIN a = Fields /\ a.invalid = v
                       /\ a.schema = acc.schema /\ a.series = acc.series
         /\ \A v : LET a == [acc EXCEPT !.truncated = v]
                   IN  /\ DOMAIN a = Fields /\ a.invalid = acc.invalid
                       /\ a.schema = acc.schema /\ a.series = acc.series
         /\ \A v : LET a == [acc EXCEPT !.samples = v]
                   IN  /\ DOMAIN a = Fields /\ a.invalid = acc.invalid
                       /\ a.schema = acc.schema /\ a.series = acc.series
         /\ \A v : LET a == [acc EXCEPT !.complete = v]
                   IN  /\ DOMAIN a = Fields /\ a.invalid = acc.invalid
                       /\ a.schema = acc.schema /\ a.series = acc.series
         /\ \A v : LET a == [acc EXCEPT !.schema = v]
                   IN  /\ DOMAIN a = Fields /\ a.invalid = acc.invalid
                       /\ a.schema = v /\ a.series = acc.series
         /\ \A v : LET a == [acc EXCEPT !.series = v]
                   IN  /\ DOMAIN a = Fields /\ a.invalid = acc.invalid
                       /\ a.schema = acc.schema /\ a.series = v
BY DEF Fields

\* One that is invalid, or holds the same, is as good.
LEMMA ChangeKeeps ==
  ASSUME NEW acc, NEW then, NEW p, Accumulated(acc, then, p)
  PROVE  /\ Accumulated([acc EXCEPT !.invalid = TRUE], then, p)
         /\ Accumulated([[acc EXCEPT !.invalid = TRUE] EXCEPT !.truncated = TRUE], then, p)
         /\ Accumulated([acc EXCEPT !.samples = @ + 1], then, p)
         /\ Accumulated([acc EXCEPT !.complete = FALSE, !.truncated = TRUE], then, p)
<1>1. \A b : Accumulated(b, then, p) => DOMAIN b = Fields
  BY DEF Accumulated
<1>2. ASSUME NEW a, NEW b, Accumulated(b, then, p), DOMAIN a = Fields,
             a.invalid = b.invalid, a.schema = b.schema, a.series = b.series
      PROVE  Accumulated(a, then, p)
  BY <1>2 DEF Accumulated
<1>3. ASSUME NEW b, Accumulated(b, then, p)
      PROVE  Accumulated([b EXCEPT !.invalid = TRUE], then, p)
  <2> DEFINE a == [b EXCEPT !.invalid = TRUE]
  <2>1. DOMAIN a = Fields /\ a.invalid
    BY <1>1, <1>3, ChangedFields
  <2> HIDE DEF a
  <2>2. Accumulated(a, then, p)
    BY <2>1 DEF Accumulated
  <2> QED BY <2>2 DEF a
<1>4. ASSUME NEW b, Accumulated(b, then, p), NEW v
      PROVE  /\ Accumulated([b EXCEPT !.truncated = v], then, p)
             /\ Accumulated([b EXCEPT !.samples = v], then, p)
             /\ Accumulated([b EXCEPT !.complete = v], then, p)
  BY <1>1, <1>2, <1>4, ChangedFields
<1>5. [acc EXCEPT !.complete = FALSE, !.truncated = TRUE] =
        [[acc EXCEPT !.complete = FALSE] EXCEPT !.truncated = TRUE]
  OBVIOUS
<1>6. \E v : [acc EXCEPT !.samples = @ + 1] = [acc EXCEPT !.samples = v]
  OBVIOUS
<1>7. Accumulated([[acc EXCEPT !.invalid = TRUE] EXCEPT !.truncated = TRUE], then, p)
  <2> DEFINE b == [acc EXCEPT !.invalid = TRUE]
  <2>1. Accumulated(b, then, p)
    BY <1>3
  <2> HIDE DEF b
  <2>2. Accumulated([b EXCEPT !.truncated = TRUE], then, p)
    BY <1>4, <2>1
  <2> QED BY <2>2 DEF b
<1>8. Accumulated([[acc EXCEPT !.complete = FALSE] EXCEPT !.truncated = TRUE], then, p)
  <2> DEFINE b == [acc EXCEPT !.complete = FALSE]
  <2>1. Accumulated(b, then, p)
    BY <1>4
  <2> HIDE DEF b
  <2>2. Accumulated([b EXCEPT !.truncated = TRUE], then, p)
    BY <1>4, <2>1
  <2> QED BY <2>2 DEF b
<1>9. Accumulated([acc EXCEPT !.samples = @ + 1], then, p)
  BY <1>4, <1>6
<1>10. Accumulated([acc EXCEPT !.invalid = TRUE], then, p)
  BY <1>3
<1> QED BY <1>5, <1>7, <1>8, <1>9, <1>10

\* One more bucket of a series.
LEMMA EntryAdded ==
  ASSUME NEW series, NEW then, NEW p, NEW schema, NEW labels \in Series,
         NEW le \in Latency!Buckets, NEW buckets, Entries(series, then),
         \A k \in DOMAIN series : k = <<p, schema, k[3]>>,
         buckets = IF <<p, schema, labels>> \in DOMAIN series
                   THEN series[<<p, schema, labels>>] ELSE [b \in {} |-> 0]
  PROVE  LET value == Latency!Cumulative(then[labels], le)
             new == Latency!With(series, <<p, schema, labels>>, Latency!With(buckets, le, value))
         IN  Entries(new, then) /\ \A k \in DOMAIN new : k = <<p, schema, k[3]>>
<1> DEFINE key == <<p, schema, labels>>
           value == Latency!Cumulative(then[labels], le)
           filled == Latency!With(buckets, le, value)
           new == Latency!With(series, key, filled)
<1>1. key[3] = labels
  OBVIOUS
<1>2. /\ DOMAIN buckets \in SUBSET Latency!Buckets
      /\ \A b \in DOMAIN buckets : buckets[b] = Latency!Cumulative(then[labels], b)
  <2>1. CASE key \in DOMAIN series
    BY <1>1, <2>1 DEF Entries
  <2>2. CASE key \notin DOMAIN series
    BY <2>2
  <2> QED BY <2>1, <2>2
<1> HIDE DEF key
<1>3. /\ DOMAIN filled = DOMAIN buckets \cup {le}
      /\ \A b \in DOMAIN filled : filled[b] = IF b = le THEN value ELSE buckets[b]
  BY DEF Latency!With
<1>4. /\ DOMAIN new = DOMAIN series \cup {key}
      /\ \A k \in DOMAIN new : new[k] = IF k = key THEN filled ELSE series[k]
  BY DEF Latency!With
<1>5. /\ DOMAIN filled \in SUBSET Latency!Buckets
      /\ \A b \in DOMAIN filled : filled[b] = Latency!Cumulative(then[labels], b)
  <2> HIDE DEF filled
  <2> QED BY <1>2, <1>3
<1>6. IsFiniteSet(DOMAIN new)
  <2> HIDE DEF new
  <2> QED BY <1>4, FS_AddElement DEF Entries
<1>7. \A k \in DOMAIN new : k = <<p, schema, k[3]>>
  <2> HIDE DEF new
  <2> QED BY <1>1, <1>4 DEF key
<1>8. ASSUME NEW k \in DOMAIN new
      PROVE  /\ k[3] \in Series /\ DOMAIN new[k] \in SUBSET Latency!Buckets
             /\ \A b \in DOMAIN new[k] : new[k][b] = Latency!Cumulative(then[k[3]], b)
  <2> HIDE DEF new, filled
  <2>1. CASE k = key
    BY <1>1, <1>4, <1>5, <2>1
  <2>2. CASE k # key
    BY <1>4, <2>2 DEF Entries
  <2> QED BY <2>1, <2>2
<1>9. \A k, l \in DOMAIN new : k[3] = l[3] => k = l
  <2> HIDE DEF new
  <2> SUFFICES ASSUME NEW k \in DOMAIN new, NEW l \in DOMAIN new, k[3] = l[3]
               PROVE  k = l
    OBVIOUS
  <2>1. k = <<p, schema, k[3]>> /\ l = <<p, schema, l[3]>>
    BY <1>7
  <2> QED BY <2>1
<1> HIDE DEF new
<1>10. Entries(new, then)
  BY <1>6, <1>8, <1>9 DEF Entries
<1> QED BY <1>7, <1>10 DEF new, filled, value, key

\* Filling a sound line in leaves what was gathered sound.
LEMMA FillKeeps ==
  ASSUME NEW acc, NEW then, NEW p, Accumulated(acc, then, p),
         NEW line, SoundLine(line, then, p), line.value # NaN
  PROVE  Accumulated(Latency!Fill(acc, line), then, p)
<1> DEFINE labels == Latency!ToSet(line.labels)
           key == Latency!Key(line)
           buckets == IF key \in DOMAIN acc.series THEN acc.series[key] ELSE [b \in {} |-> 0]
           value == line.value
           filled == [acc EXCEPT !.schema = line.schema,
                                 !.series = Latency!With(@, key, Latency!With(buckets, line.le, value))]
           invalid == [acc EXCEPT !.invalid = TRUE]
           limited == [invalid EXCEPT !.truncated = TRUE]
           new == Latency!Fill(acc, line)
<1>1. \/ new = acc
      \/ new = invalid
      \/ new = limited
      \/ /\ ~acc.invalid /\ acc.schema \in {None, line.schema} /\ ~(line.value < 0)
         /\ Latency!KeyParses(line) /\ new = filled
  BY DEF Latency!Fill
<1>2. DOMAIN acc = Fields
  BY DEF Accumulated
<1>3. CASE new = acc
  BY <1>3
<1>4. Accumulated(invalid, then, p) /\ Accumulated(limited, then, p)
  BY ChangeKeeps
<1>5. CASE /\ ~acc.invalid /\ acc.schema \in {None, line.schema} /\ ~(line.value < 0)
           /\ Latency!KeyParses(line) /\ new = filled
  <2>1. /\ line.le \in Latency!Buckets /\ value = Latency!Cumulative(then[labels], line.le)
        /\ labels \in Series /\ key = <<p, line.schema, labels>> /\ line.schema # None
    BY <1>5 DEF SoundLine, Latency!KeyParses, Latency!Key
  <2>2. Entries(acc.series, then) /\ \A k \in DOMAIN acc.series : k = <<p, line.schema, k[3]>>
    BY <1>5 DEF Accumulated
  <2> DEFINE series == Latency!With(acc.series, key, Latency!With(buckets, line.le, value))
  <2>3. Entries(series, then) /\ \A k \in DOMAIN series : k = <<p, line.schema, k[3]>>
    <3> HIDE DEF labels, key, value
    <3> DEFINE le == line.le
               schema == line.schema
               old == acc.series
    <3>1. /\ le \in Latency!Buckets /\ labels \in Series /\ Entries(old, then)
          /\ \A k \in DOMAIN old : k = <<p, schema, k[3]>>
          /\ buckets = IF <<p, schema, labels>> \in DOMAIN old
                       THEN old[<<p, schema, labels>>] ELSE [b \in {} |-> 0]
      BY <2>1, <2>2
    <3> HIDE DEF le, schema, old, buckets
    <3>2. LET v == Latency!Cumulative(then[labels], le)
              s == Latency!With(old, <<p, schema, labels>>, Latency!With(buckets, le, v))
          IN  Entries(s, then) /\ \A k \in DOMAIN s : k = <<p, schema, k[3]>>
      BY <3>1, EntryAdded
    <3> QED BY <2>1, <3>2 DEF le, schema, old
  <2>4. /\ DOMAIN filled = Fields /\ filled.invalid = acc.invalid
        /\ filled.schema = line.schema /\ filled.series = series
    <3> HIDE DEF key, buckets, value
    <3> DEFINE schema == line.schema
               named == [acc EXCEPT !.schema = schema]
    <3>1. filled = [named EXCEPT !.series = series]
      OBVIOUS
    <3> HIDE DEF series, filled, schema
    <3>2. /\ DOMAIN named = Fields /\ named.invalid = acc.invalid /\ named.schema = schema
      BY <1>2, ChangedFields
    <3> HIDE DEF named
    <3>3. /\ DOMAIN filled = Fields /\ filled.invalid = named.invalid
          /\ filled.schema = named.schema /\ filled.series = series
      BY <3>1, <3>2, ChangedFields
    <3> QED BY <3>2, <3>3 DEF schema
  <2> HIDE DEF series, filled
  <2>5. Accumulated(filled, then, p)
    BY <1>5, <2>1, <2>3, <2>4 DEF Accumulated
  <2> QED BY <1>5, <2>5
<1> HIDE DEF new, filled, invalid, limited
<1> QED BY <1>1, <1>3, <1>4, <1>5 DEF new

\* A line is gathered for what it says, or not at all.
LEMMA TakeKeeps ==
  ASSUME NEW acc, NEW then, NEW p, Accumulated(acc, then, p), NEW limit,
         NEW line, line = None \/ SoundLine(line, then, p)
  PROVE  Accumulated(Latency!Take(acc, line, limit), then, p)
<1> DEFINE new == Latency!Take(acc, line, limit)
           counted == [acc EXCEPT !.samples = @ + 1]
           invalid == [acc EXCEPT !.invalid = TRUE]
           cut == [acc EXCEPT !.complete = FALSE, !.truncated = TRUE]
<1>1. \/ new = acc \/ new = invalid \/ new = cut
      \/ line # None /\ line.value # NaN /\ new = Latency!Fill(counted, line)
  BY DEF Latency!Take, Latency!Scan, Latency!Absent
<1>2. Accumulated(invalid, then, p) /\ Accumulated(cut, then, p) /\ Accumulated(counted, then, p)
  BY ChangeKeeps
<1> HIDE DEF counted, invalid, cut, new
<1>3. CASE line # None /\ line.value # NaN /\ new = Latency!Fill(counted, line)
  <2>1. SoundLine(line, then, p)
    BY <1>3
  <2>2. Accumulated(Latency!Fill(counted, line), then, p)
    BY <1>2, <1>3, <2>1, FillKeeps
  <2> QED BY <1>3, <2>2 DEF new
<1>4. Accumulated(new, then, p)
  BY <1>1, <1>2, <1>3 DEF new
<1> QED BY <1>4 DEF new

\* A body of sound lines.
SoundBody(body, then, p) ==
  /\ \E n \in Nat : DOMAIN body = 1..n
  /\ \A i \in DOMAIN body : body[i] = None \/ SoundLine(body[i], then, p)

\* What is parsed of it, if anything, is what was counted.
LEMMA ParsedTrue ==
  ASSUME NEW body, NEW then, NEW p, SoundBody(body, then, p), NEW limit,
         Latency!Parsed(body, limit) # None
  PROVE  Truth(Latency!Parsed(body, limit), then)
<1>1. PICK n \in Nat : DOMAIN body = 1..n
  BY DEF SoundBody
<1>2. PICK a : /\ a[0] = Latency!Empty
               /\ \A k \in 1..n : a[k] = LineStep(body, limit, a[k - 1], k)
               /\ Gathered(body, limit) = a[n]
  BY <1>1, LineSteps
<1> DEFINE M == {k \in Nat : k <= n => Accumulated(a[k], then, p)}
<1>3. 0 \in M
  <2>1. Accumulated(Latency!Empty, then, p)
    <3> DEFINE e == Latency!Empty
    <3>1. DOMAIN e = Fields /\ DOMAIN e.series = {}
      BY DEF Latency!Empty, Fields
    <3> HIDE DEF e
    <3>2. IsFiniteSet(DOMAIN e.series)
      BY <3>1, FS_EmptySet
    <3>3. Accumulated(e, then, p)
      BY <3>1, <3>2 DEF Accumulated, Entries
    <3> QED BY <3>3 DEF e
  <2> QED BY <1>2, <2>1
<1>4. ASSUME NEW k \in Nat, k \in M
      PROVE  k + 1 \in M
  <2> SUFFICES ASSUME k + 1 <= n
               PROVE  Accumulated(a[k + 1], then, p)
    OBVIOUS
  <2>1. k + 1 \in 1..n /\ k <= n /\ (k + 1) - 1 = k
    OBVIOUS
  <2>2. Accumulated(a[k], then, p)
    BY <1>4, <2>1
  <2>3. a[k + 1] = Latency!Take(a[k], body[k + 1], limit)
    BY <1>2, <2>1 DEF LineStep
  <2>4. body[k + 1] = None \/ SoundLine(body[k + 1], then, p)
    BY <1>1, <2>1 DEF SoundBody
  <2> QED BY <2>2, <2>3, <2>4, TakeKeeps
<1> HIDE DEF M
<1>5. n \in M
  BY <1>3, <1>4, SetInduction
<1> DEFINE acc == Gathered(body, limit)
           h == Latency!Parsed(body, limit)
<1>6. Accumulated(acc, then, p)
  <2>1. n <= n
    OBVIOUS
  <2> HIDE DEF acc
  <2> QED BY <1>2, <1>5, <2>1 DEF M, acc
<1>7. h = Latency!Finish(acc)
  BY Zenon DEF Latency!Parsed, Gathered
<1> HIDE DEF acc
<1>8. /\ ~acc.invalid /\ Latency!Aggregate(acc.series) # None
      /\ h = [series |-> acc.series, buckets |-> Latency!Aggregate(acc.series)]
  <2>1. Latency!Finish(acc) # None
    BY <1>7
  <2> HIDE DEF h
  <2> QED BY <1>7, <2>1 DEF Latency!Finish
<1>9. Entries(acc.series, then)
  BY <1>6, <1>8 DEF Accumulated
<1> HIDE DEF h
<1>10. Truth(h, then)
  BY <1>8, <1>9 DEF Truth
<1> QED BY <1>10 DEF h

\* The lines of a whole body.
LEMMA WholeLines ==
  ASSUME Latency!HistogramsAssumption, exposed \in SUBSET Series
  PROVE  LET all == Latency!WholeBody
             p == Latency!Name.prefix
         IN  /\ \E n \in Nat : DOMAIN all = 1..n
             /\ \A i \in DOMAIN all : all[i] # None =>
                  LET l == all[i]
                  IN  /\ l = Latency!Line(Latency!Name, l.labels, l.le, l.value)
                      /\ l.labels \in Seq(UNION Series) /\ Latency!ToSet(l.labels) \in Series
                      /\ l.le \in Latency!Buckets
                      /\ l.value = Latency!Cumulative(counts[Latency!ToSet(l.labels)], l.le)
                      /\ l.prefix = p /\ l.schema # None
<1> DEFINE all == Latency!WholeBody
           p == Latency!Name.prefix
<1>1. /\ Cells \in Seq(Seq(UNION Series) \X Latency!Buckets)
      /\ Names # {} /\ \A m \in Names : m.schema # None
  BY DEF Latency!HistogramsAssumption
<1>2. DOMAIN Cells = 1..Len(Cells) /\ Len(Cells) \in Nat
  BY <1>1
<1>3. DOMAIN all = DOMAIN Cells
  BY DEF Latency!WholeBody
<1>4. Latency!Name \in Names
  BY <1>1 DEF Latency!Name
<1>5. ASSUME NEW i \in DOMAIN all, all[i] # None
      PROVE  LET l == all[i]
             IN  /\ l = Latency!Line(Latency!Name, l.labels, l.le, l.value)
                 /\ l.labels \in Seq(UNION Series) /\ Latency!ToSet(l.labels) \in Series
                 /\ l.le \in Latency!Buckets
                 /\ l.value = Latency!Cumulative(counts[Latency!ToSet(l.labels)], l.le)
                 /\ l.prefix = p /\ l.schema # None
  <2> DEFINE labels == Cells[i][1]
             le == Cells[i][2]
             value == Latency!Cumulative(counts[Latency!ToSet(labels)], le)
  <2>1. labels \in Seq(UNION Series) /\ le \in Latency!Buckets
    BY <1>1, <1>2, <1>3
  <2>2. /\ Latency!ToSet(labels) \in exposed
        /\ all[i] = Latency!Line(Latency!Name, labels, le, value)
    BY <1>3, <1>5 DEF Latency!WholeBody, Latency!Absent
  <2> HIDE DEF labels, le, value
  <2> DEFINE l == Latency!Line(Latency!Name, labels, le, value)
  <2>3. /\ l.labels = labels /\ l.le = le /\ l.value = value
        /\ l.prefix = p /\ l.schema = Latency!Name.schema
    BY DEF Latency!Line
  <2> HIDE DEF l, all
  <2>4. l = Latency!Line(Latency!Name, l.labels, l.le, l.value)
    BY <2>3 DEF l
  <2> QED BY <1>1, <1>4, <2>1, <2>2, <2>3, <2>4 DEF l, value
<1> HIDE DEF all, p
<1> QED BY <1>2, <1>3, <1>5 DEF all, p

-----------------------------------------------------------------------------
(* The bodies of a server.                                                 *)

\* A line of a whole body.
WholeLine(l) ==
  /\ l = Latency!Line(Latency!Name, l.labels, l.le, l.value)
  /\ l.labels \in Seq(UNION Series) /\ Latency!ToSet(l.labels) \in Series
  /\ l.le \in Latency!Buckets
  /\ l.value = Latency!Cumulative(counts[Latency!ToSet(l.labels)], l.le)
  /\ l.prefix = Latency!Name.prefix /\ l.schema # None

WholeText(all) ==
  /\ all \in Seq({all[i] : i \in DOMAIN all})
  /\ \A i \in DOMAIN all : all[i] # None => WholeLine(all[i])

Kept(all, shown) ==
  [i \in DOMAIN all |-> IF all[i] = None THEN None
                        ELSE IF Latency!ToSet(all[i].labels) \in shown THEN all[i] ELSE None]
Renamed(all, name) ==
  [i \in DOMAIN all |-> IF all[i] = None THEN None
                        ELSE Latency!Line(name, all[i].labels, all[i].le, all[i].value)]
Swapped(all) ==
  [i \in DOMAIN all |-> IF all[i] = None THEN None
                        ELSE Latency!Turned(all[i])]
Struck(all, i, fault) ==
  SubSeq(all, 1, i - 1) \o Latency!Damaged(all[i], fault, Latency!Name) \o SubSeq(all, i + 1, Len(all))

\* A body is one of four things made of the whole one.
LEMMA BodyForms ==
  ASSUME NEW all, NEW body \in Latency!Bodies(all)
  PROVE  \/ \E shown \in SUBSET exposed : body = Kept(all, shown)
         \/ \E name \in Names : body = Renamed(all, name)
         \/ body = Latency!Reverse(Swapped(all))
         \/ \E i \in DOMAIN all : /\ all[i] # None
                                  /\ \E fault \in Latency!Faults : body = Struck(all, i, fault)
<1> DEFINE A == {Kept(all, shown) : shown \in SUBSET exposed}
           B == {Renamed(all, name) : name \in Names}
           C == {Latency!Reverse(Swapped(all))}
           E == {Struck(all, i, fault) :
                   i \in {j \in DOMAIN all \cap Damageable : all[j] # None}, fault \in Latency!Faults}
<1>1. Latency!Bodies(all) = A \cup B \cup C \cup E
  BY DEF Latency!Bodies, Latency!Mapped, Latency!Absent, Kept, Renamed, Swapped, Struck
<1>2. body \in A \/ body \in B \/ body \in C \/ body \in E
  <2> HIDE DEF A, B, C, E
  <2> QED BY <1>1
<1>3. body \in E => \E i \in DOMAIN all : /\ all[i] # None
                                          /\ \E fault \in Latency!Faults : body = Struck(all, i, fault)
  OBVIOUS
<1> QED BY <1>2, <1>3

\* A line says what it says, under this name or another, however its labels
\* are put.
LEMMA LinesSound ==
  ASSUME NEW l, WholeLine(l)
  PROVE  /\ SoundLine(l, counts, Latency!Name.prefix)
         /\ \A name : name.schema # None =>
              SoundLine(Latency!Line(name, l.labels, l.le, l.value), counts, name.prefix)
         /\ \A labels : Latency!ToSet(labels) = Latency!ToSet(l.labels) =>
              SoundLine([l EXCEPT !.labels = labels], counts, Latency!Name.prefix)
         /\ \A value : value = NaN \/ value = -1 =>
              SoundLine([l EXCEPT !.value = value], counts, Latency!Name.prefix)
         /\ \A le \in {None, NaN} :
              SoundLine([l EXCEPT !.le = le], counts, Latency!Name.prefix)
         /\ \A schema : schema # None =>
              SoundLine([l EXCEPT !.schema = schema], counts, Latency!Name.prefix)
<1> DEFINE name0 == Latency!Name
           labels0 == l.labels
           le0 == l.le
           value0 == l.value
<1>1. /\ l = Latency!Line(name0, labels0, le0, value0)
      /\ Latency!ToSet(labels0) \in Series /\ le0 \in Latency!Buckets
      /\ value0 = Latency!Cumulative(counts[Latency!ToSet(labels0)], le0)
      /\ l.schema # None
  BY DEF WholeLine
<1> HIDE DEF name0, labels0, le0, value0
<1>2. \A name, labels, le, value :
        LET m == Latency!Line(name, labels, le, value)
        IN  /\ m.prefix = name.prefix /\ m.schema = name.schema /\ m.labels = labels
            /\ m.le = le /\ m.value = value
  BY DEF Latency!Line
<1>3. name0.schema # None
  BY <1>1, <1>2
<1>4. ASSUME NEW m, m.prefix = name0.prefix, m.schema # None,
             Latency!ToSet(m.labels) = Latency!ToSet(labels0),
             \/ m.value = NaN \/ m.value = -1 \/ m.le \in {None, NaN}
             \/ m.le = le0 /\ m.value = value0
      PROVE  SoundLine(m, counts, name0.prefix)
  BY <1>1, <1>4 DEF SoundLine
<1>5. SoundLine(l, counts, name0.prefix)
  BY <1>1, <1>2, <1>3, <1>4
<1>6. ASSUME NEW name, name.schema # None
      PROVE  SoundLine(Latency!Line(name, labels0, le0, value0), counts, name.prefix)
  <2> DEFINE m == Latency!Line(name, labels0, le0, value0)
  <2>1. /\ m.prefix = name.prefix /\ m.schema = name.schema /\ m.labels = labels0
        /\ m.le = le0 /\ m.value = value0
    BY <1>2
  <2> HIDE DEF m
  <2>2. SoundLine(m, counts, name.prefix)
    BY <1>1, <1>6, <2>1 DEF SoundLine
  <2> QED BY <2>2 DEF m
<1>7. DOMAIN l = {"prefix", "schema", "labels", "le", "value"}
  BY <1>1 DEF Latency!Line
<1>8. /\ l.prefix = name0.prefix /\ l.schema = name0.schema /\ l.labels = labels0
      /\ l.le = le0 /\ l.value = value0
  BY <1>1, <1>2
<1>9. ASSUME NEW v
      PROVE  /\ LET m == [l EXCEPT !.labels = v]
                IN  m.prefix = l.prefix /\ m.schema = l.schema /\ m.labels = v /\ m.le = l.le /\ m.value = l.value
             /\ LET m == [l EXCEPT !.value = v]
                IN  m.prefix = l.prefix /\ m.schema = l.schema /\ m.labels = l.labels /\ m.le = l.le /\ m.value = v
             /\ LET m == [l EXCEPT !.le = v]
                IN  m.prefix = l.prefix /\ m.schema = l.schema /\ m.labels = l.labels /\ m.le = v /\ m.value = l.value
             /\ LET m == [l EXCEPT !.schema = v]
                IN  m.prefix = l.prefix /\ m.schema = v /\ m.labels = l.labels /\ m.le = l.le /\ m.value = l.value
  BY <1>7
<1>10. ASSUME NEW labels, Latency!ToSet(labels) = Latency!ToSet(labels0)
       PROVE  SoundLine([l EXCEPT !.labels = labels], counts, name0.prefix)
  <2> DEFINE m == [l EXCEPT !.labels = labels]
  <2>1. m.prefix = l.prefix /\ m.schema = l.schema /\ m.labels = labels /\ m.le = l.le /\ m.value = l.value
    BY <1>9
  <2> HIDE DEF m
  <2>2. SoundLine(m, counts, name0.prefix)
    BY <1>3, <1>4, <1>8, <1>10, <2>1
  <2> QED BY <2>2 DEF m
<1>11. ASSUME NEW value, value = NaN \/ value = -1
       PROVE  SoundLine([l EXCEPT !.value = value], counts, name0.prefix)
  <2> DEFINE m == [l EXCEPT !.value = value]
  <2>1. m.prefix = l.prefix /\ m.schema = l.schema /\ m.labels = l.labels /\ m.le = l.le /\ m.value = value
    BY <1>9
  <2> HIDE DEF m
  <2>2. SoundLine(m, counts, name0.prefix)
    BY <1>3, <1>4, <1>8, <1>11, <2>1
  <2> QED BY <2>2 DEF m
<1>12. ASSUME NEW le \in {None, NaN}
       PROVE  SoundLine([l EXCEPT !.le = le], counts, name0.prefix)
  <2> DEFINE m == [l EXCEPT !.le = le]
  <2>1. m.prefix = l.prefix /\ m.schema = l.schema /\ m.labels = l.labels /\ m.le = le /\ m.value = l.value
    BY <1>9
  <2> HIDE DEF m
  <2>2. SoundLine(m, counts, name0.prefix)
    BY <1>3, <1>4, <1>8, <2>1
  <2> QED BY <2>2 DEF m
<1>13. ASSUME NEW schema, schema # None
       PROVE  SoundLine([l EXCEPT !.schema = schema], counts, name0.prefix)
  <2> DEFINE m == [l EXCEPT !.schema = schema]
  <2>1. m.prefix = l.prefix /\ m.schema = schema /\ m.labels = l.labels /\ m.le = l.le /\ m.value = l.value
    BY <1>9
  <2> HIDE DEF m
  <2>2. SoundLine(m, counts, name0.prefix)
    BY <1>4, <1>8, <1>13, <2>1
  <2> QED BY <2>2 DEF m
<1> QED BY <1>5, <1>6, <1>10, <1>11, <1>12, <1>13 DEF name0, labels0, le0, value0

\* The whole body is a sequence of lines that are true, and of absent ones.
LEMMA WholeBodyIsText ==
  ASSUME Latency!HistogramsAssumption, exposed \in SUBSET Series
  PROVE  WholeText(Latency!WholeBody)
<1> DEFINE all == Latency!WholeBody
           R == {all[i] : i \in DOMAIN all}
<1>1. PICK n \in Nat : DOMAIN all = 1..n
  BY WholeLines
<1>2. all = [i \in DOMAIN all |-> all[i]]
  BY DEF Latency!WholeBody
<1>3. \A i \in DOMAIN all : all[i] # None => WholeLine(all[i])
  BY WholeLines DEF WholeLine
<1> HIDE DEF all
<1>4. all \in [1..n -> R]
  BY <1>1, <1>2
<1>5. all \in Seq(R)
  <2> HIDE DEF R
  <2> QED BY <1>4, SeqDef
<1> QED BY <1>3, <1>5 DEF WholeText, all

\* A body of some of the series is sound,
LEMMA KeptSound ==
  ASSUME NEW all, WholeText(all), NEW shown
  PROVE  SoundBody(Kept(all, shown), counts, Latency!Name.prefix)
<1> DEFINE body == Kept(all, shown)
<1>1. DOMAIN all = 1..Len(all) /\ Len(all) \in Nat
  BY DEF WholeText
<1>2. DOMAIN body = DOMAIN all /\ \A i \in DOMAIN body : body[i] = None \/ (body[i] = all[i] /\ all[i] # None)
  BY DEF Kept
<1>3. \A i \in DOMAIN all : all[i] = None \/ SoundLine(all[i], counts, Latency!Name.prefix)
  BY LinesSound DEF WholeText
<1> HIDE DEF body
<1>4. SoundBody(body, counts, Latency!Name.prefix)
  BY <1>1, <1>2, <1>3 DEF SoundBody
<1> QED BY <1>4 DEF body

\* a body under another name of the kind,
LEMMA RenamedSound ==
  ASSUME NEW all, WholeText(all), NEW name, name.schema # None
  PROVE  SoundBody(Renamed(all, name), counts, name.prefix)
<1> DEFINE body == Renamed(all, name)
           Other(l) == Latency!Line(name, l.labels, l.le, l.value)
<1>1. DOMAIN all = 1..Len(all) /\ Len(all) \in Nat
  BY DEF WholeText
<1>2. /\ DOMAIN body = DOMAIN all
      /\ \A i \in DOMAIN body : body[i] = None \/ (all[i] # None /\ body[i] = Other(all[i]))
  BY DEF Renamed
<1>3. ASSUME NEW i \in DOMAIN all, all[i] # None
      PROVE  SoundLine(Other(all[i]), counts, name.prefix)
  <2> DEFINE l == all[i]
  <2>1. WholeLine(l)
    BY <1>3 DEF WholeText
  <2> HIDE DEF l
  <2>2. SoundLine(Other(l), counts, name.prefix)
    BY <2>1, LinesSound
  <2> QED BY <2>2 DEF l
<1> HIDE DEF body, Other
<1>4. SoundBody(body, counts, name.prefix)
  BY <1>1, <1>2, <1>3 DEF SoundBody
<1> QED BY <1>4 DEF body

\* A sequence has in the other order what it has.
LEMMA ReverseFacts ==
  ASSUME NEW S, NEW s \in Seq(S)
  PROVE  /\ DOMAIN Latency!Reverse(s) = DOMAIN s
         /\ \A i \in DOMAIN s : /\ Len(s) - i + 1 \in DOMAIN s
                                /\ Latency!Reverse(s)[i] = s[Len(s) - i + 1]
                                /\ Latency!Reverse(s)[Len(s) - i + 1] = s[i]
         /\ Latency!ToSet(Latency!Reverse(s)) = Latency!ToSet(s)
<1> DEFINE t == Latency!Reverse(s)
           n == Len(s)
<1>1. n \in Nat /\ DOMAIN s = 1..n
  OBVIOUS
<1>2. t = [i \in 1..n |-> s[(n - i) + 1]]
  BY DEF Latency!Reverse
<1> HIDE DEF t, n
<1>3. \A i \in 1..n : n - i + 1 \in 1..n /\ n - (n - i + 1) + 1 = i
  BY <1>1
<1>4. DOMAIN t = 1..n /\ \A i \in 1..n : t[i] = s[n - i + 1]
  BY <1>2
<1>5. \A i \in 1..n : t[n - i + 1] = s[i]
  BY <1>3, <1>4
<1>6. Latency!ToSet(t) = Latency!ToSet(s)
  BY <1>1, <1>3, <1>4, <1>5 DEF Latency!ToSet
<1> QED BY <1>1, <1>3, <1>4, <1>5, <1>6 DEF t, n

\* one in the other order, its labels too,
LEMMA SwappedSound ==
  ASSUME NEW all, WholeText(all)
  PROVE  SoundBody(Latency!Reverse(Swapped(all)), counts, Latency!Name.prefix)
<1> DEFINE half == Swapped(all)
           body == Latency!Reverse(half)
           R == {half[i] : i \in DOMAIN half}
           n == Len(all)
<1>1. DOMAIN all = 1..n /\ n \in Nat
  BY DEF WholeText
<1>2. /\ DOMAIN half = 1..n /\ half = [i \in DOMAIN half |-> half[i]]
      /\ \A i \in 1..n : half[i] = None \/ (all[i] # None /\ half[i] = Latency!Turned(all[i]))
  BY <1>1 DEF Swapped
<1>3. ASSUME NEW i \in 1..n, all[i] # None
      PROVE  SoundLine(Latency!Turned(all[i]), counts, Latency!Name.prefix)
  <2> DEFINE l == all[i]
             labels == Latency!Reverse(l.labels)
  <2>1. WholeLine(l)
    BY <1>1, <1>3 DEF WholeText
  <2> HIDE DEF l
  <2>2. Latency!ToSet(labels) = Latency!ToSet(l.labels)
    BY <2>1, ReverseFacts DEF WholeLine
  <2>3. Latency!Turned(l) = [l EXCEPT !.labels = labels]
    BY DEF Latency!Turned
  <2> HIDE DEF labels
  <2>4. SoundLine(Latency!Turned(l), counts, Latency!Name.prefix)
    BY <2>1, <2>2, <2>3, LinesSound
  <2> QED BY <2>4 DEF l
<1> HIDE DEF half, n
<1>4. half \in [1..n -> R]
  BY <1>2
<1>5. half \in Seq(R)
  <2> HIDE DEF R
  <2> QED BY <1>1, <1>4, SeqDef
<1>6. DOMAIN body = 1..n /\ \A i \in 1..n : \E j \in 1..n : body[i] = half[j]
  <2> HIDE DEF R
  <2>1. /\ DOMAIN body = DOMAIN half
        /\ \A i \in DOMAIN half : /\ Len(half) - i + 1 \in DOMAIN half
                                  /\ body[i] = half[Len(half) - i + 1]
    BY <1>5, ReverseFacts
  <2> HIDE DEF body
  <2> QED BY <1>2, <2>1
<1> HIDE DEF body
<1>7. SoundBody(body, counts, Latency!Name.prefix)
  BY <1>1, <1>2, <1>3, <1>6 DEF SoundBody
<1> QED BY <1>7 DEF body, half

\* What a fault makes of a line says nothing false.
LEMMA DamagedSound ==
  ASSUME Latency!HistogramsAssumption, NEW l, WholeLine(l), NEW fault \in Latency!Faults
  PROVE  LET lines == Latency!Damaged(l, fault, Latency!Name)
         IN  /\ lines \in Seq({lines[i] : i \in DOMAIN lines})
             /\ \A i \in DOMAIN lines : lines[i] = None \/ SoundLine(lines[i], counts, Latency!Name.prefix)
<1> DEFINE lines == Latency!Damaged(l, fault, Latency!Name)
           p == Latency!Name.prefix
           Sound(m) == m = None \/ SoundLine(m, counts, p)
           other == Latency!OtherSchema(Latency!Name).schema
           doubled == l.labels \o l.labels
           m1 == [l EXCEPT !.value = -1]
           m2 == [l EXCEPT !.value = NaN]
           m3 == [l EXCEPT !.schema = other]
           m4 == [l EXCEPT !.le = None]
           m5 == [l EXCEPT !.le = NaN]
           m6 == [l EXCEPT !.labels = doubled]
<1>1. \/ lines = <<None>> \/ lines = <<l, l>> \/ lines = <<m1>> \/ lines = <<m2>>
      \/ lines = <<m3>> \/ lines = <<m4>> \/ lines = <<m5>> \/ lines = <<m6>>
  BY DEF Latency!Damaged, Latency!Faults, Latency!Absent
<1>2. other # None
  <2>1. Latency!Name \in Names /\ \A n \in Names : n.schema # None /\ \E m \in Names : m.schema # n.schema
    BY DEF Latency!HistogramsAssumption, Latency!Name
  <2>2. Latency!OtherSchema(Latency!Name) \in Names
    BY <2>1 DEF Latency!OtherSchema
  <2> QED BY <2>1, <2>2
<1>3. Latency!ToSet(doubled) = Latency!ToSet(l.labels)
  <2> DEFINE s == l.labels
             n == Len(s)
  <2>1. s \in Seq(UNION Series)
    BY DEF WholeLine
  <2> HIDE DEF s
  <2>2. /\ n \in Nat /\ DOMAIN s = 1..n /\ DOMAIN (s \o s) = 1..(n + n)
        /\ \A i \in 1..n : (s \o s)[i] = s[i]
        /\ \A i \in (n + 1)..(n + n) : (s \o s)[i] = s[i - n]
    BY <2>1
  <2> DEFINE d == s \o s
  <2> HIDE DEF n, d
  <2>3. \A i \in 1..(n + n) : \E j \in 1..n : d[i] = s[j]
    <3> SUFFICES ASSUME NEW i \in 1..(n + n)
                 PROVE  \E j \in 1..n : d[i] = s[j]
      OBVIOUS
    <3>1. CASE i <= n
      BY <2>2, <3>1 DEF d
    <3>2. CASE ~(i <= n)
      <4>1. i \in (n + 1)..(n + n) /\ i - n \in 1..n
        BY <2>2, <3>2
      <4> QED BY <2>2, <4>1 DEF d
    <3> QED BY <3>1, <3>2
  <2>4. \A j \in 1..n : j \in 1..(n + n) /\ d[j] = s[j]
    BY <2>2 DEF d
  <2>5. DOMAIN d = 1..(n + n) /\ DOMAIN s = 1..n
    BY <2>2 DEF d
  <2>6. Latency!ToSet(d) = Latency!ToSet(s)
    BY <2>3, <2>4, <2>5 DEF Latency!ToSet
  <2> QED BY <2>6 DEF d, s
<1> HIDE DEF other, doubled
<1>4. /\ SoundLine(l, counts, p) /\ SoundLine(m1, counts, p) /\ SoundLine(m2, counts, p)
      /\ SoundLine(m4, counts, p) /\ SoundLine(m5, counts, p)
  BY LinesSound
<1>5. SoundLine(m3, counts, p) /\ SoundLine(m6, counts, p)
  BY <1>2, <1>3, LinesSound
<1> HIDE DEF lines, m1, m2, m3, m4, m5, m6
<1>6. \E x, y : /\ Sound(x) /\ Sound(y) /\ (lines = <<x>> \/ lines = <<x, y>>)
  BY <1>1, <1>4, <1>5
<1>7. PICK x, y : /\ Sound(x) /\ Sound(y) /\ (lines = <<x>> \/ lines = <<x, y>>)
  BY <1>6
<1>8. \A i \in DOMAIN lines : lines[i] = x \/ lines[i] = y
  BY <1>7
<1>9. lines \in Seq({lines[i] : i \in DOMAIN lines})
  BY <1>7
<1> QED BY <1>7, <1>8, <1>9 DEF lines

\* and one with a damaged line.
LEMMA StruckSound ==
  ASSUME Latency!HistogramsAssumption, NEW all, WholeText(all),
         NEW i \in DOMAIN all, all[i] # None, NEW fault \in Latency!Faults
  PROVE  SoundBody(Struck(all, i, fault), counts, Latency!Name.prefix)
<1> DEFINE lines == Latency!Damaged(all[i], fault, Latency!Name)
           body == Struck(all, i, fault)
           p == Latency!Name.prefix
           R == {all[j] : j \in DOMAIN all} \cup {lines[j] : j \in DOMAIN lines}
           n == Len(all)
<1>1. WholeLine(all[i])
  BY DEF WholeText
<1>2. /\ lines \in Seq({lines[j] : j \in DOMAIN lines})
      /\ \A j \in DOMAIN lines : lines[j] = None \/ SoundLine(lines[j], counts, p)
  BY <1>1, DamagedSound
<1>3. all \in Seq({all[j] : j \in DOMAIN all}) /\ n \in Nat /\ DOMAIN all = 1..n
  BY DEF WholeText
<1>4. \A j \in DOMAIN all : all[j] = None \/ SoundLine(all[j], counts, p)
  BY LinesSound DEF WholeText
<1> HIDE DEF lines
<1>5. all \in Seq(R) /\ lines \in Seq(R)
  BY <1>2, <1>3
<1>6. \A x \in R : x = None \/ SoundLine(x, counts, p)
  BY <1>2, <1>4
<1> HIDE DEF R, p
<1>7. SubSeq(all, 1, i - 1) \in Seq(R) /\ SubSeq(all, i + 1, n) \in Seq(R)
  BY <1>3, <1>5
<1>8. body \in Seq(R)
  BY <1>5, <1>7 DEF Struck, lines
<1> HIDE DEF body
<1>9. DOMAIN body = 1..Len(body) /\ Len(body) \in Nat /\ \A j \in DOMAIN body : body[j] \in R
  BY <1>8
<1>10. SoundBody(body, counts, p)
  BY <1>6, <1>9 DEF SoundBody
<1> QED BY <1>10 DEF body, p

\* Every body of a server is sound, so what is scraped is true.
LEMMA ScrapedTrue ==
  ASSUME Latency!HistogramsAssumption, exposed \in SUBSET Series,
         NEW h \in Latency!Scraped, h # None
  PROVE  Truth(h, counts)
<1> DEFINE all == Latency!WholeBody
           p == Latency!Name.prefix
<1>1. WholeText(all)
  BY WholeBodyIsText
<1>2. \A name \in Names : name.schema # None
  BY DEF Latency!HistogramsAssumption
<1>3. \E body, limit : h = Latency!Parsed(body, limit) /\ (body = all \/ body \in Latency!Bodies(all))
  BY DEF Latency!Scraped
<1> HIDE DEF all
<1>4. PICK body, limit : h = Latency!Parsed(body, limit) /\ (body = all \/ body \in Latency!Bodies(all))
  BY <1>3
<1>5. CASE body = all
  <2>1. \A i \in DOMAIN all : all[i] = None \/ SoundLine(all[i], counts, p)
    BY <1>1, LinesSound DEF WholeText
  <2>2. DOMAIN all = 1..Len(all) /\ Len(all) \in Nat
    BY <1>1 DEF WholeText
  <2>3. SoundBody(all, counts, p)
    BY <2>1, <2>2 DEF SoundBody
  <2> QED BY <1>4, <1>5, <2>3, ParsedTrue
<1>6. CASE body \in Latency!Bodies(all)
  <2>1. \E q : SoundBody(body, counts, q)
    <3> HIDE DEF p
    <3>1. CASE \E shown \in SUBSET exposed : body = Kept(all, shown)
      BY <1>1, <3>1, KeptSound
    <3>2. CASE \E name \in Names : body = Renamed(all, name)
      BY <1>1, <1>2, <3>2, RenamedSound
    <3>3. CASE body = Latency!Reverse(Swapped(all))
      BY <1>1, <3>3, SwappedSound
    <3>4. CASE \E i \in DOMAIN all : /\ all[i] # None
                                     /\ \E fault \in Latency!Faults : body = Struck(all, i, fault)
      BY <1>1, <3>4, StruckSound
    <3> QED BY <1>6, <3>1, <3>2, <3>3, <3>4, BodyForms
  <2> QED BY <1>4, <2>1, ParsedTrue
<1> QED BY <1>4, <1>5, <1>6

-----------------------------------------------------------------------------
(* The inductive invariant.                                                *)

LatencyTypes ==
  /\ counts \in Counting /\ since \in Counting
  /\ exposed \in SUBSET Series /\ restarted \in BOOLEAN

\* A server that restarted has made all it exposes since; the sample before
\* was true of counts that, if it did not, what was made since adds up from.
SampleInv ==
  /\ restarted => \A s \in Series, b \in Latency!Buckets : counts[s][b] <= since[s][b]
  /\ tracked # None /\ tracked.histogram # None =>
       \E then \in Counting :
         /\ Truth(tracked.histogram, then)
         /\ ~restarted => \A s \in Series, b \in Latency!Buckets :
                            counts[s][b] = then[s][b] + since[s][b]

LatencyInv == LatencyTypes /\ SampleInv /\ Latency!IntervalIsDistribution

\* A server without work has counted nothing.
LEMMA ZeroCounts ==
  /\ Latency!Zero \in Counting
  /\ \A s \in Series, b \in Latency!Buckets : Latency!Zero[s][b] = 0
BY DEF Latency!Zero, Counting

\* The invariant holds before the first cycle.
LEMMA LatencyInit ==
  ASSUME Latency!Init
  PROVE  LatencyInv
BY ZeroCounts DEF Latency!Init, LatencyInv, LatencyTypes, SampleInv, Latency!IntervalIsDistribution

OneMore(f, s, b) == [f EXCEPT ![s][b] = @ + 1]

\* One more observation is in one bucket of one series.
LEMMA OneMoreCounts ==
  ASSUME NEW f \in Counting, NEW s \in Series, NEW b \in Latency!Buckets
  PROVE  /\ OneMore(f, s, b) \in Counting
         /\ \A r \in Series, c \in Latency!Buckets :
              /\ f[r][c] \in Nat
              /\ OneMore(f, s, b)[r][c] = IF r = s /\ c = b THEN f[r][c] + 1 ELSE f[r][c]
BY DEF Counting, OneMore

\* An observation keeps the invariant: it adds to the counts and to what was observed.
LEMMA ObserveKeeps ==
  ASSUME LatencyInv, NEW s \in Series, NEW b \in Latency!Buckets, Latency!Observe(s, b)
  PROVE  LatencyInv'
<1>1. /\ counts' = [counts EXCEPT ![s][b] = @ + 1]
      /\ since' = [since EXCEPT ![s][b] = @ + 1]
      /\ exposed' = exposed \cup {s} /\ last' = None
      /\ restarted' = restarted /\ tracked' = tracked
  BY DEF Latency!Observe
<1>2. counts \in Counting /\ since \in Counting /\ exposed \in SUBSET Series /\ restarted \in BOOLEAN
  BY DEF LatencyInv, LatencyTypes
<1>3. counts' = OneMore(counts, s, b) /\ since' = OneMore(since, s, b)
  BY <1>1 DEF OneMore
<1>4. /\ counts' \in Counting /\ since' \in Counting
      /\ \A r \in Series, c \in Latency!Buckets :
           /\ counts[r][c] \in Nat /\ since[r][c] \in Nat
           /\ counts'[r][c] = IF r = s /\ c = b THEN counts[r][c] + 1 ELSE counts[r][c]
           /\ since'[r][c] = IF r = s /\ c = b THEN since[r][c] + 1 ELSE since[r][c]
  BY <1>2, <1>3, OneMoreCounts
<1>5. LatencyTypes'
  BY <1>1, <1>2, <1>4 DEF LatencyTypes
<1>6. SampleInv'
  <2>1. SampleInv
    BY DEF LatencyInv
  <2>2. restarted' => \A r \in Series, c \in Latency!Buckets : counts'[r][c] <= since'[r][c]
    <3> SUFFICES ASSUME restarted', NEW r \in Series, NEW c \in Latency!Buckets
                 PROVE  counts'[r][c] <= since'[r][c]
      OBVIOUS
    <3>1. counts[r][c] <= since[r][c]
      BY <1>1, <2>1 DEF SampleInv
    <3> QED BY <1>4, <3>1
  <2>3. ASSUME tracked' # None, tracked'.histogram # None
        PROVE  \E then \in Counting :
                 /\ Truth(tracked'.histogram, then)
                 /\ ~restarted' => \A r \in Series, c \in Latency!Buckets :
                                    counts'[r][c] = then[r][c] + since'[r][c]
    <3>1. PICK then \in Counting :
            /\ Truth(tracked.histogram, then)
            /\ ~restarted => \A r \in Series, c \in Latency!Buckets :
                               counts[r][c] = then[r][c] + since[r][c]
      BY <1>1, <2>1, <2>3 DEF SampleInv
    <3>2. \A r \in Series, c \in Latency!Buckets : then[r][c] \in Nat
      BY DEF Counting
    <3>3. ASSUME ~restarted, NEW r \in Series, NEW c \in Latency!Buckets
          PROVE  counts'[r][c] = then[r][c] + since'[r][c]
      <4>1. counts[r][c] = then[r][c] + since[r][c] /\ then[r][c] \in Nat
        BY <3>1, <3>2, <3>3
      <4> QED BY <1>4, <4>1
    <3> QED BY <1>1, <3>1, <3>3
  <2> QED BY <2>2, <2>3 DEF SampleInv
<1>7. Latency!IntervalIsDistribution'
  BY <1>1 DEF Latency!IntervalIsDistribution
<1> QED BY <1>5, <1>6, <1>7 DEF LatencyInv

\* A restart keeps it: nothing is counted, so no more than was observed.
LEMMA RestartKeeps ==
  ASSUME LatencyInv, Latency!Restart
  PROVE  LatencyInv'
<1>1. /\ counts' = Latency!Zero /\ restarted' = TRUE /\ exposed' \in SUBSET Series
      /\ last' = None /\ since' = since /\ tracked' = tracked
  BY DEF Latency!Restart
<1>2. LatencyTypes /\ SampleInv
  BY DEF LatencyInv
<1>3. LatencyTypes'
  BY <1>1, <1>2, ZeroCounts DEF LatencyTypes
<1>4. \A s \in Series, b \in Latency!Buckets : counts'[s][b] <= since'[s][b]
  <2> SUFFICES ASSUME NEW s \in Series, NEW b \in Latency!Buckets
               PROVE  counts'[s][b] <= since'[s][b]
    OBVIOUS
  <2>1. since[s][b] \in Nat
    BY <1>2 DEF LatencyTypes, Counting
  <2> QED BY <1>1, <2>1, ZeroCounts
<1>5. SampleInv'
  BY <1>1, <1>2, <1>4 DEF SampleInv
<1>6. Latency!IntervalIsDistribution'
  BY <1>1 DEF Latency!IntervalIsDistribution
<1> QED BY <1>3, <1>5, <1>6 DEF LatencyInv

\* A cycle keeps it: the sample it leaves is true of the counts at hand.
LEMMA CycleKeeps ==
  ASSUME Latency!HistogramsAssumption, LatencyInv,
         NEW h \in Latency!Scraped, NEW advanced \in BOOLEAN, Latency!Cycle(h, advanced)
  PROVE  LatencyInv'
<1> DEFINE interval == IF tracked = None \/ ~advanced \/ h = None THEN None
                       ELSE IF tracked.histogram = None THEN None
                       ELSE Latency!Interval(tracked.histogram, h)
<1>1. /\ tracked' = [histogram |-> h] /\ counts' = counts /\ exposed' = exposed
      /\ since' = Latency!Zero /\ restarted' = FALSE
      /\ last' = [interval |-> interval, observed |-> since, restarted |-> restarted,
                  shown |-> IF h = None THEN {} ELSE Shown(h),
                  bounds |-> IF h = None THEN {} ELSE DOMAIN h.buckets]
  BY DEF Latency!Cycle, Shown
<1>2. LatencyTypes /\ SampleInv
  BY DEF LatencyInv
<1>3. LatencyTypes'
  BY <1>1, <1>2, ZeroCounts DEF LatencyTypes
<1>4. h # None => Truth(h, counts)
  BY <1>2, ScrapedTrue DEF LatencyTypes
<1>5. SampleInv'
  <2>1. counts \in Counting /\ tracked'.histogram = h
    BY <1>1, <1>2 DEF LatencyTypes
  <2>2. \A s \in Series, b \in Latency!Buckets : counts[s][b] = counts[s][b] + Latency!Zero[s][b]
    <3> SUFFICES ASSUME NEW s \in Series, NEW b \in Latency!Buckets
                 PROVE  counts[s][b] = counts[s][b] + Latency!Zero[s][b]
      OBVIOUS
    <3>1. counts[s][b] \in Nat
      BY <2>1 DEF Counting
    <3> QED BY <3>1, ZeroCounts
  <2> QED BY <1>1, <1>4, <2>1, <2>2 DEF SampleInv
<1>6. Latency!IntervalIsDistribution'
  <2> SUFFICES ASSUME interval # None
               PROVE  Told(interval, since, Shown(h), DOMAIN h.buckets, ~restarted)
    <3>1. h = None => interval = None
      OBVIOUS
    <3> HIDE DEF interval
    <3> QED BY <1>1, <3>1 DEF Latency!IntervalIsDistribution, Told
  <2> DEFINE before == tracked.histogram
  <2>1. /\ tracked # None /\ before # None /\ h # None
        /\ interval = Latency!Interval(before, h)
    OBVIOUS
  <2>2. PICK then \in Counting :
          /\ Truth(before, then)
          /\ ~restarted => \A s \in Series, b \in Latency!Buckets :
                             counts[s][b] = then[s][b] + since[s][b]
    BY <1>2, <2>1 DEF SampleInv
  <2> HIDE DEF interval, before
  <2> DEFINE exact == ~restarted
  <2>3. /\ exact \in BOOLEAN /\ counts \in Counting /\ since \in Counting
        /\ \A s \in Series, b \in Latency!Buckets :
             IF exact THEN counts[s][b] = then[s][b] + since[s][b] ELSE counts[s][b] <= since[s][b]
    BY <1>2, <2>2 DEF LatencyTypes, SampleInv
  <2> HIDE DEF exact
  <2>4. Told(interval, since, Shown(h), DOMAIN h.buckets, exact)
    BY <1>4, <2>1, <2>2, <2>3, IntervalTold
  <2> QED BY <2>4 DEF exact
<1> QED BY <1>3, <1>5, <1>6 DEF LatencyInv

\* A reported latency interval is the distribution of what was observed in
\* it, whatever series came and went and whatever befell the lines of a body.
THEOREM IntervalsAreDistributions ==
  ASSUME Latency!HistogramsAssumption
  PROVE  Latency!Spec => []Latency!IntervalIsDistribution
<1>1. LatencyInv /\ [Latency!Next]_(Latency!vars) => LatencyInv'
  <2> SUFFICES ASSUME LatencyInv, [Latency!Next]_(Latency!vars)
               PROVE  LatencyInv'
    OBVIOUS
  <2>1. CASE \E s \in Series, b \in Latency!Buckets : Latency!Observe(s, b)
    BY <2>1, ObserveKeeps
  <2>2. CASE Latency!Restart
    BY <2>2, RestartKeeps
  <2>3. CASE Latency!Scrape
    BY <2>3, CycleKeeps DEF Latency!Scrape
  <2>4. CASE UNCHANGED Latency!vars
    BY <2>4 DEF Latency!vars, LatencyInv, LatencyTypes, SampleInv, Latency!IntervalIsDistribution
  <2> QED BY <2>1, <2>2, <2>3, <2>4 DEF Latency!Next
<1>2. LatencyInv => Latency!IntervalIsDistribution
  BY DEF LatencyInv
<1> QED BY <1>1, <1>2, LatencyInit, PTL DEF Latency!Spec
=============================================================================
