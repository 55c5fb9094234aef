----------------------------- MODULE CommandRun ------------------------------
(***************************************************************************)
(* One external command under a deadline, src/telemetry/command.rs: the    *)
(* child in a process group of its own, two threads that drain its pipes,  *)
(* and run, which waits, collects both streams and kills what is left.     *)
(*                                                                         *)
(* The child may start a helper that inherits its pipes, stays in its      *)
(* group or leaves it, and outlives it.  The group is killed by a program, *)
(* whose failure is ignored.  Output is counted in units; only stdout has  *)
(* more than one.                                                          *)
(***************************************************************************)
EXTENDS Naturals

CONSTANTS PipeSize,  \* what a pipe holds before a writer blocks
          MaxStdout, \* what is retained of stdout
          MaxOutput, \* bound on what the command writes
          None

\* What the constants are; the modules that give them values assume it.
CommandAssumption ==
  /\ PipeSize \in Nat \ {0} /\ {MaxStdout, MaxOutput} \subseteq Nat
  /\ None \notin {"ok", "timeout", "failed", "status", "tooLarge", "text"}

Pipes == {"stdout", "stderr"}

VARIABLES
  pc,       \* where run is: wait, stdout, stderr, check, sweep, reap or done
  result,   \* None, or what it returns once it is done: "ok" or an error
  child,    \* running, zombie, reaped
  code,     \* whether the child exits with status 0
  text,     \* whether what it writes is UTF-8
  helper,   \* none, group, left, gone
  written, buffered, retained, \* units, by pipe
  reader,   \* of a pipe: reading, all sent, or failed
  swept,    \* whether the kill program has killed the group
  expired   \* the deadline has passed

vars == <<pc, result, child, code, text, helper, written, buffered, retained, reader, swept, expired>>
output == <<code, text, written, buffered, retained>>
world == <<output, reader>>

-----------------------------------------------------------------------------
\* run until the wait: spawn, with stdin null, and the two readers.
Init ==
  /\ pc = "wait" /\ result = None
  /\ child = "running" /\ code \in BOOLEAN /\ text \in BOOLEAN /\ helper = "none"
  /\ written = [p \in Pipes |-> 0] /\ buffered = written /\ retained = written
  /\ reader = [p \in Pipes |-> "reading"]
  /\ swept = FALSE /\ expired = FALSE

\* Somebody holds the pipes.
Running == child = "running" \/ helper \in {"group", "left"}

\* Whoever holds a pipe writes to it, blocks while it is full, and cannot once
\* its reader is gone.
Write(p) ==
  /\ Running /\ buffered[p] < PipeSize /\ reader[p] # "failed"
  /\ written[p] < (IF p = "stdout" THEN MaxOutput ELSE 1)
  /\ written' = [written EXCEPT ![p] = @ + 1]
  /\ buffered' = [buffered EXCEPT ![p] = @ + 1]
  /\ UNCHANGED <<pc, result, child, code, text, helper, retained, reader, swept, expired>>

\* The helper is started, leaves the group or ends; the child exits.
Behave ==
  /\ \/ child = "running" /\ helper = "none" /\ helper' = "group" /\ UNCHANGED child
     \/ helper = "group" /\ helper' \in {"left", "gone"} /\ UNCHANGED child
     \/ helper = "left" /\ helper' = "gone" /\ UNCHANGED child
     \/ child = "running" /\ child' = "zombie" /\ UNCHANGED helper
  /\ UNCHANGED <<pc, result, world, swept, expired>>

Deadline ==
  /\ ~expired /\ pc # "done"
  /\ expired' = TRUE
  /\ UNCHANGED <<pc, result, child, helper, world, swept>>

\* Seeded fault: the reader stops at the limit, and with it the child.
ReadAndStop(p) ==
  /\ buffered[p] > 0 /\ reader[p] = "reading" /\ (p = "stdout" => retained[p] < MaxStdout)
  /\ buffered' = [buffered EXCEPT ![p] = @ - 1]
  /\ retained' = [retained EXCEPT ![p] = @ + 1]
  /\ UNCHANGED <<pc, result, child, code, text, helper, written, reader, swept, expired>>

\* read_pipe: one read; what is beyond the limit is drained and dropped.
Read(p) ==
  /\ buffered[p] > 0 /\ reader[p] = "reading"
  /\ buffered' = [buffered EXCEPT ![p] = @ - 1]
  /\ retained' = [retained EXCEPT ![p] = IF p = "stdout" /\ @ = MaxStdout THEN @ ELSE @ + 1]
  /\ UNCHANGED <<pc, result, child, code, text, helper, written, reader, swept, expired>>

\* The end of the file: no one can write to the pipe any more.
ReadEnd(p) ==
  /\ buffered[p] = 0 /\ reader[p] = "reading" /\ ~Running
  /\ reader' = [reader EXCEPT ![p] = "all"]
  /\ UNCHANGED <<pc, result, child, helper, output, swept, expired>>

\* A read fails, or the thread panics: it ends and closes its side of the pipe.
ReadFails(p) ==
  /\ reader[p] = "reading"
  /\ reader' = [reader EXCEPT ![p] = "failed"]
  /\ UNCHANGED <<pc, result, child, helper, output, swept, expired>>

-----------------------------------------------------------------------------
\* wait_timeout returned the status.
Waited ==
  /\ pc = "wait" /\ child = "zombie"
  /\ child' = "reaped" /\ pc' = "stdout"
  /\ UNCHANGED <<result, helper, world, swept, expired>>

\* receive_pipe, within what remains of the same deadline.
Receive(p) ==
  /\ pc = p /\ reader[p] = "all"
  /\ pc' = IF p = "stdout" THEN "stderr" ELSE "check"
  /\ UNCHANGED <<result, child, helper, world, swept, expired>>

\* What ends run early is answered with an error, once the child is terminated.
Abandon(error) ==
  /\ pc' = "sweep" /\ result' = error
  /\ UNCHANGED <<child, helper, world, swept, expired>>

\* No status or no stream in time.
TimesOut ==
  /\ expired
  /\ (pc = "wait" /\ child = "running") \/ (pc \in Pipes /\ reader[pc] # "all")
  /\ Abandon("timeout")

\* A reader failed, or the wait itself does.
ReaderFailed == pc \in Pipes /\ reader[pc] = "failed" /\ Abandon("failed")
WaitFails == pc = "wait" /\ Abandon("failed")

\* terminate_process_group: the kill program ends the child and whoever is in
\* its group, or it is absent or fails, and nobody looks.
Sweep ==
  /\ pc = "sweep" /\ pc' = "reap"
  /\ \/ /\ swept' = TRUE
        /\ helper' = IF helper = "group" THEN "gone" ELSE helper
        /\ child' = IF child = "running" THEN "zombie" ELSE child
     \/ UNCHANGED <<swept, helper, child>>
  /\ UNCHANGED <<result, world, expired>>

\* The rest of terminate_and_reap: the child alone, by its handle.
Reap ==
  /\ pc = "reap" /\ pc' = "done"
  /\ child' = "reaped"
  /\ UNCHANGED <<result, helper, world, swept, expired>>

\* Seeded fault: only a command that succeeds is held to its limit.
OutcomeUnbounded == IF ~code THEN "status" ELSE IF ~text THEN "text" ELSE "ok"
\* The status comes before the length, and stderr may be cut.
Outcome ==
  IF ~code THEN "status"
  ELSE IF written["stdout"] > retained["stdout"] THEN "tooLarge"
  ELSE IF ~text THEN "text" ELSE "ok"

Check ==
  /\ pc = "check"
  /\ pc' = "done" /\ result' = Outcome
  /\ UNCHANGED <<child, helper, world, swept, expired>>

Run ==
  \/ Waited \/ TimesOut \/ ReaderFailed \/ Sweep \/ Reap \/ Check
  \/ \E p \in Pipes : Receive(p)

Done == pc = "done" /\ UNCHANGED vars

Next ==
  \/ Behave \/ Deadline \/ Run \/ WaitFails \/ Done
  \/ \E p \in Pipes : Write(p) \/ Read(p) \/ ReadEnd(p) \/ ReadFails(p)

\* The threads and the kill program run and time passes; nothing needs to fail,
\* and the command and its helper need not end.
Fairness ==
  /\ WF_vars(Run) /\ WF_vars(Deadline)
  /\ \A p \in Pipes : WF_vars(Read(p)) /\ WF_vars(ReadEnd(p))

Spec == Init /\ [][Next]_vars /\ Fairness

-----------------------------------------------------------------------------
\* What a command returns is all it and its helpers ever wrote.  However it
\* ends, its child is waited for and nobody is left to write more, except, of
\* one that was ended by force, who has left its group or whom the kill program
\* failed to kill.
CommandResultIsSound ==
  /\ result = "ok" => /\ code /\ text /\ ~Running
                      /\ retained["stdout"] = written["stdout"] /\ written["stdout"] <= MaxStdout
  /\ pc = "done" => /\ child = "reaped"
                    /\ Running => /\ result \in {"timeout", "failed"}
                                  /\ helper = "left" \/ ~swept

\* The caller gets an answer, whatever the command does, and whoever writes to
\* a pipe is never left waiting for it to be drained while it is read.
NeverStuck ==
  /\ <>(pc = "done")
  /\ \A p \in Pipes : (buffered[p] = PipeSize) ~> (buffered[p] < PipeSize \/ reader[p] = "failed")
=============================================================================
