----------------------------- MODULE ReportInput -----------------------------
(***************************************************************************)
(* Loading a saved report, src/operations/report_input.rs and load_report  *)
(* of src/operations/compare.rs: a bounded read of a file that someone     *)
(* else may be writing, and the last record of what was read.              *)
(*                                                                         *)
(* A record is a line of two halves, each <<record, half>>, so that it may *)
(* be there in part.  The first half begins a line.                        *)
(***************************************************************************)
EXTENDS Integers, Sequences, FiniteSets, SequencesExt

CONSTANTS Records,   \* the reports that get written
          MaxLength, \* maximum_bytes, in halves
          MaxWrites, \* bound on the writes observed
          MaxTime,   \* bound on the ticks of the file system's clock
          None

\* What the constants are; the modules that give them values assume it.
InputAssumption == {MaxLength, MaxWrites, MaxTime} \subseteq Nat

VARIABLES
  file, mtime, \* the file behind the descriptor and its modification time
  now,         \* the clock that modification times are taken from
  strict,      \* report_input reads the metadata again, compare does not
  pc,
  initial,     \* the metadata of the opened file, and its content then
  bytes,       \* what was read
  result,      \* the record that was decoded, or Refused, or None
  writes       \* the writes since the file was opened

vars == <<file, mtime, now, strict, pc, initial, bytes, result, writes>>

-----------------------------------------------------------------------------
\* The command fails.
Refused == <<>>

\* The last line, if it is whole: both the attempt to decode the text and the
\* one to decode its last line that is not empty come to this.
Decode(text) ==
  LET n == Len(text)
  IN  IF n >= 2 /\ text[n][2] = 2 /\ text[n - 1][2] = 1
      THEN <<text[n - 1][1], text[n][1]>> ELSE Refused

Init ==
  /\ strict \in BOOLEAN /\ now = 0 /\ mtime = 0
  /\ file \in {<<>>} \cup {<<<<r, 1>>>> : r \in Records} \cup {<<<<r, 1>>, <<r, 2>>>> : r \in Records}
  /\ pc = "open" /\ initial = None /\ bytes = <<>> /\ result = None /\ writes = <<>>

\* open_read_nonblocking and the metadata of the descriptor.
Open ==
  /\ pc = "open"
  /\ initial' = [len |-> Len(file), mtime |-> mtime, content |-> file]
  /\ IF Len(file) > MaxLength THEN pc' = "done" /\ result' = Refused
     ELSE pc' = "read" /\ UNCHANGED result
  /\ UNCHANGED <<file, mtime, now, strict, bytes, writes>>

\* One read of read_bounded, of up to n halves past those that were read; it
\* ends at the end of the file or at one more than the limit.
ReadSome(n) ==
  /\ pc = "read" /\ n > 0
  /\ Len(bytes) + n <= Len(file) /\ Len(bytes) + n <= MaxLength + 1
  /\ bytes' = bytes \o SubSeq(file, Len(bytes) + 1, Len(bytes) + n)
  /\ UNCHANGED <<file, mtime, now, strict, pc, initial, result, writes>>

ReadEnds ==
  /\ pc = "read"
  /\ Len(bytes) >= Len(file) \/ Len(bytes) = MaxLength + 1
  /\ IF Len(bytes) > MaxLength THEN pc' = "done" /\ result' = Refused
     ELSE pc' = (IF strict THEN "reinspect" ELSE "decode") /\ UNCHANGED result
  /\ UNCHANGED <<file, mtime, now, strict, initial, bytes, writes>>

\* Seeded fault: a modification that keeps the length goes unseen.
SameFileByLength ==
  Len(file) = initial.len /\ Len(bytes) = initial.len
\* The two metadata and the bytes read agree.
SameFile ==
  Len(file) = initial.len /\ Len(bytes) = initial.len /\ mtime = initial.mtime

Reinspect ==
  /\ pc = "reinspect"
  /\ IF SameFile THEN pc' = "decode" /\ UNCHANGED result
     ELSE pc' = "done" /\ result' = Refused
  /\ UNCHANGED <<file, mtime, now, strict, initial, bytes, writes>>

DecodeLast ==
  /\ pc = "decode"
  /\ result' = Decode(bytes) /\ pc' = "done"
  /\ UNCHANGED <<file, mtime, now, strict, initial, bytes, writes>>

-----------------------------------------------------------------------------
(* Whoever writes the file.                                                *)

\* Until it is opened the file is only appended to; after the last look at it
\* nothing that is written matters.
Written(kind, content) ==
  /\ Len(writes) < MaxWrites /\ (pc = "open" => kind = "append")
  /\ pc \notin {"decode", "done"}
  /\ file' = content /\ mtime' = now
  /\ writes' = IF pc = "open" THEN writes ELSE Append(writes, [kind |-> kind, at |-> now])
  /\ UNCHANGED <<now, strict, pc, initial, bytes, result>>

\* The next half, of a new record or of the one begun.
AppendHalf(r) ==
  /\ Len(file) <= MaxLength
  /\ LET begun == file # <<>> /\ Last(file)[2] = 1
     IN  Written("append",
                 Append(file, IF begun THEN <<Last(file)[1], 2>> ELSE <<r, 1>>))

Truncate == file # <<>> /\ Written("truncate", <<>>)

\* A half is written over.
Overwrite(i, r) == file[i][1] # r /\ Written("overwrite", [file EXCEPT ![i][1] = r])

Tick ==
  /\ now < MaxTime /\ pc \notin {"decode", "done"}
  /\ now' = now + 1
  /\ UNCHANGED <<file, mtime, strict, pc, initial, bytes, result, writes>>

Done == pc = "done" /\ UNCHANGED vars

Next ==
  \/ Open \/ ReadEnds \/ Reinspect \/ DecodeLast \/ Truncate \/ Tick \/ Done
  \/ \E n \in 1..(MaxLength + 1) : ReadSome(n)
  \/ \E r \in Records : AppendHalf(r) \/ \E i \in DOMAIN file : Overwrite(i, r)

Spec == Init /\ [][Next]_vars

-----------------------------------------------------------------------------
\* What a comparison is about was in the file.  While records are only
\* appended, the one loaded is whole and none older than the last one there
\* was when the file was opened.  The reader that looks twice is given what
\* the file held at once, however it is written, unless every write fell into
\* the tick of the modification time it had seen.
LoadedWasWritten ==
  result \notin {None, Refused} =>
    /\ (\A i \in DOMAIN writes : writes[i].kind = "append") =>
         /\ result[1] = result[2]
         /\ IsPrefix(initial.content, bytes) /\ IsPrefix(bytes, file)
    /\ strict => \/ bytes = initial.content
                 \/ \A i \in DOMAIN writes : writes[i].at = initial.mtime
=============================================================================
