------------------------------- MODULE History -------------------------------
(***************************************************************************)
(* The history of a monitor and its analysis: append, analyze,             *)
(* validate_report and observe_report of src/operations/history.rs, over   *)
(* records finalized by src/analysis/health.rs.                            *)
(*                                                                         *)
(* A record reaches the file in one write or, when the disk is short or    *)
(* the monitor dies, in two of which the second may never come; the first  *)
(* may be all of it but the newline.  An analysis reads line by line while *)
(* monitors append and the file is rotated under it.  Measurements are     *)
(* integers; what may be absent is None.                                   *)
(***************************************************************************)
EXTENDS Integers, Sequences, SequencesExt

CONSTANTS Monitors,   \* processes that append
          Collected,  \* what their cycles collect, not yet finalized
          Foreign,    \* lines that others left in the file
          Schema,     \* SCHEMA_VERSION
          MaxTokens,  \* bound on the writes to one file (model bound)
          None

VARIABLES
  files,   \* the file under the path and the one that was rotated away
  path,    \* index of the file under the path
  writer,  \* per monitor: None or its append, [at, file, record]
  reader,  \* the analysis, [at, file, line, schema, summary], and the ends of the
           \* lines it has read, ends
  present  \* the lines that were in the file when it was opened

vars == <<files, path, writer, reader, present>>

Top(S) == CHOOSE x \in S : \A y \in S : y <= x
Count(s, Test(_)) == Cardinality({i \in DOMAIN s : Test(s[i])})

-----------------------------------------------------------------------------
(* Records.                                                                *)

\* A token is the head of a line, the whole of one without its newline, the
\* tail, or a line.  A newline alone is a blank line, or the end of a whole one.
Token(text, head, tail) == [text |-> text, head |-> head, tail |-> tail]
Newline == Token("blank", None, None)
EndsLine(token) == token.text \in {"line", "tail", "blank"}

\* finalize.
Critical(f) == f = "critical"
Warning(f) == f = "warning"
Reachable(e) == e.reachable
InUse(report) == FoldLeft(LAMBDA n, g : n + g.used, 0, report.gpus)
Summary(report) ==
  [used |-> InUse(report),
   up |-> Count(report.endpoints, Reachable),
   critical |-> Count(report.findings, Critical), warning |-> Count(report.findings, Warning)]
Status(summary) ==
  IF summary.critical > 0 THEN "critical" ELSE IF summary.warning > 0 THEN "warning" ELSE "healthy"
Finalized(report) ==
  [gpus |-> report.gpus, endpoints |-> report.endpoints, findings |-> report.findings,
   sources |-> report.sources, host |-> report.host, at |-> report.at,
   schema |-> Schema, summary |-> Summary(report), status |-> Status(Summary(report))]

Nonnegative(x) == x = None \/ x >= 0

\* validate_gpus, validate_endpoint and validate_sources.
GpuValid(g) ==
  /\ g.index >= 0 /\ g.used >= 0
  /\ g.total > 0 => g.used <= g.total
  /\ g.util \in -1..100
EndpointValid(e) ==
  /\ Nonnegative(e.waiting) /\ Nonnegative(e.rate)
  /\ e.cache = None \/ e.cache \in 0..100
SourceValid(s) ==
  /\ s.state = "ok" => ~s.error
  /\ s.state \in {"partial", "unavailable"} => s.error
  /\ s.state = "skipped" => s.records = 0

\* is_empty_default: the status of a report that holds nothing.
EmptyDefault(report) ==
  report.status = "unknown" /\ {report.gpus, report.endpoints, report.findings} = {<<>>}

\* validate_report, against the schema of the records before.
Valid(report, schema) ==
  /\ report.schema \in 1..Schema
  /\ schema \in {None, report.schema}
  /\ report.summary = Summary(report)
  /\ report.status = Status(report.summary) \/ EmptyDefault(report)
  /\ \A i \in DOMAIN report.gpus :
       /\ GpuValid(report.gpus[i])
       /\ \A j \in DOMAIN report.gpus : report.gpus[i].index = report.gpus[j].index => i = j
  /\ \A i \in DOMAIN report.endpoints : EndpointValid(report.endpoints[i])
  /\ \A i \in DOMAIN report.sources :
       /\ SourceValid(report.sources[i])
       /\ \A j \in DOMAIN report.sources : report.sources[i].name = report.sources[j].name => i = j

\* What the constants are; the modules that give them values assume it.
Measurements == Int \cup {None}
Gpus == [index : Int, used : Int, total : Int, util : Int]
Endpoints == [reachable : BOOLEAN, waiting : Measurements, cache : Measurements, rate : Measurements]
Typed(report) ==
  /\ report.at \in Int /\ report.findings \in Seq(STRING)
  /\ report.gpus \in Seq(Gpus) /\ report.endpoints \in Seq(Endpoints)

HistoryAssumption ==
  /\ Schema \in Nat \ {0} /\ MaxTokens \in Nat /\ None \notin Int
  /\ \A report \in Collected : Typed(report) /\ Finalized(report) # None
  /\ \A line \in Foreign : line # None
  /\ \A line \in Foreign :
       \/ line = Newline
       \/ line = Token("line", line.head, line.head) /\ Typed(line.head) /\ line.head # None

-----------------------------------------------------------------------------
(* The summary of an analysis.                                             *)

NoMax == [max |-> None, samples |-> 0]
Nothing ==
  [records |-> 0, first |-> None, last |-> None, hosts |-> {}, used |-> NoMax, util |-> NoMax,
   waiting |-> NoMax, cache |-> NoMax, rate |-> NoMax, endpoints |-> 0, up |-> 0,
   sources |-> 0, sourcesOk |-> 0, critical |-> 0, warning |-> 0]

\* update_max.
Updated(peak, x) ==
  IF x = None THEN peak
  ELSE [max |-> IF peak.max = None \/ x > peak.max THEN x ELSE peak.max,
        samples |-> peak.samples + 1]
Peak(peak, values) == FoldLeft(Updated, peak, values)

Used(r) == [i \in DOMAIN r.gpus |-> r.gpus[i].used]
Util(r) == [i \in DOMAIN r.gpus |-> IF r.gpus[i].util >= 0 THEN r.gpus[i].util ELSE None]
Waiting(r) == [i \in DOMAIN r.endpoints |-> r.endpoints[i].waiting]
Cache(r) == [i \in DOMAIN r.endpoints |-> r.endpoints[i].cache]
Rate(r) == [i \in DOMAIN r.endpoints |-> r.endpoints[i].rate]
IsOk(s) == s.state = "ok"

\* Seeded fault: a record counts for each of its findings.
ObserveFindings(s, r) ==
  [s EXCEPT !.records = @ + 1,
            !.critical = @ + r.summary.critical, !.warning = @ + r.summary.warning]
\* observe_report.
Observe(s, r) ==
  [records |-> s.records + 1,
   first |-> IF s.first = None \/ r.at < s.first THEN r.at ELSE s.first,
   last |-> IF s.last = None \/ r.at > s.last THEN r.at ELSE s.last,
   hosts |-> s.hosts \cup ({r.host} \ {None}),
   used |-> Peak(s.used, Used(r)), util |-> Peak(s.util, Util(r)),
   waiting |-> Peak(s.waiting, Waiting(r)), cache |-> Peak(s.cache, Cache(r)),
   rate |-> Peak(s.rate, Rate(r)),
   endpoints |-> s.endpoints + Len(r.endpoints), up |-> s.up + Count(r.endpoints, Reachable),
   sources |-> s.sources + Len(r.sources), sourcesOk |-> s.sourcesOk + Count(r.sources, IsOk),
   critical |-> s.critical + (IF \E i \in DOMAIN r.findings : Critical(r.findings[i]) THEN 1 ELSE 0),
   warning |-> s.warning + (IF \E i \in DOMAIN r.findings : Warning(r.findings[i]) THEN 1 ELSE 0)]

-----------------------------------------------------------------------------
(* Appending.                                                              *)

Init ==
  /\ \E line \in Foreign \cup {None} :
       files = << IF line = None THEN <<>> ELSE <<line>>, <<>> >>
  /\ path = 1
  /\ writer = [w \in Monitors |-> None]
  /\ reader = [at |-> "start", file |-> 1, line |-> 0, ends |-> {0}, schema |-> None,
               summary |-> Nothing]
  /\ present = 0

\* append up to its checks: the record is encoded and the file opened.
Open(w) ==
  /\ writer[w] = None
  /\ \E report \in Collected :
       writer' = [writer EXCEPT ![w] = [at |-> "opened", file |-> path, record |-> Finalized(report)]]
  /\ UNCHANGED <<files, path, reader, present>>

\* validate_private_history_file: refused when the path was rotated since.
Check(w) ==
  /\ writer[w] # None /\ writer[w].at = "opened"
  /\ writer' = [writer EXCEPT ![w] = IF writer[w].file = path THEN [@ EXCEPT !.at = "checked"] ELSE None]
  /\ UNCHANGED <<files, path, reader, present>>

Put(w, token, next) ==
  /\ Len(files[writer[w].file]) < MaxTokens
  /\ files' = [files EXCEPT ![writer[w].file] = Append(@, token)]
  /\ writer' = [writer EXCEPT ![w] = next]
  /\ UNCHANGED <<path, reader, present>>

\* write_all: in one write, or in two.
WriteAll(w) ==
  /\ writer[w] # None /\ writer[w].at = "checked"
  /\ Put(w, Token("line", writer[w].record, writer[w].record), None)
WriteHead(w) ==
  /\ writer[w] # None /\ writer[w].at = "checked"
  /\ \E text \in {"head", "whole"} :
       Put(w, Token(text, writer[w].record, None), [writer[w] EXCEPT !.at = text])
WriteTail(w) ==
  /\ writer[w] # None /\ writer[w].at = "head"
  /\ Put(w, Token("tail", None, writer[w].record), None)
WriteNewline(w) ==
  /\ writer[w] # None /\ writer[w].at = "whole"
  /\ Put(w, Newline, None)

\* The disk is full, or the monitor dies and is started again.
GiveUp(w) ==
  /\ writer[w] # None /\ writer[w].at \in {"head", "whole"}
  /\ writer' = [writer EXCEPT ![w] = None]
  /\ UNCHANGED <<files, path, reader, present>>

Rotate ==
  /\ path = 1 /\ path' = 2
  /\ UNCHANGED <<files, writer, reader, present>>

-----------------------------------------------------------------------------
(* Analysis.                                                               *)

\* read_bounded_line: a line ends with its newline, or where the file ends now.
EndsAt(tokens, from) ==
  LET ends == {i \in from..Len(tokens) : EndsLine(tokens[i])}
  IN  IF ends = {} THEN Len(tokens) ELSE CHOOSE i \in ends : \A j \in ends : i <= j

\* The tokens of one record and no more; the last line may lack its newline.
IsRecord(tokens) ==
  \/ Len(tokens) = 1 /\ tokens[1].text \in {"line", "whole"}
  \/ Len(tokens) = 2 /\ tokens[1].text = "whole" /\ tokens[2] = Newline
  \/ /\ Len(tokens) = 2 /\ tokens[1].text = "head"
     /\ tokens[2].text = "tail" /\ tokens[1].head = tokens[2].tail

\* The record of a line, or None when it does not parse: part of a record, or
\* parts of two.
Parse(tokens) == IF IsRecord(tokens) THEN tokens[1].head ELSE None

IsBlank(tokens) == tokens = <<Newline>>

Analyze ==
  /\ reader.at = "start"
  /\ reader' = [reader EXCEPT !.at = "reading", !.file = path]
  /\ present' = Len(files[path])
  /\ UNCHANGED <<files, path, writer>>

\* One turn of the loop of analyze: line counts the tokens read.
ReadLine ==
  /\ reader.at = "reading" /\ reader.line < Len(files[reader.file])
  /\ LET tokens == files[reader.file]
         end == EndsAt(tokens, reader.line + 1)
         line == SubSeq(tokens, reader.line + 1, end)
         record == Parse(line)
     IN  reader' =
           IF IsBlank(line) THEN [reader EXCEPT !.line = end, !.ends = @ \cup {end}]
           ELSE IF record = None THEN [reader EXCEPT !.at = "refused"]
           ELSE IF ~Valid(record, reader.schema) THEN [reader EXCEPT !.at = "refused"]
           ELSE [reader EXCEPT !.line = end, !.ends = @ \cup {end},
                               !.schema = record.schema, !.summary = Observe(@, record)]
  /\ UNCHANGED <<files, path, writer, present>>

ReadEnd ==
  /\ reader.at = "reading" /\ reader.line = Len(files[reader.file])
  /\ reader' = [reader EXCEPT !.at = IF reader.summary.records = 0 THEN "refused" ELSE "done"]
  /\ UNCHANGED <<files, path, writer, present>>

Next ==
  \/ \E w \in Monitors :
       \/ Open(w) \/ Check(w)
       \/ WriteAll(w) \/ WriteHead(w) \/ WriteTail(w) \/ WriteNewline(w) \/ GiveUp(w)
  \/ Rotate \/ Analyze \/ ReadLine \/ ReadEnd

Spec == Init /\ [][Next]_vars

-----------------------------------------------------------------------------
(* Properties.                                                             *)

\* The records of the lines that end there, by the position of their ends.
LineTo(tokens, ends, i) == SubSeq(tokens, 1 + Top({j \in ends : j < i}), i)
RecordsOf(tokens, ends) ==
  {<<i, Parse(LineTo(tokens, ends, i))>> :
     i \in {j \in ends \ {0} : ~IsBlank(LineTo(tokens, ends, j))}}

\* The values that were measured, by record and place.
Measured(records, Values(_)) ==
  {v \in UNION {{<< <<r[1], i>>, Values(r[2])[i]>> : i \in DOMAIN Values(r[2])} : r \in records} :
     v[2] # None}
PeakOf(values) ==
  IF values = {} THEN NoMax
  ELSE [max |-> Top({v[2] : v \in values}), samples |-> Cardinality(values)]

\* A summary is that of the file up to where it was read, at least of what was
\* there when it was opened: every line of it whole and sound, of one schema,
\* each counted once, whatever was appended, torn or rotated meanwhile; peaks
\* are those of the measured values alone.  A line is what lies between two
\* newlines, save that the last one may have been read without its own: then
\* what another monitor appends to it counts as a line.
AnalysisIsPrefix ==
  reader.at = "done" =>
    LET tokens == files[reader.file]
        records == RecordsOf(tokens, reader.ends)
        s == reader.summary
    IN  /\ present <= reader.line /\ reader.line \in reader.ends
        /\ reader.ends \subseteq 0..reader.line
        /\ \A i \in 1..reader.line : EndsLine(tokens[i]) => i \in reader.ends
        /\ \A i \in reader.ends \ {0} : EndsLine(tokens[i]) \/ present <= i
        /\ \A r \in records : r[2] # None
        /\ Cardinality({r[2].schema : r \in records}) = 1
        /\ s.records = Cardinality(records)
        /\ {s.first, s.last} \subseteq {r[2].at : r \in records}
        /\ \A r \in records : s.first <= r[2].at /\ r[2].at <= s.last
        /\ s.used = PeakOf(Measured(records, Used))
        /\ s.util = PeakOf(Measured(records, Util))
        /\ s.waiting = PeakOf(Measured(records, Waiting))
        /\ s.rate = PeakOf(Measured(records, Rate))
        /\ s.cache = PeakOf(Measured(records, Cache))
        /\ s.critical = Cardinality({r \in records : r[2].status = "critical"})
        /\ s.critical <= s.records /\ s.warning <= s.records

\* "Reads the NDJSON emitted by --history": a history of whole lines, all of
\* them appended by this build, is not refused.
OwnHistoryIsRead ==
  reader.at = "refused" =>
    \/ present = 0
    \/ \E i \in DOMAIN files[reader.file] :
         files[reader.file][i].text # "line" \/ files[reader.file][i] \in Foreign
=============================================================================
