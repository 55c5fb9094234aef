----------------------------- MODULE MCWorkload -----------------------------
(* Every batch of up to four operations on up to three workers: uneven     *)
(* ranges, fewer operations than workers, no workers, spawn failures at    *)
(* every slot and panics at every index.  Beside the batch of no operation *)
(* runs an external command, the other user of helper threads, or one      *)
(* worker of the exporter handles a connection.                            *)
EXTENDS Workload, Sequences

CONSTANTS CR, LF, Filler, NoValue

VARIABLES cpc, cresult, child, code, text, helper, buffered, retained, reader, swept, expired, written,
          wire, secured, hpc, bytes, request, left, response, sent, state,
          part     \* "batch", "command" or "request"

Command == INSTANCE CommandRun
  WITH pc <- cpc, result <- cresult, PipeSize <- 1, MaxStdout <- 2, MaxOutput <- 3, None <- "none"

commandVars ==
  <<cpc, cresult, child, code, text, helper, written, buffered, retained, reader, swept, expired>>

-----------------------------------------------------------------------------
(* Requests: lines of up to two bytes, headers of up to eleven.            *)

Line(method, version, route) ==
  [is |-> "line", sound |-> TRUE, target |-> TRUE, method |-> method, version |-> version,
   route |-> route]
Get(route) == Line("GET", "1.1", route)
Header(name, value) == [is |-> "header", name |-> name, value |-> value]
Ended(line) == line \o <<CR, LF>>

Bound == <<Header("host", "bound")>>
Token == <<Header("authorization", "token")>>
Other == <<Header("other", "any")>>

\* A request line, and header lines.
Request(line, headers) ==
  Ended(line) \o (IF headers = <<>> THEN <<>> ELSE Ended(headers[1])) \o
  (IF Len(headers) < 2 THEN <<>> ELSE Ended(headers[2])) \o
  (IF Len(headers) < 3 THEN <<>> ELSE Ended(headers[3])) \o <<CR, LF>>

Fillers(n) == [i \in 1..n |-> Filler]
Example == Request(<<Get("report"), Filler>>, <<Token, Bound>>)

Routed ==
  {Request(<<Get(route)>>, <<Bound>>) : route \in {"livez", "healthz", "metrics", "index", "none"}} \cup
  {Request(<<Get("report")>>, headers) :
     headers \in {<<>>, <<Token>>, <<Bound, Token>>, <<Token, Token>>, <<Bound, Bound>>, <<Token, Bound>>,
                  <<Bound, <<Header("authorization", "wrong")>> >>, << <<Header("host", "other")>>, Token>>,
                  << <<Header("host", "unparsable")>> >>, <<Bound, <<Header("authorization", "notText")>> >>}} \cup
  {Request(<<Line("POST", "1.1", "report")>>, <<Bound, Token>>),
   Request(<<Line("GET", "1.0", "metrics")>>, <<Token>>), Request(<<Line("GET", "2", "report")>>, <<Bound>>),
   Request(<<[Get("report") EXCEPT !.sound = FALSE]>>, <<Bound>>),
   Request(<<[Get("report") EXCEPT !.target = FALSE]>>, <<Bound>>), Request(<<>>, <<Bound>>)}
Oversized ==
  {Request(<<Get("livez")>> \o Fillers(n), <<Bound>>) : n \in 0..3} \cup
  {Request(<<Get("livez")>>, <<Bound \o Fillers(n)>>) : n \in 6..8} \cup
  {Request(<<Get("livez")>>, <<Bound, Other \o Fillers(n), Other>>) : n \in 0..1} \cup
  {Request(<<Get("livez")>>, <<Fillers(1), Bound>>)}
MCWires ==
  [bytes : Routed \cup Oversized, then : {"waits"}] \cup
  [bytes : {SubSeq(Example, 1, n) : n \in 0..Len(Example)}, then : {"waits", "closes"}] \cup
  [bytes : {Fillers(n) : n \in 2..4} \cup {Fillers(2) \o <<CR>>, <<Filler, CR, Filler, LF>>}, then : {"closes"}]

Http == INSTANCE HttpRequest
  WITH phase <- hpc, None <- NoValue, Wires <- MCWires, MaxLine <- 2, MaxHeader <- 11, MaxHeaders <- 2,
       Chunk <- 3, ReadTime <- 2, WriteTime <- 1, Freshness <- 1, MaxAge <- 3, ResponseSize <- 2

requestVars == <<wire, secured, hpc, bytes, request, left, response, sent, state>>

ASSUME CommandAssumption == Command!CommandAssumption
ASSUME HttpAssumption == Http!HttpAssumption

-----------------------------------------------------------------------------
\* A part that is not run stays in one of its initial states.
MCInit ==
  /\ part \in {"batch", "command", "request"}
  /\ Init
  /\ part = "batch" \/ (count = 0 /\ concurrency = 0)
  /\ part = "command" \/ (code = TRUE /\ text = TRUE)
  /\ Command!Init
  /\ part = "request" \/ (wire = [bytes |-> <<>>, then |-> "waits"] /\ secured = TRUE)
  /\ Http!Init

\* The state is only looked at when a request is routed.
RequestStep == Http!Next /\ (state' = state \/ hpc = "routing")

MCNext ==
  \/ Next /\ UNCHANGED <<part, commandVars, requestVars>>
  \/ part = "command" /\ Command!Next /\ UNCHANGED <<part, vars, requestVars>>
  \/ part = "request" /\ RequestStep /\ UNCHANGED <<part, vars, commandVars>>

CommandFairness ==
  /\ WF_commandVars(part = "command" /\ Command!Run)
  /\ WF_commandVars(part = "command" /\ Command!Deadline)
  /\ \A p \in Command!Pipes : /\ WF_commandVars(part = "command" /\ Command!Read(p))
                              /\ WF_commandVars(part = "command" /\ Command!ReadEnd(p))

RequestFairness ==
  /\ WF_requestVars(part = "request" /\ Http!Worker)
  /\ WF_requestVars(part = "request" /\ Http!Tick)

MCSpec ==
  /\ MCInit /\ [][MCNext]_<<part, vars, commandVars, requestVars>>
  /\ Fairness /\ CommandFairness /\ RequestFairness

-----------------------------------------------------------------------------
\* What a command returns is all that was written, and who stays behind was out
\* of reach.
CommandResultIsSound == part = "command" => Command!CommandResultIsSound

\* Every command is answered, and no writer is left with a full pipe.
CommandNeverStuck == part = "command" => Command!NeverStuck

\* A request is answered for what it is, and to whom it is due.
AnswerExact == part = "request" => Http!AnswerExact

\* Every connection is closed, whatever its client does.
ConnectionEnds == part = "request" => Http!ConnectionEnds
=============================================================================
