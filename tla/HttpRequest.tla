---------------------------- MODULE HttpRequest -----------------------------
(***************************************************************************)
(* One connection of the exporter in the hands of its worker:              *)
(* handle_connection of src/presentation/server.rs, which Exporter takes   *)
(* as one step each.  A request is read in pieces under one deadline,      *)
(* parsed, routed and answered in pieces under another, while the monitor  *)
(* publishes and the wall clock may be set back.                           *)
(*                                                                         *)
(* A byte is CR, LF, a filler or a word: the part of a line that carries   *)
(* its meaning, by which a filler only makes it longer.                    *)
(***************************************************************************)
EXTENDS Integers, Sequences, SequencesExt

CONSTANTS Wires,       \* requests: [bytes, then], then what the client does after them
          CR, LF, Filler,
          MaxLine,     \* MAX_REQUEST_LINE_BYTES
          MaxHeader,   \* MAX_HEADER_BYTES
          MaxHeaders,  \* MAX_HEADER_COUNT
          Chunk,       \* READ_CHUNK_BYTES
          ReadTime, WriteTime,  \* READ_TIMEOUT and WRITE_TIMEOUT, in ticks
          Freshness,   \* age, in units, up to which a report is fresh
          MaxAge,      \* bound on the age of a report (model bound)
          ResponseSize,\* units of a response
          None

VARIABLES
  wire,     \* what the client sends, and whether it then waits or closes
  secured,  \* a bearer token is configured
  phase,    \* "loop", "reading", "routing", "writing" or "closed"
  bytes,    \* the bytes the worker has read
  request,  \* None, or what it parsed
  left,     \* ticks to the deadline of reading or writing
  response, \* None, or [status, body, state]: what it is and the state it shows
  sent,  \* units of the response that were written
  state     \* State: None, or the report with its age and how far the clock was set back since

vars == <<wire, secured, phase, bytes, request, left, response, sent, state>>

Least(S) == CHOOSE x \in S : \A y \in S : x <= y

\* What the constants are; the modules that give them values assume it.  A word
\* stands where its line begins.
Word(byte) == byte \notin {CR, LF, Filler}
HttpAssumption ==
  /\ {MaxLine, MaxHeader, MaxHeaders, Chunk, ReadTime, WriteTime, ResponseSize} \subseteq Nat \ {0}
  /\ MaxLine + 2 <= MaxHeader /\ {Freshness, MaxAge} \subseteq Nat
  /\ CR # LF /\ None \notin Nat
  /\ \A w \in Wires :
       /\ w.then \in {"waits", "closes"}
       /\ w.bytes \in Seq({w.bytes[i] : i \in DOMAIN w.bytes})
       /\ \A i \in DOMAIN w.bytes : Word(w.bytes[i]) =>
            /\ i = 1 \/ (i > 2 /\ w.bytes[i - 2] = CR /\ w.bytes[i - 1] = LF)
            /\ w.bytes[i].is = "header" =>
                 /\ w.bytes[i].name \in {"host", "authorization", "other"}
                 /\ w.bytes[i].value \notin {"missing", "duplicate"}

-----------------------------------------------------------------------------
(* Parsing.                                                                *)

\* find_crlf and find_header_end: where lines end, and the header does.
Crlfs(b) == {i \in 1..Len(b) - 1 : b[i] = CR /\ b[i + 1] = LF}
HeaderEnds(b) == {i + 3 : i \in {j \in Crlfs(b) : j + 2 \in Crlfs(b)}}
LineLength(b) == Least(Crlfs(b)) - 1

\* Seeded fault: the line feed of the longest line is not waited for.
PartialErrorAtOnce(b) ==
  IF Crlfs(b) = {}
  THEN IF Len(b) > MaxLine THEN 414 ELSE None
  ELSE IF LineLength(b) > MaxLine THEN 414
  ELSE IF Len(b) - (LineLength(b) + 2) >= MaxHeader THEN 431 ELSE None
\* validate_partial_size, then remaining_request_capacity.
PartialError(b) ==
  IF Crlfs(b) = {}
  THEN IF \/ Len(b) > MaxLine + 1
          \/ Len(b) = MaxLine + 1 /\ b[Len(b)] # CR THEN 414 ELSE None
  ELSE IF LineLength(b) > MaxLine THEN 414
  ELSE IF Len(b) - (LineLength(b) + 2) >= MaxHeader THEN 431 ELSE None

Capacity(b) ==
  (IF Crlfs(b) = {} THEN MaxLine + 2 ELSE LineLength(b) + 2 + MaxHeader) - Len(b)

\* The lines of a header, its request line first; the empty one ends it.
Rank(b, k) == Cardinality({j \in Crlfs(b) : j <= k})
LineEnd(b, i) == CHOOSE k \in Crlfs(b) : Rank(b, k) = i
Lines(b) ==
  [i \in 1..Cardinality(Crlfs(b)) - 1 |->
     SubSeq(b, IF i = 1 THEN 1 ELSE LineEnd(b, i - 1) + 2, LineEnd(b, i) - 1)]

IsWord(line, kind) == line # <<>> /\ Word(line[1]) /\ line[1].is = kind

RequestLineError(line) ==
  IF ~IsWord(line, "line") THEN 400
  ELSE IF ~line[1].sound THEN 400
  ELSE IF line[1].version \notin {"1.0", "1.1"} THEN 505
  ELSE IF ~line[1].target THEN 400 ELSE None

\* observe_header: a second value makes a duplicate, whatever it is.
Missing == "missing"
Duplicate == "duplicate"
Observed(header, value) == IF header = Missing THEN value ELSE Duplicate

NoHeaders == [error |-> None, count |-> 0, host |-> Missing, authorization |-> Missing]

Header(acc, line) ==
  IF acc.error # None THEN acc
  ELSE IF acc.count = MaxHeaders THEN [acc EXCEPT !.error = 431]
  ELSE IF ~IsWord(line, "header") THEN [acc EXCEPT !.error = 400]
  ELSE LET name == line[1].name
           value == line[1].value
       IN  IF name = "other" THEN [acc EXCEPT !.count = @ + 1]
           ELSE IF acc[name] = Missing /\ value = "notText" THEN [acc EXCEPT !.error = 400]
           ELSE [acc EXCEPT !.count = @ + 1, ![name] = Observed(@, value)]

\* parse_request: the status it refuses a header with, or the request.
Refusal(status) == [error |-> status]
Parse(b) ==
  IF LineLength(b) > MaxLine THEN Refusal(414)
  ELSE IF Len(b) - (LineLength(b) + 2) > MaxHeader THEN Refusal(431)
  ELSE LET lines == Lines(b)
           line == lines[1]
           headers == FoldLeft(Header, NoHeaders, Tail(lines))
       IN  IF RequestLineError(line) # None THEN Refusal(RequestLineError(line))
           ELSE IF headers.error # None THEN Refusal(headers.error)
           ELSE IF \/ headers.host \in {"unparsable", Duplicate}
                   \/ line[1].version = "1.1" /\ headers.host = Missing THEN Refusal(400)
           ELSE [error |-> None, method |-> line[1].method, route |-> line[1].route,
                 host |-> headers.host, authorization |-> headers.authorization]

-----------------------------------------------------------------------------
(* Routing.                                                                *)

Response(status, body, of) == [status |-> status, body |-> body, state |-> of]
Plain(status) == Response(status, "none", None)

PublicProbe(route) == route \in {"livez", "healthz"}

\* health_response: the age is that of the wall clock, never negative.
HealthResponse ==
  IF state = None THEN Response(503, "health", None)
  ELSE LET age == IF state.age > state.behind THEN state.age - state.behind ELSE 0
       IN  Response(IF age > Freshness THEN 503 ELSE 200, "health", state)

\* A body above its limit is answered with 503.
Sized(route) ==
  IF state = None \/ route \in state.fits THEN Response(200, route, state) ELSE Plain(503)

\* route_request.
Route ==
  IF ~secured /\ request.host # "bound" THEN Plain(400)
  ELSE IF secured /\ ~PublicProbe(request.route) /\ request.authorization # "token" THEN Plain(401)
  ELSE IF request.method # "GET" THEN Plain(405)
  ELSE CASE request.route = "livez"   -> Response(200, "livez", None)
         [] request.route = "metrics" -> Sized("metrics")
         [] request.route = "healthz" -> HealthResponse
         [] request.route = "report"  -> IF state = None THEN Plain(503) ELSE Sized("report")
         [] request.route = "index"   -> Response(200, "index", None)
         [] OTHER                     -> Plain(404)

-----------------------------------------------------------------------------
(* The connection.                                                         *)

\* Seeded fault: every read has the whole of the timeout.
RemainingAfresh == ReadTime
\* What remains of the deadline when a read begins.
Remaining == left

Init ==
  /\ wire \in Wires /\ secured \in BOOLEAN
  /\ phase = "loop" /\ left = ReadTime
  /\ bytes = <<>> /\ request = None /\ response = None /\ sent = 0 /\ state = None

Frame == UNCHANGED <<wire, secured, state>>

Close == phase' = "closed" /\ UNCHANGED <<bytes, request, left, response, sent>>

\* The writing of a response begins, with a deadline of its own.
Respond(r) ==
  /\ phase' = "writing" /\ response' = r /\ left' = WriteTime
  /\ UNCHANGED <<bytes, request, sent>>

\* The result of parse_request.
Parsed(result) ==
  IF result.error # None THEN Respond(Plain(result.error))
  ELSE phase' = "routing" /\ request' = result /\ UNCHANGED <<bytes, left, response, sent>>

\* One turn of the loop of read_request, up to its read.
Loop ==
  /\ phase = "loop"
  /\ IF HeaderEnds(bytes) # {}
     THEN \E header \in {SubSeq(bytes, 1, Least(HeaderEnds(bytes)))} :
            \E result \in {Parse(header)} : Parsed(result)
     ELSE IF PartialError(bytes) # None THEN Respond(Plain(PartialError(bytes)))
     ELSE IF left = 0 THEN Close \/ Respond(Plain(408))
     ELSE phase' = "reading" /\ left' = Remaining /\ UNCHANGED <<bytes, request, response, sent>>
  /\ Frame

\* The read returns what arrived, at most what may still be kept.
Receive ==
  /\ phase = "reading"
  /\ \E n \in 1..Chunk :
       /\ n <= Capacity(bytes) /\ Len(bytes) + n <= Len(wire.bytes)
       /\ bytes' = bytes \o SubSeq(wire.bytes, Len(bytes) + 1, Len(bytes) + n)
  /\ phase' = "loop" /\ Frame /\ UNCHANGED <<request, left, response, sent>>

Interrupted ==
  /\ phase = "reading" /\ phase' = "loop"
  /\ Frame /\ UNCHANGED <<bytes, request, left, response, sent>>

ClientCloses ==
  /\ phase = "reading" /\ wire.then = "closes" /\ bytes = wire.bytes
  /\ Respond(Plain(400)) /\ Frame

ReadTimesOut ==
  /\ phase = "reading" /\ left = 0
  /\ Respond(Plain(408)) /\ Frame

\* route_request reads the state when the request is complete.
Routing ==
  /\ phase = "routing"
  /\ Respond(Route) /\ Frame

\* One turn of the loop of write_before_deadline.
Write ==
  /\ phase = "writing" /\ left > 0 /\ sent < ResponseSize
  /\ \E n \in 1..ResponseSize - sent : sent' = sent + n
  /\ Frame /\ UNCHANGED <<phase, bytes, request, left, response>>

\* All is written, or the deadline is over; the stream is shut down.
WriteEnds ==
  /\ phase = "writing" /\ (sent = ResponseSize \/ left = 0)
  /\ Close /\ Frame

\* The client resets the connection: nothing more is written.
Reset ==
  /\ phase \in {"reading", "writing"}
  /\ Close /\ Frame

Tick ==
  /\ phase \in {"loop", "reading", "writing"} /\ left > 0
  /\ left' = left - 1
  /\ UNCHANGED <<wire, secured, phase, bytes, request, response, sent, state>>

\* The monitor: set_report; and the clocks.
Publish ==
  /\ phase # "closed"
  /\ \E fits \in SUBSET {"metrics", "report"} : state' = [fits |-> fits, age |-> 0, behind |-> 0]
  /\ UNCHANGED <<wire, secured, phase, bytes, request, left, response, sent>>
Age ==
  /\ phase # "closed" /\ state # None /\ state.age < MaxAge
  /\ state' = [state EXCEPT !.age = @ + 1]
  /\ UNCHANGED <<wire, secured, phase, bytes, request, left, response, sent>>
SetBack ==
  /\ phase # "closed" /\ state # None /\ state.behind = 0
  /\ state' = [state EXCEPT !.behind = 1]
  /\ UNCHANGED <<wire, secured, phase, bytes, request, left, response, sent>>

Worker == Loop \/ ReadTimesOut \/ Routing \/ WriteEnds
Next ==
  \/ Worker \/ Receive \/ Interrupted \/ ClientCloses \/ Reset \/ Write
  \/ Tick \/ Publish \/ Age \/ SetBack

\* The worker runs and time passes; the client owes nothing.
Fairness == WF_vars(Worker) /\ WF_vars(Tick)

Spec == Init /\ [][Next]_vars /\ Fairness

-----------------------------------------------------------------------------
(* Properties.                                                             *)

\* What the whole of a request deserves, however it is cut into pieces.
Verdict(b) ==
  LET ended == {i \in HeaderEnds(b) : i - (LineLength(b) + 2) <= MaxHeader}
  IN  IF Crlfs(b) \cap (1..MaxLine + 1) = {}
      THEN IF Len(b) > MaxLine + 1 \/ (Len(b) = MaxLine + 1 /\ b[Len(b)] # CR) THEN 414 ELSE None
      ELSE IF ended # {} THEN 200
      ELSE IF Len(b) - (LineLength(b) + 2) >= MaxHeader THEN 431
      ELSE None

\* The words of a request's header, each with its line's number.
Said(b, name) ==
  LET end == Least(HeaderEnds(b))
  IN  {i \in 1..end : Word(b[i]) /\ b[i].is = "header" /\ b[i].name = name}

\* A request is answered for what it is: refused for its size exactly when it
\* exceeds a limit, however it is cut into pieces, and never for a lack of
\* time or an early end when what was read is complete or beyond a limit;
\* nothing is kept beyond the limits.  What shows the node is given to the
\* token alone, said once, or, without one, to the host the listener is bound
\* to; a method other than GET gets none of it.  200 from healthz vouches for a report no older than the
\* freshness and what the clock was set back, 503 for one that is older.
AnswerExact ==
  /\ Len(bytes) <= MaxLine + 2 + MaxHeader
  /\ response # None =>
       LET verdict == Verdict(wire.bytes)
           whole == SubSeq(wire.bytes, 1, Least(HeaderEnds(wire.bytes)))
           Sent(name, value) ==
             \E i \in Said(wire.bytes, name) :
               wire.bytes[i].value = value /\ Said(wire.bytes, name) = {i}
       IN  /\ \/ Verdict(bytes) = None /\ response.status = 408
              \/ verdict \in {414, 431} /\ response.status = verdict
              \/ verdict = None /\ wire.then = "closes" /\ response.status = 400
              \/ /\ verdict = 200
                 /\ IF Parse(whole).error # None THEN response.status = Parse(whole).error
                    ELSE response.status \in {200, 400, 401, 404, 405, 503}
           /\ response.body \in {"metrics", "report", "index"} =>
                /\ IF secured THEN Sent("authorization", "token") ELSE Sent("host", "bound")
                /\ wire.bytes[1].method = "GET"
           /\ response.body = "health" =>
                IF response.status = 200
                THEN response.state.age <= Freshness + response.state.behind
                ELSE response.state = None \/ response.state.age > Freshness

\* Every connection is closed: whatever the client withholds, trickles or
\* leaves unread, and however often a system call is interrupted.
ConnectionEnds == <>(phase = "closed")
=============================================================================
