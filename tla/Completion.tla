----------------------------- MODULE Completion -----------------------------
(***************************************************************************)
(* One request to an inference endpoint and the evidence kept of it:       *)
(* OpenAiClient::execute of src/inference/openai.rs, with the rules by     *)
(* which a saved attempt is accepted again, validate_saved_attempt of      *)
(* src/operations/saturation.rs and validate_attempt of                    *)
(* src/operations/rollout.rs.                                              *)
(*                                                                         *)
(* The endpoint answers with headers and, if they promise success, a body: *)
(* events of a stream, or one JSON value.  It and the network decide what  *)
(* comes next and when.  Text is a sequence of letters, Blank among them.  *)
(***************************************************************************)
EXTENDS Integers, Sequences, SequencesExt

CONSTANTS Letters,     \* what generated text is made of
          Blank,       \* the letter that is white space
          Needles,     \* expectations, sequences of letters, or None
          Pieces,      \* texts an event may carry
          MaxTokens,   \* max_tokens of the request
          MaxContent,  \* bound on the generated content (model bound)
          MaxTime,     \* bound on the clock (model bound)
          None

\* What the constants are; the modules that give them values assume it.
CompletionAssumption ==
  /\ MaxTokens \in Nat \ {0} /\ MaxContent \in Nat /\ MaxTime \in Nat
  /\ Needles \subseteq (Seq(Letters) \ {<<>>}) \cup {None}
  /\ Pieces \subseteq Seq(Letters)
  /\ None \notin BOOLEAN \cup Nat
  /\ None \notin {"transport", "http", "protocol", "emptyOutput", "expectation"}

VARIABLES
  stream, needle,  \* the request: streamed or not; the expectation
  pc, clock,       \* where execute is; the time since it started
  headers,         \* headers_ms, or None
  matcher,         \* OutputMatcher: [matched, nonBlank, met]
  finish,          \* a finish_reason was seen
  tokens,          \* completion_tokens of the usage object, or None
  ttft,            \* time of the first generated text, or None
  attempt,         \* the CanaryAttempt, or None
  content, ended   \* ghosts: the final text so far; its end was announced

vars == <<stream, needle, pc, clock, headers, matcher, finish, tokens, ttft,
          attempt, content, ended>>
bodyVars == <<matcher, finish, tokens, ttft, content, ended>>

-----------------------------------------------------------------------------
(* OutputMatcher: the needle is sought while the text arrives.             *)

\* Seeded fault: a mismatch starts over.
FallbackToStart(word, table, m, letter) ==
  IF m = 0 \/ word[m + 1] = letter THEN m ELSE 0
\* while matched > 0 && needle[matched] != byte: the longest border that the
\* letter extends.
Fallback(word, table, m, letter) ==
  LET back[k \in 0..m] ==
        IF k = 0 \/ word[k + 1] = letter THEN k ELSE back[table[k]]
  IN  back[m]

\* What is matched after one letter more.
Advance(word, table, m, letter) ==
  LET k == Fallback(word, table, m, letter)
  IN  IF word[k + 1] = letter THEN k + 1 ELSE k

\* prefix_table: for each place, the length of the longest border ending there.
Extend(word, table, i) == Append(table, Advance(word, table, table[i - 1], word[i]))
PrefixTable(word) ==
  LET tables[i \in 1..Len(word)] ==
        IF i = 1 THEN <<0>> ELSE Extend(word, tables[i - 1], i)
  IN  tables[Len(word)]

NewMatcher(word) ==
  [matched |-> 0, nonBlank |-> FALSE, met |-> IF word = None THEN None ELSE FALSE]

\* push of one letter, nothing to do once the needle was found.
PushLetter(m, letter) ==
  LET grown == Advance(needle, PrefixTable(needle), m.matched, letter)
  IN  IF m.met # FALSE THEN m
      ELSE [m EXCEPT !.matched = grown, !.met = (grown = Len(needle))]

Push(m, piece) ==
  LET pushed[i \in 0..Len(piece)] ==
        IF i = 0 THEN [m EXCEPT !.nonBlank = @ \/ \E k \in DOMAIN piece : piece[k] # Blank]
        ELSE PushLetter(pushed[i - 1], piece[i])
  IN  pushed[Len(piece)]

-----------------------------------------------------------------------------
(* The attempts.                                                           *)

\* failed_attempt
Failed(stage, status, at) ==
  [success |-> FALSE, status |-> status, headers |-> at, ttft |-> None, e2e |-> clock,
   tokens |-> None, rate |-> FALSE, met |-> None, failure |-> stage]

\* The plausible token counts.
Plausible == 1..MaxTokens

\* output_token_rate: there is one.
HasRate(count, first, last) ==
  count # None /\ first # None /\ count >= 2 /\ last > first

\* finish_attempt, on what was parsed.
Finished(m, first) ==
  LET kept == IF tokens \in Plausible THEN tokens ELSE None
  IN  IF ~m.nonBlank THEN Failed("emptyOutput", 200, headers)
      ELSE [success |-> m.met # FALSE, status |-> 200, headers |-> headers,
            ttft |-> first, e2e |-> clock, tokens |-> kept,
            rate |-> HasRate(kept, first, clock), met |-> m.met,
            failure |-> IF m.met = FALSE THEN "expectation" ELSE None]

Done(result) == attempt' = result /\ pc' = "done"

Init ==
  /\ stream \in BOOLEAN /\ needle \in Needles
  /\ pc = "send" /\ clock = 0 /\ headers = None
  /\ matcher = NewMatcher(needle)
  /\ finish = FALSE /\ tokens = None /\ ttft = None /\ attempt = None
  /\ content = <<>> /\ ended = FALSE

Tick ==
  /\ pc # "done" /\ clock < MaxTime
  /\ clock' = clock + 1
  /\ UNCHANGED <<stream, needle, pc, headers, attempt, bodyVars>>

\* No connection, no answer in time.
SendFails ==
  /\ pc = "send"
  /\ Done(Failed("transport", 0, None))
  /\ UNCHANGED <<stream, needle, clock, headers, bodyVars>>

Headers ==
  /\ pc = "send"
  /\ headers' = clock /\ pc' = "body"
  /\ UNCHANGED <<stream, needle, clock, attempt, bodyVars>>

HttpFails ==
  /\ pc = "send"
  /\ headers' = clock
  /\ Done(Failed("http", 500, clock))
  /\ UNCHANGED <<stream, needle, clock, bodyVars>>

-----------------------------------------------------------------------------
(* The body.                                                               *)

Event == pc = "body" /\ stream

First(piece) == IF ttft = None /\ piece # <<>> THEN clock ELSE ttft

\* delta.content
ContentEvent(piece) ==
  /\ Event /\ Len(content) + Len(piece) <= MaxContent
  /\ content' = content \o piece
  /\ matcher' = Push(matcher, piece) /\ ttft' = First(piece)
  /\ UNCHANGED <<stream, needle, pc, clock, headers, finish, tokens, attempt, ended>>

\* delta.reasoning, delta.reasoning_content: time, but no content.
ReasoningEvent(piece) ==
  /\ Event
  /\ ttft' = First(piece)
  /\ UNCHANGED <<stream, needle, pc, clock, headers, matcher, finish, tokens, attempt,
                 content, ended>>

FinishEvent ==
  /\ Event /\ ~finish
  /\ finish' = TRUE /\ ended' = TRUE
  /\ UNCHANGED <<stream, needle, pc, clock, headers, matcher, tokens, ttft, attempt,
                 content>>

\* Usage, in a stream or before the parsed part of a JSON value.
Usage(n) ==
  /\ pc = "body" /\ tokens = None
  /\ tokens' = n
  /\ UNCHANGED <<stream, needle, pc, clock, headers, matcher, finish, ttft, attempt,
                 content, ended>>

\* [DONE]
DoneEvent ==
  /\ Event
  /\ ended' = TRUE
  /\ Done(Finished(matcher, ttft))
  /\ UNCHANGED <<stream, needle, clock, headers, matcher, finish, tokens, ttft, content>>

\* The stream ends.
Eof ==
  /\ Event
  /\ Done(IF finish THEN Finished(matcher, ttft) ELSE Failed("protocol", 200, headers))
  /\ UNCHANGED <<stream, needle, clock, headers, bodyVars>>

\* A JSON value, with its text in two pieces or fewer.
JsonBody(first, second) ==
  /\ pc = "body" /\ ~stream /\ Len(first) + Len(second) <= MaxContent
  /\ content' = first \o second /\ ended' = TRUE
  /\ matcher' = Push(Push(matcher, first), second)
  /\ Done(Finished(matcher', None))
  /\ UNCHANGED <<stream, needle, clock, headers, finish, tokens, ttft>>

\* Larger than the limit, not UTF-8 or JSON, an error object, no single choice.
BadBody ==
  /\ pc = "body"
  /\ Done(Failed("protocol", 200, headers))
  /\ UNCHANGED <<stream, needle, clock, headers, bodyVars>>

\* The connection breaks or the timeout strikes within the body.
BodyFails ==
  /\ pc = "body"
  /\ Done(Failed("transport", 200, headers))
  /\ UNCHANGED <<stream, needle, clock, headers, bodyVars>>

Next ==
  \/ Tick \/ SendFails \/ Headers \/ HttpFails
  \/ FinishEvent \/ DoneEvent \/ Eof \/ BadBody \/ BodyFails
  \/ \E piece \in Pieces : ContentEvent(piece) \/ ReasoningEvent(piece)
  \/ \E n \in 0..(MaxTokens + 1) : Usage(n)
  \/ \E first, second \in Pieces : JsonBody(first, second)

Spec == Init /\ [][Next]_vars

-----------------------------------------------------------------------------
(* The offline rules for a saved attempt.                                  *)

\* validate_saved_completed_attempt; the rollout rules have the same.
CompletedCanonical(a, success) ==
  /\ a.status = 200 /\ a.headers # None /\ a.e2e # None
  /\ stream => a.ttft # None
  /\ a.met = IF needle = None THEN None ELSE success
  /\ ~success => needle # None /\ a.failure = "expectation"

TimesOrdered(a) ==
  /\ a.headers # None => a.headers <= a.e2e
  /\ a.ttft # None => a.ttft <= a.e2e
  /\ ~stream => a.ttft = None /\ ~a.rate

NothingKept(a) == a.ttft = None /\ a.tokens = None /\ ~a.rate /\ a.met = None

\* validate_saved_output_rate_shape
RateShape(a) ==
  a.rate <=> /\ stream
             /\ a.tokens # None /\ a.tokens >= 2
             /\ a.ttft # None /\ a.e2e > a.ttft

\* validate_saved_attempt
SaturationAccepts(a) ==
  /\ TimesOrdered(a)
  /\ a.tokens \in Plausible \cup {None}
  /\ a.success <=> a.failure = None
  /\ RateShape(a)
  /\ CASE a.success -> CompletedCanonical(a, TRUE)
       [] a.failure = "transport" -> a.status = 0 /\ a.headers = None /\ NothingKept(a)
       [] a.failure = "http" -> a.status = 500 /\ a.headers # None /\ NothingKept(a)
       [] a.failure \in {"protocol", "emptyOutput"} ->
            a.status = 200 /\ a.headers # None /\ NothingKept(a)
       [] a.failure = "expectation" -> CompletedCanonical(a, FALSE)

\* validate_attempt
RolloutAccepts(a) ==
  /\ TimesOrdered(a)
  /\ a.rate => stream /\ a.ttft # None /\ a.tokens # None /\ a.tokens >= 2
  /\ a.success <=> a.failure = None
  /\ CASE a.success -> CompletedCanonical(a, TRUE)
       [] a.failure = "transport" -> a.status = 0 /\ NothingKept(a)
       [] a.failure = "http" -> a.status = 500 /\ NothingKept(a)
       [] a.failure \in {"protocol", "emptyOutput"} -> a.status = 200 /\ NothingKept(a)
       [] a.failure = "expectation" -> CompletedCanonical(a, FALSE)

-----------------------------------------------------------------------------
(* Properties.                                                             *)

Found == needle \in SubSeqs(content)

\* The expectation is met exactly when it occurs in the text generated so
\* far, however the text was cut into events: the prefix table loses no match
\* and reasoning makes none ("must never satisfy the configured
\* final-content expectation").  And a success is earned: the endpoint
\* announced the end of a text that is not blank and contains the
\* expectation; a stream that just ends is no success.
SuccessIsEarned ==
  /\ needle # None => (matcher.met = TRUE <=> Found)
  /\ attempt # None /\ attempt.success =>
       /\ ended
       /\ \E i \in DOMAIN content : content[i] # Blank
       /\ needle # None => Found

\* The rules for saved attempts accept what the client produces, whatever the
\* endpoint does, with one exception: a body that breaks off.
CanonicalUnlessCut ==
  attempt # None =>
    LET cut == attempt.failure = "transport" /\ attempt.headers # None
    IN  /\ SaturationAccepts(attempt) <=> ~cut
        /\ RolloutAccepts(attempt) <=> ~cut

\* What the client records can be relied on twice: when it is counted, and
\* when its report is read back by another run.
AttemptIsSound == SuccessIsEarned /\ CanonicalUnlessCut

\* Every saved attempt "must be coherent": an attempt the client recorded is
\* one the rules for saved attempts accept.
AttemptsCoherent == attempt # None => SaturationAccepts(attempt) /\ RolloutAccepts(attempt)
=============================================================================
