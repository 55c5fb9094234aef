# gpu-watchman in TLA+

This directory is the formal model of gpu-watchman: TLA+ modules translated
from the Rust source, TLC configurations that check them on small instances,
and TLAPS proofs of the properties that hold for every value of the constants.
`PROJECT.json` is the machine-readable index: the components, the runs, the
map from each definition to the source lines it stands for, the hazards, the
findings, the theorems, and for every checked property a seeded fault it
catches.

    tlc -workers 2 -config MCExporterSafety.cfg MCExporter      # one run
    tlapm ExporterProofs.tla                                    # one proof module

The source is the reference. Where a document says something else than the
code, the model follows the code and the document's claim is checked as a
property of its own (see *Findings*).

Contents: [the system](#the-system), [hard behaviours](#hard-behaviours),
[modules](#modules), [runs and bounds](#runs-and-bounds),
[fairness](#fairness), [proofs](#proofs), [findings](#findings),
[plan](#plan), [what is not modelled](#what-is-not-modelled).

## The system

gpu-watchman is one binary. A monitor loop collects reports and hands them to
sinks; one of the sinks is a small HTTP server with threads of its own. Beside
it stand one-shot commands: synthetic load on an inference endpoint (canary,
saturation benchmark), comparison of saved reports, planning and diagnosis.
Almost all of the program is sequential. The concurrency is in five places:
the exporter, the workload executor, the command runner with its pipe readers,
the scoped threads of collectors and probes, and the signal handler. Beyond
the process, files are written while they are read and processes come and go
while they are inspected.

| Component (source under `src/`) | State | Operations | Interacts with | Correct when |
| --- | --- | --- | --- | --- |
| **HTTP exporter** `presentation/server.rs` | connection queue and its closed flag, per-peer admission counts, registry of live streams, last report and success time, stop flag | start (spawn workers and acceptor), accept / admit / push, pop / register / read / respond / release, set the report, drop | monitor loop publishes and owns it; kernel and clients | limits hold, every permit returns, no lost wake-up, a response shows one snapshot, Drop returns and leaves nothing behind |
| **HTTP request reading and routing** `presentation/server.rs` | bytes read, deadline | read a request within size and time, check host and bearer token, route, answer | exporter's workers | a request is judged for what it is however it arrives, every connection ends |
| **Workload executor** `operations/workload.rs` | start gate (ready count, started, cancelled), per worker results and panic | execute a batch: spawn, gate, run ranges, join, merge | canary and saturation call it; invocations are HTTP requests | every index once, nothing runs when refused, no deadlock at the gate, the lowest panic reported, the measured interval spans the batch |
| **Command runner** `telemetry/command.rs` | child and its group, two pipe readers, deadline | run | NVIDIA collector, doctor | ends by its deadline, what is returned is complete |
| **NVIDIA collector** `telemetry/nvidia.rs` | topology cache | inventory, four tasks side by side, merge | command runner, health | a failed source is shown as such, never as zero |
| **Health analyzer** `analysis/health.rs` | none | analyze, finalize | report | the status follows the findings, nothing required is hidden |
| **Monitor lifecycle** `application/monitor.rs`, `lib.rs` | running flag, failure streak, last error, repetition count | cycle: collect, filter, publish, append, print, gate, wait | collectors, tracker, exporter, history file, stdout, signals, service manager | sinks agree, exit codes follow the policy, a transient failure does not end a monitor, a signal does |
| **Process trend** `analysis/trend.rs` | last memory sample per (GPU, PID) | observe | collect_cycle, report findings | baseline is the last report's sample, findings exact |
| **Endpoint rates and histograms** `analysis/trend.rs`, `domain/report.rs` | last counter sample and histogram per redacted URL | observe_endpoints, interval | probes, report | no negative or fabricated rate, an interval is a distribution |
| **Inference probes** `inference/probe.rs` | results by index, within one cycle | admit targets, batches of threads, bounded parse | rates, histograms, report | each endpoint is what its own server answered, the token stays at one origin |
| **History** `operations/history.rs` | the NDJSON file | append; read, validate and aggregate | monitor; `history` command | the file only grows, a summary is that of a prefix of it |
| **OpenAI client** `inference/openai.rs` | parsed completion: matcher, TTFT, usage, finish reason | execute one request | workload executor; the endpoint | a success is earned, the evidence is coherent |
| **Canary** `operations/canary.rs` | attempts of one batch | admit, run, summarize, gate | client, executor, rollout | the status is earned, the saved report is accepted later |
| **Rollout decision** `operations/rollout.rs` | none | validate two canary reports, compatibility, gates | saved canary reports | the verdict is the meaning of the thresholds |
| **Saturation benchmark** `operations/saturation.rs` | warmups and stages so far, abort reason | admission, ladder, gates, assessment, verification, reconstruction of a saved report | client, executor, comparison | traffic bounded, guard stops the ladder, verdict backed by evidence, damaged reports refused |
| **Benchmark comparison** `operations/saturation_compare.rs` | none | compatibility, gates, status | saved benchmark reports | missing evidence never passes and is no regression |
| **Report comparison and input** `operations/compare.rs`, `report_input.rs` | none | load, match cards, endpoints, findings | saved reports | what is compared was in the file; nothing wears off in steps |
| **Runtime fingerprint** `telemetry/runtime.rs` | none | five reads under `/proc` between two identity checks | `runtime inspect` | no mix of two processes under one PID |
| **Artifact inspector** `planning/artifact.rs` | shard table | validate header, offsets, index, shards | capacity | what is reported was there, every byte accounted for |
| **Capacity planner** `planning/capacity.rs`, `model_config.rs` | none | merge inputs, validate, place on ranks | artifact report | a model that is told to fit does, in every placement |
| **Configuration and command line** `config/`, `application/mod.rs` | none | load a document, select a profile, validate, merge with arguments and environment, refuse | every command | each setting comes from the layer that may decide it |
| **Doctor, bundle** `operations/` | none | linear sequences of checks and file operations | command runner, files | not modelled |
| **Renderers, metadata of processes and host** `presentation/`, `telemetry/` | none | formatting, reads of single files | all | not modelled |

## Hard behaviours

`PROJECT.json` lists every hazard at its line with the properties that would
catch it. In groups:

- *Interleavings of the exporter.* A push races the test that precedes a wait;
  a worker pops before the queue is closed and registers its stream after the
  registry was; a stream must be closed before its permit is given back; the
  queue is drained under its mutex while the acceptor tests the counts.
- *Requests in pieces.* A CR at a limit with its LF in the next piece, a
  client that trickles, system calls that are interrupted.
- *The start gate.* A thread that cannot be created after others wait at the
  gate; one condition variable for caller and workers; panics in the middle of
  a range.
- *Children.* A helper process that inherits the pipes, stays in the group or
  leaves it, and outlives the command; a kill program that fails.
- *The life of a monitor.* A signal, a crash, a full disk, a closed stdout or
  a vanished GPU between any two of collect, publish, append, print and gate;
  a failing collector with back-off; a restart by the service manager into
  the same history file.
- *Time and identity.* The wall clock steps back between samples; a server
  restarts and its counters with it; PIDs are used again; a process executes
  another program; a card falls off the bus between two queries.
- *Partial answers.* A query without the row of one card, a scrape that is cut
  off, a histogram with a line lost or doubled, series that come and go.
- *Streaming.* Text arrives cut anywhere; the end may be announced, missing or
  lost with the connection; reasoning is time but not content.
- *Files that change while they are read.* A history that is appended to, torn
  and rotated; a report that is written over; shards that are replaced.
- *Evidence that outlives its run.* A saved benchmark or canary is judged
  again by rules that must agree with the code that wrote it.
- *Rules written twice.* Profiles are validated before the layers are merged,
  the merged settings after; reports are gated when written and when compared.

## Modules

A module models a component; an `MC` module gives its constants their values.
Where several components are small and share no state they are explored in one
run: the `MC` module instantiates them side by side, and its variable `part`
picks the one that moves, so that the state spaces add up instead of
multiplying. The others stay in one initial state.

### Exporter, BoundedServer, ExporterProofs

`Exporter` models `presentation/server.rs` at the grain of its critical
sections: each action of the acceptor (`A...`), a worker (`W...`) or the owner
(`O...`) is what one thread does between two points where another may act.
`apc`, `wpc` and `opc` are the places of the threads, `ac` and `wc` the
connections in their local variables. `queue`, `closed`, `qlock` are
`ConnectionQueue` with its mutex, held over several steps only by `close`,
which drops the queued connections one at a time; `counts` and `permits` are
`Admission` and the `AdmissionPermit` values alive; `streams`, `activeClosed`
are `ActiveConnections`; `lastSuccess` and `report` are the two fields of the
published state. `sock` is what the kernel knows of a stream. Condition
variables lose notifications nobody waits for and wake spuriously. Start
failures, accept errors, registration failures and every error of a handler
are actions. Requests and responses are the paths they make a worker take.

`BoundedServer` is what the exporter promises without threads: admission below
two limits, every admitted connection finishes, and nothing is admitted after
the owner has the server back. The refinement maps the admitted connections to
the permits and the phase to the owner's place.

### HttpRequest, proved in ExporterProofs

`handle_connection`, which `Exporter` takes as the steps *read* and *respond*
of a worker: the request arrives in pieces of at most `Chunk` bytes under one
absolute deadline, is tested against the three size limits after each, parsed,
checked for its token or its host, routed and answered in pieces under another
deadline. The client waits, closes or leaves the answer unread; reads and
writes are interrupted; the monitor publishes and the wall clock is set back
meanwhile. A byte is CR, LF, a filler or a word that carries the meaning of
its line. Health of a report is told by its age and by how far the clock was
`behind`: 200 from `healthz` allows for what the clock was set back, as the
code cuts a negative age to zero. At exactly the deadline the read is given no
time and the connection is dropped without the 408 it would have had just
before; the model has both.

### Workload, Batch, WorkloadProofs

`Workload` is `execute_batch` with `StartState` and its condition variable:
the caller spawns slot by slot, each spawn may fail, workers stand at the
gate, run their `worker_range`, survive panics of single invocations, and are
joined in slot order. `Batch` is the promise without threads: either nothing
runs and the call is refused, or every index runs once and the call returns
all results in order or the lowest panic. A panic outside an invocation
(workload.rs:162) needs an allocation failure or a poisoned gate and is left
out: nothing in a worker can panic there.

### CommandRun, CollectionProofs

`telemetry/command.rs::run`: a child in a process group of its own, which may
start a helper that inherits its pipes, stays in the group or leaves it and
outlives the child; two threads that drain the pipes; and the caller, which
waits, collects both streams and, when the deadline passes, the wait fails or
a reader ends with an error, kills what is left. That is two steps. `Sweep` is
the external kill program: it ends everybody in the group, or it is absent or
fails and nobody looks. `Reap` is the fallback, the child alone by its handle.
`swept` remembers which of the two it was. Output is counted in units, and
`text` says whether it is UTF-8. A group is the processes in it; that the code
names it by number after its leader was reaped is a hazard no model of this
code alone can settle.

### Collector, Health, proved in CollectionProofs

`Collector` is the collection of one report in `telemetry/nvidia.rs`: the
inventory, then four tasks side by side, each of which says how far it got,
merge, the topology kept from cycle to cycle, and the health rules on top.
Every query answers for the cards there are *when it runs*: all, without the
row of one, with a row malformed, or not at all. A row may also count although
its value is blank, `N/A` or no number: the code takes an unreadable number of
retired pages for none and an unreadable throttle reason for inactive, and so
does `Optional` (`Readable`). `Health` is the rules of
`analysis/health.rs` as operators: findings, source policy, status.

### Monitor, MonitorProofs

`Monitor` is `application/monitor.rs::run`, one action per step of the loop:
`LoopStops`, `Collect` with the GPU filter, `CollectFails`, `Publish`,
`AppendHistory`, `PrintReport`, `Gate`, `StartWait`, `WaitSlice`, `Sleep`. A
wait is slices of sleep with a look at the signal before each; `late` counts
those slept to their end after one came. The signal
handler (`Signal`), `Crash` and the service manager (`Restart`, after
`Restart=on-failure`) act between any two. A write of the history may fail in
the middle of a record (`torn`), and the next append continues that line. A
report is its GPUs, the findings by GPU and severity, and whether a required
source failed; errors are model values. A collection is one step, because the
loop does nothing else meanwhile; only the signal flag can change, and `Signal`
is enabled before and after it.

### ProcessTrend, EndpointRates, TrendProofs

The two halves of `Tracker`. In `ProcessTrend` processes start, exit,
allocate and come back under the same key while the wall clock steps in either
direction; `log` is the history a property compares with, never read by an
action. In `EndpointRates` a server serves and restarts; a scrape may fail,
miss the family, or be cut off by the sample limit; `base` is the ghost that
remembers what each target had really served. One counter stands for all: the
code passes each through `monotonic_delta`.

### Histograms, proved in CollectionProofs

The latency distribution of an interval, from the lines of a body to the
quantiles: `parse_metrics_bounded` and `HistogramAccumulator` gather series by
series, `RuntimeHistogram` of `domain/report.rs` aggregates and differences,
the tracker keeps the last. Lines are missing, repeated or malformed, in
either order; series come and go; the server restarts. A body has a place for
each cell and `Absent` where the line of a cell is not there. A body is rendered
atomically and its values are honest. A restart that cannot be told from the
counts only bounds the samples reported.

### Probes, proved in CollectionProofs

`collect` and `collect_one` of `inference/probe.rs`: the targets are checked
together (form, transport, one origin for a token, budget), then probed in
batches of scoped threads that share one client and write their results by
index. Each server answers in its own time, whole, too large or broken off. A
thread that trickles holds its batch, and with it the cycle, until the
client's timeout; the fallback for a result that is missing (probe.rs:401) is
in the model and never taken.

### Completion, proved in SaturationProofs

One request of `OpenAiClient`. The environment chooses when headers, events,
usage, the finish reason, `[DONE]`, the end of the stream or an error arrive;
text is a sequence of letters, one of them white space, cut into events in
every way. `Fallback`, `Advance`, `PrefixTable` and `PushLetter` are the matcher
with its prefix table; the JSON path parses one body. `SaturationAccepts` and
`RolloutAccepts` are the offline rules for a saved attempt. `content` and
`ended` are ghosts. Byte and letter are the same here: the needle and the text
are both UTF-8, in which no character starts within another.

### Canary, Rollout, RolloutProofs

`Canary` is a plan's admission, one batch (one step, see `Workload`, of
attempts as `Completion` allows them), summary, gates and report, and the
rules of `operations/rollout.rs` by which the saved report is accepted.
An attempt whose content was not what was expected keeps its times, tokens and
rate, every other failure loses them (`Completed`, `Discarded`), and a success
may lack tokens or rate. `Damage` edits a report in ten ways. A report is not
read back as it was written: serde_json without `float_roundtrip` parses some
numbers as a neighbour, and the success percentage is compared bit by bit.
`Blurred` is the set of counts of whose percentage that is so, any set in the
proofs; 11 of 12 is the smallest real case. `Rollout` extends it: a report is kept as
the baseline, another canary runs, and the two are compared in either order
under a set of thresholds. Fractions are compared crosswise, times are ticks
of half a millisecond, so that rounding to whole milliseconds shows. A
distribution is of the values by the index of their request; the code sorts a
list of the same values, of which a nearest rank is the same. `Told`,
`WithinTime` and `KeepsRate` state what a gate is about without any rank: which
requests lie within which of the others' times.

### Saturation, SaturationCompare, SaturationProofs

`saturation::run` with admission, ladder, abort guard, gates, assessment,
verification and exit code, followed by the life of the saved report: `ReadBack`
is its reading from JSON, after which an error percentage may no longer be
that of its counts (`Blurred`, as in `Canary`; 2 failures of 13 is the smallest
real case), `Damage` replaces it by one that lost its end or holds edited
evidence, and `Accepts` is `validate_report_semantics`. A batch is one step, justified by `Workload`;
an attempt is its success, ticks, tokens and whether its body broke off,
justified by `Completion`. The latency gates on TTFT and on end-to-end time go
through the same `latency_gate`, so one stands for both. Percentages and rates
are compared by cross-multiplication; the code compares floating-point
quotients, which can differ from the exact comparison only by rounding at the
threshold itself. Admission keeps the products that bound traffic and time;
those for tokens and bytes have the same form and are left out, as is the
tolerance of the reconstruction for the last bits of floating-point means.

`SaturationCompare` extends it with a second run and the comparison of the two
saved reports under a policy: preconditions (the same plan but for the
concurrency to verify, which the code does not compare), four gates per stage,
the stages' own verdicts, the status.

### ReportCompare, ReportInput, ReportInputProofs, History

`ReportCompare` is the comparison of monitoring reports as operators over any
two of a chain of reports. `ReportInput` loads a report that someone else
appends to, truncates or writes over between its open, its two looks at the
metadata and its read; `strict` tells the reader that looks twice from the one
that does not. `History` is the file of a monitor: records reach it in one
write or in two of which the second may never come and the first may be all
but the newline, from monitors that do not know of each other, and the
analysis reads line by line while it is appended to and rotated. The last line
is read without its newline if it has none yet; it is a record when it parses,
and what is appended to it later is the next line. A record is finalized by
the rules of `Health` in its summary and status.

### Artifact, Capacity

`Artifact` inspects a safetensors file, or the shards an index names, step by
step while another program may replace any of them or write into them. A shard
is what its header says and how many bytes follow, the index its length, its
total and its weight map, each with the time of its change. The index is read
in two pieces (`ReadIndex`, `ReadBody`) and believed only after it was read a
second time (`CheckIndex`), like the header of a shard; each second reading is
one step. Names do not appear or vanish meanwhile. Sums and products are
`checked` at the largest word. Two writes within one tick of the file
system's clock could pass the comparison of metadata: the bound `MaxWrites` of
one leaves that out, and the code cannot see it. `Capacity` is
`run_capacity`: geometry from the arguments and from `config.json` with its
aliases, evidence of an artifact report, validation, the worst rank under
pipeline, tensor, data and expert parallelism with upper bounds on what one
rank holds, and the verdict. Memory is counted in millionths of a byte, so
that the percentages are exact; the rounding of floating point is left out.

### Fingerprint, proved in TrendProofs

The five reads of a process (stat, cmdline, maps, cmdline, stat) through a
descriptor of its directory while processes execute other programs, end and
have their numbers taken by others, the reduction of a command line to typed
launch options, of the mappings to libraries, and the driver's evidence from
two files. A flag takes the whole next word as its value, an equals sign in it
or not. `pins` says whether the descriptor stays with the process it was
opened for, as the kernel does, or follows the number: the checks hold in
either case. A process that executes B and then A again between the reads can
mix evidence of A and B; the start time does not change by that and the
property excludes it by name.

### Settings, proved in MonitorProofs

What a command starts with: the document (missing, malformed, with a default),
the selected profile and its validation, the command line, the environment
with its precedence for credentials, the merge by `application/mod.rs`, and
every refusal before anything is collected, served or sent. Commands: `serve`,
`snapshot` (`top` resolves its settings the same way), `canary`, `benchmark`,
and `history` for those that know no profile. Values are small: an address is
local or remote, a credential a text or a file. One option stands for those
that the same expression resolves. Paths are told apart by the layer they are
relative to; the output of `config show` and `ps` are left out. An operator
may label a prompt of his own with the identity of the built-in one: the code
takes his word and so does the property.

## Runs and bounds

| Run | Question | Instance and why it is enough |
| --- | --- | --- |
| `exporter_safety` | limits, ownership of permits, snapshots, shutdown | three connections of one peer and two of another, two workers, queue of one, two per peer: five connections exceed the total of four and three exceed the peer limit; two workers are needed for one to wait while another pops. Connection identities are reused, so behaviours are unbounded. Symmetry in connections of a peer and in workers, with invariants only. |
| `exporter_live` | Drop returns, permits return, the backlog drains, refinement of `BoundedServer` | two connections of one peer, no symmetry: both workers busy and every close path |
| `workload` | start gate, exactly-once, panics, duration, refinement of `Batch`; external commands; requests | batches of up to 4 over up to 3 workers: uneven ranges, more workers than work, zero of each, a spawn failing at every slot, panics in every subset. Commands: pipes of one unit, output of up to three of which two are retained, a helper, every failure of a reader, the wait and the kill program. Requests: seventy, at, below and above each limit (lines of 2 bytes, headers of 11 and 2 of them), in pieces of up to 3 with a CR at the end of one, complete or broken off after every byte; two ticks to read, one to write, answers of two units, reports of age up to 3 with freshness 1 |
| `telemetry` | a healthy report hides nothing; baselines, findings, rates and distributions over clocks that step back and servers that restart | two cards and two cycles with one change between any two queries, partial answers to the required source only, values that cannot be read in every set of rows; two processes and two endpoints, three samples, ticks of 500 ms (the smallest interval) and steps of both signs: growth needs two samples, a reappearance three; two series, two finite buckets and an open one, three observations, damage to the second line of one series; the clock of the endpoints runs for two ticks |
| `rates_truncated` | a documented promise the code breaks | one endpoint, scans full or cut off |
| `monitor` | sinks, exit codes, back-off, signals, crashes and restarts | twelve argument sets (snapshot, top, serve; with and without selection; three policies), four reports, two errors, three cycles, two starts; the third cycle is the first in which the delay is capped and an error can return after a recovery |
| `monitor_history` | a documented promise the code breaks | one service with a history file |
| `saturation` | admission, guard, verdicts, reconstruction, comparison; the client; the probes | twenty plans: ladders to three workers, one or two requests, strict and lenient guards, each gate on and off, each verified stage, and six inadmissible plans, one per admission rule; five kinds of attempts, one percentage that is parsed as another, the minimum sample count lowered from 20 to 2 so that it is met by one stage and missed by another; comparisons of the smallest plans, one of them with a stage to verify, under five policies. Client: texts of up to 4 letters over {a, b, blank} in pieces of up to two; needles with and without borders, one with white space; every place where a match may fall back occurs with three-letter needles. Probes: up to four targets of four URLs (limit three), batches of one and two threads, a budget of two bodies |
| `completion_cut` | a documented promise the code breaks | the same client |
| `release` | canary gates, rollout verdict, monitoring gate, loading, history | plans within and beyond every limit, seven kinds of attempts, two requests, one percentage that is parsed as another, ten damages; five sets of thresholds, at and beside a boundary; chains of three reports that differ in one respect; two records of two halves, two writes and a clock slower than they are; two monitors, three writes (a record whole, in two parts, or all but its newline), one rotation, and a blank, an older or an edited line there before |
| `history_refused` | a documented promise the code breaks | one monitor, one endpoint with a negative gauge |
| `planning` | inspection, capacity plan, fingerprint, settings | artifacts of two tensors and shapes with zero, with none and with a product beyond the largest word (60), every index over two shards, one write to a shard or the index between any two steps; three more arguments than a model's, four ranks; two processes, two changes, thirteen programs; two options more, on any layer, than an empty, a remote or a custom profile |

Every property has a mutant: a seeded fault of the kind a change could
introduce (the operator above the one it replaces, marked *Seeded fault*), by
which TLC finds the property violated on the same instance. Constants whose
name begins with `Max` and that no constant of the code has are bounds of the
models, marked as such where they are declared.

The `MC` modules narrow some parts further, where a step cannot matter: each
restriction is an operator with a comment (`CollectorNext`: only the required
source answers in part and only in the last cycle, since nothing but the
topology outlives one; `LadderNext`, `RolloutStep`, `HistoryStep`,
`ArtifactNext`, `PlanNext`, `RuntimeNext`, `CallNext`).

Deadlock is checked in `exporter_*` and `workload`, whose only stuttering
action is the end of the program. The other models stop at their bounds or
when the one operation they describe is over.

### What the properties say

- *Exporter.* `CountsMatchPermits`: the admission table counts exactly the
  permits alive. `PeerLimit`: the limit holds for the open streams themselves.
  `ShutdownReachesHandlers`: no handler keeps a live stream after shutdown,
  whenever it registered. `NothingOutlivesOwner`, `SnapshotsAtomic`. Temporal:
  `DropReturns`, `BacklogDrains`, and `ImplementsBoundedServer`, which says
  that the total stays below workers, queue and one, that every admitted
  connection finishes and that nothing is admitted once the owner has returned.
- *Requests.* `AnswerExact`: refused for its size exactly when it exceeds a
  limit, however it is cut, and for a lack of time only while what was read is
  neither complete nor beyond a limit; shown to the token or the bound host alone; 200
  from `healthz` vouches for a fresh report. `ConnectionEnds`.
- *Workload.* `MeasuredBatch`: every index once, nothing before the gate opens,
  and the duration spans the batch and no more. `ImplementsBatch`: a refused
  batch ran nothing, the call reports all results in order or the lowest
  panic, and it returns.
- *Commands.* `CommandResultIsSound`: a success is all the output of a command
  that ended well; the child is always waited for, and who is left of a command
  ended by force left its group or the kill program failed. `CommandNeverStuck`: every command is answered, and
  none waits for ever on a full pipe.
- *Telemetry.* `AllClearIsEarned`: a healthy report that requires a source hides
  no card, process or link from its reader, save a value the driver's row did
  not tell. `BaselineIsLastSample`,
  `FindingsExact`. `RateNeverFabricated`: every rate is positive time and no
  more work than the endpoint did since its own last sample.
  `IntervalIsDistribution`: a distribution holds the requests of its interval
  and no other, and each quantile lies in the bucket of its rank.
- *Monitor.* `SinksAgree` (also with the selection), `ExitFollowsPolicy`,
  `FailureTold` (stderr names the current error, and the wait stays within its
  bounds); `ContinuousKeepsGoing` is an action property, `SignalEnds` temporal: a
  signal ends the process, and a wait of up to 30 s no later than the slice of
  sleep it finds it in.
- *Clients.* `AttemptIsSound`: the matcher agrees with substring search on the
  whole text, a success is a whole answer, and both offline rules accept what
  the client records, a broken body excepted. `ProbesExact`: every target is
  asked once and gets its own answer, the token stays at one origin, bodies
  within the budget.
- *Saturation.* `TrafficBounded`: requests and time stay within what was
  admitted; `AbortStopsTraffic`: no request after a phase that reached the
  guard; `VerdictEarned`: exit 0 vouches for completion and evidence, no
  aborted stage is accepted, a stage without success is a signal;
  `ReconstructionExact`: the offline rules accept the report that was written,
  if no response broke off and no error percentage is parsed as another number,
  and no damaged one; `ComparisonEarned`: pass and
  regression only on evidence both sides have.
- *Release.* `StatusIsEarned`, `RolloutVerdictExact` (against the meaning of
  the thresholds: 95 % of the requests within a percentage of the time),
  `GateComposes`, `LoadedWasWritten`, `AnalysisIsPrefix`.
- *Planning.* `ReportIsEvidence` (what is reported was there and the planner
  takes it), `PlanExact` (against the enumeration of all placements),
  `FingerprintSound`, `SettingsSound` (the credential comes from the nearest
  layer, exposure is asked for, prompt, identity and expectation belong
  together, thresholds are ordered, a refusal has a cause).

## Fairness

- *Exporter.* Weak fairness of the acceptor, of each worker and of the owner's
  steps inside start and Drop: threads are scheduled, and reads and writes of
  a handler end because their deadlines are absolute (server.rs sets one per
  connection; `ConnectionEnds` shows it in detail). Strong fairness of
  `accept` producing the next connection while one waits, since an interrupted
  accept is retried. Nothing is assumed of clients, of the monitor loop (it
  may never publish or stop), or of failures.
- *HttpRequest.* Weak fairness of the worker and of time. Nothing of the
  client: it may send or take a byte just before each deadline, or nothing.
- *Workload.* Weak fairness of the caller and of each worker. That an
  invocation ends is part of it: invocations are requests with a timeout.
- *CommandRun.* Weak fairness of the caller, of each reader and of the
  deadline. Nothing of the child or its helper, which may run for ever. The
  caller's steps include the kill program and the wait for a killed child,
  which have no deadline of their own in the code: that they end is assumed.
- *Monitor.* Weak fairness of the loop's own step. Commands and probes have
  deadlines; a write to a file or a pipe is assumed to end. No fairness of
  signals, crashes, restarts or recoveries.
- *Batch, BoundedServer.* The fairness they state is what the refinements show
  the detailed modules to provide.

The other runs check safety and assume no fairness.

## Proofs

TLC looks at the instances above; TLAPS proves the following for every value
of the constants that keeps the named assumptions. A proof module extends the
module it is about; where it is about further components it instantiates them
with constants and variables of its own (`Http`, `Probe`, `Collect`, `Rates`,
`Latency`, `Client`, `Runtime`, `Monitoring`, `Call`, `Analysis`), so that the
theorem states their properties as they stand. It adds no assumption, with one
exception named below. An invariant is the conjunction of named parts; each
action has a lemma or a step per part, and the properties of the runs follow
from the whole.

| Module | Stated by the theorems | For every |
| --- | --- | --- |
| `ExporterProofs` | `TypeOK`, `CountsMatchPermits`, `PeerLimit`, `ShutdownReachesHandlers`, `SnapshotsAtomic`, `NothingOutlivesOwner`, each step one of `BoundedServer` | finite sets of connections and workers, any peers and limits |
| | `AnswerExact` of a request | set of requests and of ways to cut them, any limits and deadlines |
| `WorkloadProofs` | `MeasuredBatch`, each step one of `Batch` | number of requests and of workers |
| `CollectionProofs` | `CommandResultIsSound` | pipe, limit and amount of output |
| | `ProbesExact` | set of URLs and options, number of targets and threads, any limits |
| | `AllClearIsEarned` | set of cards, of processes and links, any number of cycles and changes |
| | `IntervalIsDistribution` | set of series, bounds and names, any order of a body, any limits and observations |
| `MonitorProofs` | `SinksAgree`, `ExitFollowsPolicy`, `FailureTold`, `ContinuousKeepsGoing` | set of arguments, reports and errors, any intervals, cycles and restarts |
| | `SettingsSound` | documents, profiles, command lines and environments, any number of added options |
| `TrendProofs` | `BaselineIsLastSample`, `FindingsExact` | set of processes, any clock steps and thresholds |
| | `RateNeverFabricated` | set of targets, any counters and clock steps, whole scans and distinct keys |
| | `FingerprintSound` | set of processes and of programs, any command lines and mappings, any number of changes between the reads |
| `SaturationProofs` | `TrafficBounded`, `AbortStopsTraffic`, `VerdictEarned`, `ReconstructionExact`, `ComparisonEarned` | set of plans, of outcomes of a request and of comparison policies, any admission limits |
| | `AttemptIsSound` of one request | alphabet, needle and text, any cut into pieces, any times |
| `RolloutProofs` | `StatusIsEarned` of one canary and of all canaries of a rollout, `RolloutVerdictExact` | set of plans, outcomes and thresholds, any limits and number of samples |
| | `GateComposes` of monitoring reports | set of reports, any number of them |
| `ReportInputProofs` | `LoadedWasWritten` | set of records, any number of writes at any time |
| | `AnalysisIsPrefix` | set of monitors, records and lines found, any number of appends, torn or whole |

**Exporter.** `ExporterAssumption`: connections and workers are finite, there
is a worker, limits are positive. The strengthening of type correctness says
that the acceptor and each worker hold a connection exactly where the code has
one in a variable. The count of a peer is right after a release only if the
released permit was alive and is released once, and an open stream is within
the limit only if it has a permit; neither is inductive. `IInv` adds
*ownership*: queued connections are distinct and carry permits (`QueueOwns`),
so do those in workers, disjoint from the queue and from each other
(`WorkersOwn`), and the acceptor's, once admitted (`AcceptorOwns`); a
connection being decided about has none (`DecidingInv`); backlogged
connections are listed once and have none (`BacklogInv`); a stream that is
open has a permit or is being decided about (`SockInv`); registered streams
belong to workers (`StreamsInv`). The lemmas `AcceptorOwnership`,
`WorkerOwnership`, `OwnerOwnership` take the actions of one thread, moving a
connection from one holder to the next; `NextCounts` gets from ownership that
each acquire adds and each release removes exactly one permit of the peer.

`ShutdownInv` goes on from there. A start that failed has no acceptor and no
report (`StartInv`); the queue is closed before anything that relies on it and
no push follows (`QueueInv`); *every permit that is alive has a holder*, which
is the converse of ownership (`PermitsHeld`); the registry is closed before its
streams are shut down and what registers afterwards is shut down at once
(`ActiveInv`); a joined thread has ended (`JoinedInv`); the two fields of the
published state were written together (`SnapshotInv`). `NothingIsLeft` is then
a count: with every thread ended a permit would have no holder. The refinement
needs `PermitBound` (permits are at most one per worker, per place of the queue
and the acceptor's) and one lemma per thread that maps its steps to `Admit`,
`Finish`, `Stop` of the abstract server or to none.

**HttpRequest.** `HttpAssumption`: limits are positive, the limit of a line
with its CR LF is within that of the header, and a byte that stands for a word of
the header begins a line, as the parser reads it. The code judges what has
arrived, the property what was sent, so the lemmas relate a text to its
beginnings: lines and header end at the same places in both (`PrefixEnds`,
`FirstEnds`, `SameHeader`), and whether a beginning is refused, complete or to be
read on is what the whole request is (`PartialVerdict`, `EndVerdict`,
`WholeVerdict`, `ReadBounded`). A line of the header is found by the number of
its CR LF (`RankFacts`, `LineEndFacts`); the fold over the lines keeps a header
that is said in one of them and remembers a second one (`HeaderFacts`,
`ParseMeans`), so that what `AcceptedMeans` says of an accepted header was said
once. `HttpInv`: what was read is a beginning of the request within the limits,
no read begins when it is whole or too large, what is routed was accepted, and
what was answered is what is due.

**Workload.** `WorkloadAssumption`. The arithmetic first: `worker_range` splits
the indexes into ranges that follow each other and leave none out
(`RangesOrdered`, `RangesCover`, from a lemma on division). `GateInv` says who
may be at the gate: the count of arrivals is that of the workers past their
arrival, none runs unless all have arrived or the batch is cancelled. `RangeInv`:
a worker has run its range up to its cursor and nobody has run another's.
`TimeInv`: the clocks of the workers start with the gate. `ResultInv`: what the
join has merged covers the slots joined. For the refinement `WorkerResultInv`
and `MergedInv` say *in which order*: a worker's list is the sorted part of
its range that succeeded, the merged list the concatenation of those, the first
panic the least of all.

**CommandRun.** The invariant is conservation: what was written is in the pipe
or retained, until the limit is reached (`Conserved`); a reader is done only
when the pipe is empty and nobody is left to write (`DrainedInv`); and each
place of the caller relies on the ones before it (`RunInv`): after a kill
program that did not fail nobody is left in the group, whoever was in it.

**Probes.** Five parts: threads run only for a set of targets that was admitted
(`AdmittedInv`); those before the batch have ended and those beyond it have not
begun (`BatchInv`); each request is that of its target and of a thread that sent it
(`SentInv`); what a thread found is what its own server answered (`WorkerInv`);
and the report is a refusal or every slot with its own endpoint
(`ReturnInv`). The budget is a sum over the threads that read; `HeldBound`
bounds such a sum by induction on the size of the set (`SetInduction`, see
*Saturation*), and `HeldWithin` gets the limit from the size of a batch.

**Collector.** While no card comes or goes the inventory is that of the cards
(`CardsInv`). Then each task tells the truth of its own source: a source that is
`ok` was answered by every query and rejected no row (`ProcessesInv`), has a row
for each card of the inventory and kept what it says where it can be read
(`OptionalInv`: two sets
of the same size of which one is part of the other are equal, which is what the
count of rows in the code relies on), or has the links of the cards
(`TopologyInv`, `CacheInv` for the kept matrix). `MergedClear` goes through the
health rules: a finding that a healthy report does not have names what it does
not hide. This argument, and not the model, is where a count of rows that were
merged from several queries shows its limit (see *Findings*).

**Histograms.** `HistogramsAssumption`: bounds are finitely many and below the
open one, there is another schema to mistake a name for, and a body has a place
for each series and bucket. Everything here is a sum over a finite set, so
`PartInduction` (induction over the parts of a set, from that over sizes) gives
first that a sum has one value (`SumsExist`, `SumsUnique`), that sums of two
functions add (`SumAdds`), and that a sum can be taken under other names
(`SumRenamed`); counts over growing bounds are then cumulative
(`CumulativeFacts`). A quantile is interpolated; `QuantileFacts` follows
`histogram_quantile_seconds` through its cases, `InBucket` concludes that the
estimate lies in the bucket of the rank, `Ascends` that a higher percentage has
no lower estimate, which across two buckets needs that they are `Separated`.
The fold over the lines of a body has a value (`LineFoldExists`) and keeps what
each line keeps (`LineSteps`): every bucket gathered holds what the server had
counted for that series, under a name it gave (`FillKeeps`, `TakeKeeps`,
`ParsedTrue`). That needs of a body only that each of its lines that parses is
true, and `ScrapedTrue` shows that of every body there can be, by what was done
to it: a line is missing, moved, repeated or spoiled, but never another number.
All lines of a body have one prefix and the lines gathered one schema, so a key
is a label set and no series is in a sum twice, in whatever order its labels
were. The inductive invariant says of the sample
that the tracker keeps that *it was true of some counts the server had*, from
which, unless it restarted, the present ones differ by exactly what was
observed since (`SampleInv`). `IntervalTold` is the step: the difference series
by series of two true samples of the same series is what each observed, and
its aggregate is the distribution of all. That totals would not do is what the
mutant of the property shows.

**Monitor.** `FilteredFacts` says what the GPU filter leaves of a report,
`DelayFacts` that the back-off grows and stays below its cap. `CycleInv`: a
report is at work exactly between collection and gate, and ends the streak;
`ToldInv`: the last error is the one told as long as a streak lasts; `SinkInv`:
which sinks have the current report at which place; `PassedInv`: what was
printed before the gate was passed. `ExitFollowsPolicy` is the rest of it.

**Settings.** `SettingsAssumption`: options have the types their parser gives
them, and the values for an option left out, cleared or built in differ from
every other. Each phase leaves evidence for the next. `AskedInv`: documents,
profiles and command lines are typed; `LoadedInv`: what was loaded selected a
profile that is valid; `ResolvedInv`: settings are the merge of the layers;
`StartedInv`: a command that started passed every check after the merge;
`RefusedInv`: an accepted document is refused by one of the named checks alone.
What the property says of a start is read off the merge, credentials, permission
and prompt in turn (`MonitorStarted`, `ActiveStarted`). The converse has the
substance: for a plain call the checks after the merge repeat those the profile
passed before it, *with the same defaults*, so nothing remains to refuse but a
credential or a model that nobody gave (`MonitorRefused`, `ActiveRefused`).

**ProcessTrend.** `TypeOK /\ BaselineIsLastSample /\ FindingsExact` is inductive:
a finding compares a new sample with the tracker's, which the invariant
identifies with the end of the log.

**EndpointRates.** `RateInv`: the tracker has an entry for exactly the endpoints
that were sampled, with the time of that sample, and a counter has grown since by
no more than the endpoint has done. `ObserveEndpoints` handles the endpoints one
after the other, a recursive function whose value is shown by `SetInduction`. The
theorem has two hypotheses that are no assumption of the module, because the
module is also checked without them: `WholeScans`, that no scan stops at the
sample limit, without which the run `rates_truncated` finds a rate no server
had; and `OwnKeys`, that no two targets share the redacted URL that is the
tracker's key, without which they are compared with each other (see the
smaller disagreements under *Findings*).

**Fingerprint.** `FingerprintAssumption`: a command line is a sequence, and no
process is the model value for none. `ProcessInv`: a process keeps its start
time and a successor has a later one, so two equal start times are of one
process. `InspectionInv`: every read that succeeded was of a program that had
the number, and the programs stand in the order of the reads (`Witnessed`); one
more program leaves that so (`WitnessedGrows`), and so does one more read
(`WitnessedReads`). `ToldInv`: what was told of a process is about a history
that has ended. `PublishedTold` composes them: equal first and last start times
put all programs in between under one process; equal command lines, and at
most two programs, put the mappings read between them under the same program.
That a value is told only if it is said once needs that a command line
launches one engine (`OneLaunch`) and that each flag with the value it takes is
counted by its place (`GivenFacts`, `SameFlags`, `ParsedOnce`).

**Saturation.** `SaturationAssumption`. Traffic is bounded by a *sum over the
ladder*, so the first section establishes what a total of a sequence is.
`Total` is a fold; the modules of the library state induction with an operator
as parameter, which the provers cannot instantiate, so `SetInduction` states
induction on the naturals for sets, and proves it from the pigeonhole principle
for finite sets. From it follow that a fold has a value (`FoldExists`), that it
is the sum (`TotalIsSum`), and how totals of prefixes compare
(`PrefixTotals`). The invariant says of the phases so far what the code
knows of them only one at a time: each is the plan's, with the numbers of its
own attempts (`PhaseInv`); all but the last let the run go on and the last is
the reason it ended (`OrderInv`); what was sent and spent is theirs
(`BudgetInv`); the report is these (`ReportInv`). `VerdictEarned` needs besides
that the error guard is never looser than a stage's gate (`GuardAboveGate`,
from the admission rules), so that an aborted stage fails its own verdict.
`ReconstructionExact` adds `SavedInv` (a saved report is the written one or one
of its damages); `WrittenAccepted` takes the offline rules one by one on an
undamaged report of which no percentage is parsed as another, `DamageRefused` names for each damage the rule that
refuses it.

For the comparison of two runs `ComparisonAssumption` is added: at least one
sample is asked for, and a threshold is a number or not selected. A side is
`SoundSide` if its acceptance as a complete run means one stage for each of the
plan, with the numbers of its own attempts. `SavedSide` gets that from the
theorem on reconstruction, whatever was done to the saved report; `CompareInv`
keeps it of the side that was kept and of both sides of a result, while the
next run begins afresh (`FreshRun`). Then the gates are taken one by one:
`LatencyNeeded` and its like say what a gate that could be evaluated had of
both sides, `LatencyTells` and its like that it passes exactly when the attempts
are not worse. The latency gate again needs what a percentile means
(`RankFacts`, `WithinFacts`), here with one rounded rank.

**Completion.** That the incremental matcher agrees with substring search is
the correctness of the prefix table, for every needle over every alphabet.
`Ends(w, t, n, k)` says that the first k letters of the needle end at place n of
the text, `Longest` that no longer proper beginning does, `Tabled` that the table
holds the longest border of each beginning. `Borders` relates these: what ends
here and is shorter than what ends here is a border of it. `FallbackFacts`
follows the loop of `push` down the table and finds the longest border that the
next letter extends; `AdvanceFacts` concludes that the longest match stays the
longest, `PrefixTableFacts` that the table built by the same loop is right,
and `PushFacts` that the matcher has met the needle exactly when it occurs in
the text so far (`OccursFacts`), however the text was cut. Functions
defined by recursion exist and keep an invariant by `RunExists`, `RunKeeps`.
`ClientInv`: the times are in order (`RequestInv`); the matcher is that of the
text, and the first text has its time (`TextInv`); an attempt is earned and
accepted by both offline rules unless its body broke off (`AttemptInv`).

**Canary and Rollout.** `CanaryAssumption`, `RolloutAssumption`. A status is
computed from extremes and a verdict from percentiles, so what these *mean* is
proved first. A finite set of numbers has a largest and a smallest
(`LargestOf`, `SmallestOf`, by the same induction on sets as above); hence a
nearest rank is the smallest value up to which the percentage of the requests
lies (`RankFacts`), and a maximum within a limit is every request within it
(`LimitFacts`), provided the distribution is complete (`CompleteFacts`: as
many samples as successes are all of them). `StatusFacts` composes the selected
gates to the meaning of the policy. `CanaryInv` says that the report is that of
a batch that was admitted and run, and what is read back is it or one of its
damages. `WrittenIntact` takes the offline rules one by one; the exceptions
come from `AttemptFacts`, `PlanFacts` and the reading of the percentage. `DamageRefused` names for each damage
the rule that refuses it. For two reports, `WithinFacts` and `RatioFacts` turn an
inequality between two ranks into one about sets of requests: the gate on a
time holds when whatever time most of the baseline's requests keep is kept, by
the percentage, by most of the candidate's. `DropMeans` cancels the number of
attempts, which is the same because the plans are. `RolloutInv` is `CanaryInv`
of the canary that runs, and of the kept report and those compared only that
they are `Sound`: a report the rules accept was made of a batch. This is what
makes the theorem independent of how often, and into what, reports were edited.

**ReportCompare.** `CompareAssumption`: the lists of a report are sequences of
entities. `GateInv`: every verdict kept is the comparison of its two reports.
`DeltasCompose` says for one kind of entity, whatever the list between, that a
card, endpoint or source that is worse at the end of two steps was worse after
one of them: what is there first and gone last is gone on the way.
`CompareComposes` adds the new findings and concludes for whole reports.

**ReportInput.** A file that is only appended to grows, so what was there at
the open and what was read are both beginnings of it (`InitialInv`,
`GrowthInv`, `ReadInv`), and the halves of one record stand side by side. A
reader that looks twice relies on modification times instead: they do not fall
(`LookInv`), so a time that did not rise was not exceeded by a write in
between. `ResultInv` says that what is decoded is a record of what was read.

**History.** `HistoryAssumption`: records have the types of their fields. The
analysis stands at the end of a line; `LineFacts` says that what it takes for
the next line is one, if it is blank or parses, `NextRecords` that this adds
exactly that record to those before it, `SameRecords` that an append behind it
changes none of them. `ScanInv` then relates the summary to the *set of records
up to that place*: one more record is in every total (`SummarizedAdds`). A peak
is kept with the set of values it is a peak of, each with its record and place
(`IsPeak`), so that `update_max`, folded over a record, adds that record's
values and no other (`PeakSteps`, `PeakAdds`). That a record has status critical
exactly when one of its findings is so, which the count of critical records
relies on, follows from its validation (`CriticalMeans`).

Only model-checked:

- *Every temporal property* and the fairness part of both refinements:
  `DropReturns`, `BacklogDrains`, `ConnectionEnds`, `CommandNeverStuck`,
  `SignalEnds`, and the liveness of `ImplementsBoundedServer` and
  `ImplementsBatch`. The proof system has no rule for `ENABLED`.
- `ReportIsEvidence`, `PlanExact`: the first compares two long lists of rules
  on directories and headers, the second a bound with the enumeration of all
  placements. A proof would be by cases over the lists and needs a theory of
  the folds of *Artifact* and *Capacity*.

No module declares a recursive operator, so all stay open to proof.

## Findings

Each is a run that TLC ends with a counterexample.

1. **A truncated scrape fabricates a rate** (`rates_truncated`,
   `inference/probe.rs:544`). The parser stops at the sample limit and keeps
   the counters summed so far. If the next scrape is complete, the difference
   is reported as a rate although the endpoint served less. The inference
   guide promises no rate "instead of a negative or fabricated value".
2. **A failed history write glues two records** (`monitor_history`,
   `operations/history.rs:80`). After a partial write the restarted service
   appends to the torn line; the schema reference promises one object per
   line, and the history command rejects the file.
3. **A response that breaks off makes the whole report unusable**
   (`completion_cut`, `operations/saturation.rs:1516`, `rollout.rs:562`). The
   client records a failure within the body as a transport failure with the
   status and header time of the response, the offline rules accept a
   transport failure only without them. One such attempt among thousands makes
   `benchmark compare` not evaluable and `rollout` report a regression.
   `AttemptIsSound` and `ReconstructionExact` show that besides an error
   percentage that is parsed as another number (see below) this is the only way
   in which an undamaged benchmark is refused.
4. **A monitor's own history is refused** (`history_refused`,
   `inference/probe.rs:980`, `operations/history.rs:461`). The probe keeps
   whatever finite value a server exposes and the monitor appends it; the
   analysis refuses a negative queue or a cache above 100 % and with it the
   whole file, which the command-line reference says it reads.

Smaller disagreements that are described here and have no run:

- With an interval of 500 ms process growth is never reported: every cycle
  replaces the sample, and samples less than a second apart are not compared
  (`analysis/trend.rs:47`). The guide speaks of samples separated by a second.
- Endpoints that differ in the query alone share a tracker key, because the
  key is the redacted URL (`inference/probe.rs:1136`), and are compared with
  each other's counters. The tracker runs use targets with distinct keys.
- A signal between the installation of the handler and the first cycle ends a
  snapshot with exit code 0 and no report (`application/monitor.rs:40`).
- The deadline of a request is left to the timeout of the HTTP client; the
  code compares no clock of its own while a body arrives. `TrafficBounded`
  takes the deadline that the command-line reference promises, including the
  body, as an assumption on that library.
- A canary with a timeout that is no whole number of milliseconds may keep the
  wall-time limit although the plan it saves, rounded up, does not, and its
  report is refused later. `StatusIsEarned` names this exception.
- Saved percentages are compared bit by bit (`operations/canary.rs:371`,
  `saturation.rs:1415`) after they were parsed by serde_json without
  `float_roundtrip` (`Cargo.toml`), which takes the shortest text of some
  numbers for a neighbour: 11 successes of 12, 2 failures of 13. The report of
  such a run is refused as it was written, although the comment at
  `operations/canary.rs:359` says that JSON preserves each individual number.
  `StatusIsEarned` and `ReconstructionExact` name this exception.
- A command that is ended by force may leave its group behind: the kill program
  is run and its failure ignored (`telemetry/command.rs:206`), and an image
  without it keeps whoever the command started.
- A number of retired pages that cannot be read counts as none
  (`telemetry/nvidia.rs:638`), and the row is a good one. `AllClearIsEarned`
  names this exception.
- The optional source counts its rows after those of the retired pages were
  merged in (`telemetry/nvidia.rs:362`): a card that one query lacks and
  another has leaves the source `ok`, where the health guide expects `partial`.

## Plan

Modelled and checked: every component of the table above but those named
under *What is not modelled*. Proved: the eighteen components of *Proofs*, with
both refinements step by step. What is left to prove: *Artifact* and
*Capacity*, what their folds mean.

## What is not modelled

- *Doctor, bundle*: straight sequences of checks and file operations whose
  outcome is a list; nothing interleaves and nothing is kept.
- *Renderers, serialization*: functions of a report to text; no property here
  is about wording or layout.
- *Metadata of processes and of the host*: names and owners read from single
  files for display; no decision reads them.
- *Redaction and the reading of one credential file*: local to one call; that a
  credential is sound is a fact of `Settings`.
- *Parsers of formats* as such: the CSV columns nothing but the display reads,
  the tokenizer of the exposition format and its alias tables, the framing of
  server-sent events, the bytes of a safetensors header. The models begin
  where a line, a sample, an event or an entry has been told apart, sound or
  not.
- *Rounding.* Thresholds with a fraction, which are read back from JSON as
  percentages are, means, and the order within a rollout's distributions, which
  a rounded mean of equal values may break; whether an expectation was met, as
  a field of its own, since failure and policy determine it.
- *The declarations of the command-line parser*, and the options no decision
  reads.
- *The libraries*: TCP, threads, condition variables, the HTTP client and the
  file system appear as the environment actions their users can observe.
