------------------------------ MODULE Collector ------------------------------
(***************************************************************************)
(* The collection of one report, src/telemetry/nvidia.rs: the inventory,   *)
(* then four tasks side by side, of which each tells how far it got, the   *)
(* topology kept from cycle to cycle, and the health rules on top.         *)
(*                                                                         *)
(* A command of the driver answers for the cards there are when it runs,   *)
(* all of them, without the row of one, with that row malformed, or not at *)
(* all; module CommandRun shows when.  A row may count although its value  *)
(* is none that can be read.  The state of a card other than its           *)
(* throttling, its retired pages and its processes is sound.               *)
(***************************************************************************)
EXTENDS Health, FiniteSetsExt

CONSTANTS Cards,     \* UUIDs
          Worlds,    \* what is to be found, see Init
          MaxCycles, \* bound on the cycles observed
          MaxChanges \* bound on how often cards come and go

VARIABLES
  world,     \* the processes by kind, the throttled cards, the worn ones, each with
             \* the queries that count its pages, the sources that are required
  cards,     \* the cards the driver knows
  pc,        \* idle, tasks or report
  inventory, \* the cards of this cycle
  stable,    \* they have not changed since
  processes, optional, topology, xid, \* Observed, None while the task runs
  cache,     \* TopologyCache
  report,    \* the report and the answers it was made of, or None
  answers,   \* the rows the driver gave, by query
  cycles, changes

\* What the constants are; the modules that give them values assume it.
CollectorAssumption ==
  /\ IsFiniteSet(Cards)
  /\ None \notin {"ok", "partial", "unavailable", "skipped", "warning", "critical"}

tasks == <<processes, optional, topology, xid>>
vars == <<world, cards, pc, inventory, stable, tasks, cache, report, answers, cycles, changes>>

-----------------------------------------------------------------------------
\* The answers of a command about those of the known cards that are subjects:
\* None when it fails, else the cards it has a row for and how many malformed
\* ones.  A card it misses is there or is not.
Answers(subjects) ==
  LET known == subjects \cap cards
  IN  {None, [of |-> known, rejected |-> 0]}
      \cup {[of |-> known \ {c}, rejected |-> n] : c \in known, n \in {0, 1}}

\* Those about details: of some rows the value is blank, "N/A" or no number.
Readings ==
  {None} \cup UNION {{[of |-> answer.of, rejected |-> answer.rejected, blank |-> blank] :
                      blank \in SUBSET answer.of} : answer \in Answers(Cards) \ {None}}
Readable(reading) == IF reading = None THEN {} ELSE reading.of \ reading.blank

Observed(value, state) == [value |-> value, state |-> state]

\* collect_processes: by card, each process once.  Two queries that succeed
\* without a malformed row are all there is.
Processes(compute, graphics) ==
  LET succeeded == {q \in {compute, graphics} : q # None}
      rowsOf(kind, answer) == IF answer = None THEN {}
                              ELSE {p \in world[kind] : p[1] \in answer.of}
      rows == rowsOf("compute", compute) \cup rowsOf("graphics", graphics)
  IN  Observed([c \in {p[1] : p \in rows} |-> {p[2] : p \in {q \in rows : q[1] = c}}],
               IF compute = None /\ graphics = None THEN "unavailable"
               ELSE IF None \in {compute, graphics} \/ \E q \in succeeded : q.rejected > 0
               THEN "partial" ELSE "ok")

\* Seeded fault: a malformed row of retired pages is forgotten.
OptionalStateForgetful(details, retired, records) ==
  IF /\ details.rejected = 0 /\ records = Cardinality(inventory)
     /\ None \notin {retired[i] : i \in DOMAIN retired}
  THEN "ok" ELSE "partial"
\* collect_optional, its state: records are the cards any of the queries named.
OptionalState(details, retired, records) ==
  IF /\ details.rejected = 0 /\ records = Cardinality(inventory)
     /\ \A i \in DOMAIN retired :
          /\ retired[i] # None
          /\ retired[i].rejected = 0 /\ Cardinality(retired[i].of) = Cardinality(inventory)
  THEN "ok" ELSE "partial"

\* collect_optional: without the first query nothing else is asked; the pages
\* are added to what there is of a card, and what cannot be read counts as none.
Optional(details, retired) ==
  IF details = None THEN Observed(<<>>, "unavailable")
  ELSE LET of(i) == IF retired[i] = None THEN {} ELSE retired[i].of
           named == details.of \cup of(1) \cup of(2)
           pages(c) == {i \in 1..2 : c \in Readable(retired[i]) /\ <<c, i>> \in world.worn}
       IN  Observed([c \in named |-> [throttled |-> c \in Readable(details) \cap world.throttled,
                                      retired |-> Cardinality(pages(c))]],
                    OptionalState(details, retired, Cardinality(named)))

\* topology_source: a matrix without rows is partial.
TopologyOf(matrix) == Observed(matrix, IF matrix = {} THEN "partial" ELSE "ok")

-----------------------------------------------------------------------------
Unasked == [processes |-> None, optional |-> None]
Pending == processes = None /\ optional = None /\ topology = None /\ xid = None

Init ==
  /\ world \in Worlds /\ cards \in (SUBSET Cards) \ {{}}
  /\ pc = "idle" /\ inventory = {} /\ stable = TRUE /\ Pending
  /\ cache = [key |-> {}, matrix |-> {}, stable |-> TRUE]
  /\ report = None /\ answers = Unasked /\ cycles = 0 /\ changes = 0

\* parse_gpus: one bad row fails the inventory, and no card fails the cycle.
Inventory ==
  /\ pc \in {"idle", "report"} /\ cycles < MaxCycles
  /\ cycles' = cycles + 1
  /\ processes' = None /\ optional' = None /\ topology' = None /\ xid' = None
  /\ report' = None /\ answers' = Unasked
  /\ \/ inventory' = cards /\ pc' = (IF cards = {} THEN "idle" ELSE "tasks")
     \/ inventory' = {} /\ pc' = "idle"
  /\ stable' = TRUE
  /\ UNCHANGED <<world, cards, cache, changes>>

CollectProcesses ==
  /\ pc = "tasks" /\ processes = None
  /\ \E compute \in Answers({p[1] : p \in world.compute}),
        graphics \in Answers({p[1] : p \in world.graphics}) :
       /\ processes' = Processes(compute, graphics)
       /\ answers' = [answers EXCEPT !.processes = <<compute, graphics>>]
  /\ UNCHANGED <<world, cards, pc, inventory, stable, optional, topology, xid, cache, report,
                 cycles, changes>>

CollectOptional ==
  /\ pc = "tasks" /\ optional = None
  /\ \E details, single, double \in Readings :
       /\ optional' = Optional(details, <<single, double>>)
       /\ answers' = [answers EXCEPT !.optional = <<details, single, double>>]
  /\ UNCHANGED <<world, cards, pc, inventory, stable, processes, topology, xid, cache, report,
                 cycles, changes>>

\* collect_topology: asked once for a set of cards, unless the answer fails.
CollectTopology ==
  /\ pc = "tasks" /\ topology = None
  /\ IF cache.key = inventory THEN topology' = TopologyOf(cache.matrix) /\ UNCHANGED cache
     ELSE \/ topology' = Observed({}, "unavailable") /\ UNCHANGED cache
          \/ \E matrix \in {cards, {}} :
               /\ topology' = TopologyOf(matrix)
               /\ cache' = [key |-> inventory, matrix |-> matrix, stable |-> stable]
  /\ UNCHANGED <<world, cards, pc, inventory, stable, processes, optional, xid, report, answers,
                 cycles, changes>>

\* collect_xid_events, the journal and else the kernel's ring buffer, unless the
\* operator does without.
CollectXid ==
  /\ pc = "tasks" /\ xid = None
  /\ \E state \in {"ok", "unavailable", "skipped"} : xid' = Observed(None, state)
  /\ UNCHANGED <<world, cards, pc, inventory, stable, processes, optional, topology, cache,
                 report, answers, cycles, changes>>

\* A card of the inventory that is well but for the details.
Sound(c, pids, details) ==
  [total |-> 1, used |-> 0, temperature |-> 0, power |-> 0, powerLimit |-> 0, load |-> 50,
   pcie |-> 0, pcieMax |-> 0, uncorrected |-> 0, corrected |-> 0, mig |-> FALSE,
   processes |-> pids, throttled |-> details.throttled, retired |-> details.retired]

\* What the tasks found, merged into the inventory and analyzed.
Gpus ==
  LET pids(c) == IF c \in DOMAIN processes.value THEN processes.value[c] ELSE {}
      details(c) == IF c \in DOMAIN optional.value THEN optional.value[c]
                    ELSE [throttled |-> FALSE, retired |-> 0]
  IN  [c \in inventory |-> Sound(c, pids(c), details(c))]
Sources == [processes |-> processes.state, optional |-> optional.state,
            topology |-> topology.state, xid |-> xid.state]
Findings == AnalyzeGpus(Gpus) \cup AnalyzeSources(Sources, world.required)
Merged == [gpus |-> Gpus, sources |-> Sources, matrix |-> topology.value,
           findings |-> Findings, status |-> Status(Findings)]

\* collect, its end.
Merge ==
  /\ pc = "tasks" /\ None \notin {processes, optional, topology, xid}
  /\ report' = Merged /\ pc' = "report"
  /\ UNCHANGED <<world, cards, inventory, stable, tasks, cache, answers, cycles, changes>>

\* A card falls off the bus or comes back.
Change(c) ==
  /\ changes < MaxChanges
  /\ cards' = IF c \in cards THEN cards \ {c} ELSE cards \cup {c}
  /\ stable' = FALSE /\ changes' = changes + 1
  /\ UNCHANGED <<world, pc, inventory, tasks, cache, report, answers, cycles>>

Next ==
  \/ Inventory \/ CollectProcesses \/ CollectOptional \/ CollectTopology \/ CollectXid \/ Merge
  \/ \E c \in Cards : Change(c)

Spec == Init /\ [][Next]_vars

-----------------------------------------------------------------------------
\* Every card of the inventory was in what a query answered.
Covers(answer) == answer # None /\ inventory \subseteq answer.of

\* A healthy report that requires its sources hides nothing the driver could
\* tell: no card of it is throttled and none has retired pages, unless its row
\* held no value in the query that counts them, of which each had a row of every
\* card; the queries for processes answered whole, and the topology is that of
\* its cards, unless cards came or went while the driver was asked.
AllClearIsEarned ==
  pc = "report" /\ report.status = "healthy" /\ stable =>
    /\ "optional" \in world.required =>
         /\ \A i \in 1..2 :
              /\ Covers(answers.optional[i + 1])
              /\ \A c \in inventory : <<c, i>> \in world.worn => c \in answers.optional[i + 1].blank
         /\ Readable(answers.optional[1]) \cap world.throttled = {}
    /\ "processes" \in world.required =>
         \A i \in 1..2 : answers.processes[i] # None /\ answers.processes[i].rejected = 0
    /\ "topology" \in world.required /\ cache.stable => report.matrix = inventory
=============================================================================
