----------------------------- MODULE MCTelemetry -----------------------------
(* The collection of a report, the latency histograms of its endpoints, and *)
(* the tracker that compares reports, on small instances.  They share no    *)
(* state, so that each is explored on its own: part takes the steps.        *)
EXTENDS ProcessTrend

CONSTANTS p1, p2, t1, t2, a, b, NaN, None

VARIABLES part, served, counter, endpoints, rates, base
VARIABLES world, cards, pc, inventory, stable, attributed, optional, topology, xid, cache,
          report, answers, cycles, changes
VARIABLES counts, exposed, since, restarted, tracked, last

rateVars == <<served, counter, endpoints, rates, base>>
trendVars == <<running, processes, findings, log>>
collectorVars == <<world, cards, pc, inventory, stable, attributed, optional, topology, xid,
                   cache, report, answers, cycles, changes>>
histogramVars == <<counts, exposed, since, restarted, tracked, last>>

\* Ticks of 500 ms; the clock may be set back by a second.
MCSteps == {-2, 1, 2}

\* Targets that differ in scheme, host, port or path, scanned to the end.
Targets == <<t1, t2>>
Redacted(t) == t
Rates == INSTANCE EndpointRates
  WITH Scrapes <- {"down", "noCounters", "noFamily", "full"},
       MaxCount <- 2, MaxTime <- 2, Steps <- {-1, 1, 2}

\* A process on two cards, one of them for graphics too, and one card that is
\* throttled or worn.
Limits == [memoryCritical |-> 99, memoryWarning |-> 90, heatCritical |-> 3, heatWarning |-> 2,
           unattributed |-> 1, latency |-> 2, cacheCritical |-> 3, cacheWarning |-> 2]
World(throttled, worn, required) ==
  [compute |-> {<<a, 1>>, <<b, 2>>}, graphics |-> {<<a, 1>>}, throttled |-> throttled,
   worn |-> worn, required |-> required]
Collect == INSTANCE Collector
  WITH processes <- attributed, Cards <- {a, b}, MaxCycles <- 2, MaxChanges <- 1,
       Worlds <- {World({a}, {}, {"optional"}), World({}, {<<b, 1>>}, {"optional", "topology"}),
                  World({}, {}, {"processes", "topology"})}

\* Only what a world requires is answered in part, and only in the last cycle:
\* nothing but the topology outlives a cycle.  There the optional task is the
\* last to end, as the others do not read what it finds.  Values are unreadable
\* in answers that are whole and of the card that is not sound.
Full(query) ==
  answers'[query] # None =>
    \A i \in DOMAIN answers'[query] :
      /\ answers'[query][i] # None /\ answers'[query][i].rejected = 0
      /\ query = "optional" => answers'[query][i].blank = {}
CollectorNext ==
  /\ Collect!Next
  /\ \A q \in {"processes", "optional"} : (q \in world.required /\ cycles = 2) \/ Full(q)
  /\ cycles = 2 /\ optional' # None => None \notin {attributed, topology, xid}
  /\ answers'.optional # None =>
       \A i \in DOMAIN answers'.optional :
         LET reading == answers'.optional[i]
         IN  reading # None =>
               \/ reading.blank = {}
               \/ /\ reading.of = inventory
                  /\ reading.blank \subseteq world.throttled \cup {worn[1] : worn \in world.worn}

\* Two series of up to three samples in two buckets and an open one, scanned to
\* the end or not; the second bucket of the second series may be damaged.
Name(schema) == [prefix |-> "vllm:", schema |-> schema]
MCSeries == {{<<"engine", a>>, <<"model", a>>}, {<<"engine", b>>, <<"model", a>>}}
MCCells == [i \in 1..6 |-> << << <<"engine", IF i <= 3 THEN a ELSE b>>, <<"model", a>> >>,
                              <<1, 3, 4>>[((i - 1) % 3) + 1]>>]
MCNames == {Name("e2e"), Name("request")}
Latency == INSTANCE Histograms
  WITH Series <- MCSeries, Names <- MCNames, Bounds <- {1, 3}, Inf <- 4, Cells <- MCCells,
       Limits <- {5, 9}, MaxSeries <- 2, MaxBuckets <- 3, Damageable <- {5},
       MaxObservations <- 3

ASSUME TelemetryAssumption ==
  TrendAssumption /\ Rates!RatesAssumption /\ Latency!HistogramsAssumption /\ Collect!CollectorAssumption

MCInit ==
  /\ part \in {"processes", "endpoints", "collector", "histograms"}
  /\ Init /\ Rates!Init /\ Collect!Init /\ Latency!Init
  /\ part # "processes" => running = Nothing
  /\ cards = {a, b}
  /\ part # "collector" => world = World({}, {}, {"processes", "topology"})

MCNext ==
  \/ /\ part = "processes" /\ Next
     /\ UNCHANGED <<part, rateVars, collectorVars, histogramVars>>
  \/ /\ part = "endpoints" /\ Rates!Next
     /\ UNCHANGED <<part, trendVars, collectorVars, histogramVars>>
  \/ /\ part = "collector" /\ CollectorNext
     /\ UNCHANGED <<part, vars, rateVars, histogramVars>>
  \/ /\ part = "histograms" /\ Latency!Next
     /\ UNCHANGED <<part, vars, rateVars, collectorVars>>

MCSpec == MCInit /\ [][MCNext]_<<part, vars, rateVars, collectorVars, histogramVars>>

-----------------------------------------------------------------------------
\* A rate stands for work of its endpoint since its own previous sample.
RateNeverFabricated == Rates!RateNeverFabricated

\* A healthy report that requires its sources hides no card, process or link
\* from its reader.
AllClearIsEarned == Collect!AllClearIsEarned

\* A reported latency distribution is that of the requests of its interval.
IntervalIsDistribution == Latency!IntervalIsDistribution
=============================================================================
