------------------------------- MODULE Capacity -------------------------------
(***************************************************************************)
(* Will the model fit: run_capacity of src/application/mod.rs, which takes *)
(* the geometry from the arguments and a model's config.json               *)
(* (src/planning/model_config.rs), the evidence of an artifact report, and *)
(* estimates the worst rank (src/planning/capacity.rs).                    *)
(*                                                                         *)
(* Memory is counted in millionths of a byte, so that the percentages are  *)
(* exact: rounding of floating point is left out.  A config is a function  *)
(* from the keys it has to numbers, zero for a value of a wrong form; an   *)
(* argument that is not given is None.                                     *)
(***************************************************************************)
EXTENDS Integers, Sequences, SequencesExt, FiniteSets, FiniteSetsExt

CONSTANTS Bases,    \* requests to begin with
          Options,  \* the other values an argument may be given
          MaxGiven, \* bound on the arguments that are given one of these
          MaxWorld, \* MAX_WORLD_SIZE
          Grid,     \* percentages a share may have, for the properties
          None

VARIABLES given,   \* the arguments that were
          request, \* arguments, config (None without one) and artifact (None or
                   \* the sums of its report)
          step,    \* asked, planned or refused
          plan     \* what is planned, None before and if it is refused

vars == <<given, request, step, plan>>

OrElse(x, y) == IF x = None THEN y ELSE x
CeilDiv(a, b) == (a + b - 1) \div b
Product(s) == FoldLeft(LAMBDA x, y : x * y, 1, s)

-----------------------------------------------------------------------------
(* model_config.rs                                                         *)

Aliases == [layers |-> {"num_hidden_layers", "n_layer"}, heads |-> {"num_attention_heads"},
            hidden |-> {"hidden_size"}, kvHeads |-> {"num_key_value_heads"},
            headDim |-> {"head_dim"}, experts |-> {"num_experts", "n_routed_experts"},
            parameters |-> {"num_parameters"}, intermediate |-> {"intermediate_size"},
            vocab |-> {"vocab_size"}]

\* optional_u64: what the aliases of a field say; they may not contradict.
Said(config, field) == {config[k] : k \in Aliases[field] \cap DOMAIN config}
Sound(config, field) == Cardinality(Said(config, field)) <= 1 /\ 0 \notin Said(config, field)
Field(config, field) == IF Said(config, field) = {} THEN None
                        ELSE CHOOSE v \in Said(config, field) : TRUE

\* estimate_dense_parameters, of a gated model.
Dense(layers, heads, kvHeads, headDim, hidden, intermediate, vocab, tied) ==
  LET embeddings == vocab * hidden
      layer == 2 * hidden * (heads + kvHeads) * headDim + 3 * hidden * intermediate + 2 * hidden
  IN  embeddings + layers * layer + hidden + (IF tied THEN 0 ELSE embeddings)

ExpertCount(config) ==
  LET n == Field(config, "experts") IN IF n = 1 THEN None ELSE n
IsMoe(config) == ExpertCount(config) # None \/ "sparse" \in DOMAIN config

\* select_u32_override, and what stands in for an absent field.
Layers(r) == OrElse(r.layers, Field(r.config, "layers"))
KvHeads(r) == OrElse(r.kvHeads, OrElse(Field(r.config, "kvHeads"), Field(r.config, "heads")))
HeadDim(r) == OrElse(r.headDim, OrElse(Field(r.config, "headDim"),
                                       Field(r.config, "hidden") \div Field(r.config, "heads")))

\* derive_parameters_billion: what an estimate takes for granted.
Estimable(config) ==
  /\ Sound(config, "intermediate") /\ Field(config, "intermediate") # None
  /\ Sound(config, "vocab") /\ Field(config, "vocab") # None
  /\ "audited" \in DOMAIN config /\ "biased" \notin DOMAIN config

Parameters(r) ==
  LET field(f) == Field(r.config, f)
  IN  OrElse(r.params, OrElse(field("parameters"),
        Dense(Layers(r), field("heads"), KvHeads(r), HeadDim(r), field("hidden"),
              field("intermediate"), field("vocab"), "tied" \in DOMAIN r.config)))

\* model_geometry_from_object: what it refuses.  An override is not compared
\* with the field it stands for, nor is that field read.
GeometryAccepted(r) ==
  LET c == r.config
      has(field) == Sound(c, field) /\ Field(c, field) # None
  IN  /\ 0 \notin {r.params, r.layers, r.kvHeads, r.headDim}
      /\ Sound(c, "experts") /\ (IsMoe(c) => r.params # None)
      /\ r.layers = None => has("layers")
      /\ has("heads") /\ has("hidden")
      /\ r.kvHeads = None => Sound(c, "kvHeads")
      /\ KvHeads(r) <= Field(c, "heads") /\ Field(c, "heads") % KvHeads(r) = 0
      /\ r.headDim = None =>
           /\ Sound(c, "headDim")
           /\ Field(c, "headDim") = None => Field(c, "hidden") % Field(c, "heads") = 0
      /\ r.params = None =>
           /\ Sound(c, "parameters")
           /\ Field(c, "parameters") = None => Estimable(c)

-----------------------------------------------------------------------------
(* application/mod.rs                                                      *)

\* resolve_capacity_geometry
HasGeometry(r) ==
  IF r.config # None THEN GeometryAccepted(r)
  ELSE None \notin {r.params, r.layers, r.kvHeads, r.headDim}

\* resolve_capacity_topology: without any size, --gpus is tensor parallelism.
Topology(r) ==
  LET explicit == \E d \in {"tp", "pp", "dp", "ep"} : r[d] # None
  IN  [d \in {"tp", "pp", "dp", "ep"} |->
         OrElse(r[d], IF ~explicit /\ d = "tp" THEN OrElse(r.gpus, 1) ELSE 1)]

\* run_capacity: the number of experts, and of what it is a contradiction.
Experts(r) == IF r.config = None THEN r.experts ELSE OrElse(r.experts, ExpertCount(r.config))
ExpertsAgree(r) ==
  r.config # None =>
    /\ None \notin {r.experts, ExpertCount(r.config)} => r.experts = ExpertCount(r.config)
    /\ IsMoe(r.config) => Experts(r) # None

Input(r) ==
  [parameters |-> IF r.config = None THEN r.params ELSE Parameters(r),
   layers |-> IF r.config = None THEN r.layers ELSE Layers(r),
   kvHeads |-> IF r.config = None THEN r.kvHeads ELSE KvHeads(r),
   headDim |-> IF r.config = None THEN r.headDim ELSE HeadDim(r),
   experts |-> Experts(r), topology |-> Topology(r), request |-> r]

-----------------------------------------------------------------------------
(* capacity.rs                                                             *)

Ranks(i) == i.topology.tp * i.topology.dp
World(i) == Ranks(i) * i.topology.pp

\* A share of the whole on one of n, at least what an even split leaves.
ShareValid(percent, n) == percent <= 100 /\ percent * n >= 100

\* Seeded fault: tensor parallelism is taken for a proof of sharding.
HeadsBoundEven(i) == OrElse(i.request.maxKvHeads, CeilDiv(i.kvHeads, i.topology.tp))
\* The defaults charge one rank with everything.
HeadsBound(i) == OrElse(i.request.maxKvHeads, i.kvHeads)
LayersBound(i) == OrElse(i.request.maxStageLayers, i.layers)
SharedBound(i) == OrElse(i.request.maxShared, 100)
StageBound(i) == OrElse(i.request.maxStage, 100)
ExpertBound(i) == OrElse(i.request.maxExpert, 100)
ExpertPercent(i) == OrElse(i.request.expertPercent, 0)

\* validate
Valid(i) ==
  LET t == i.topology
      r == i.request
  IN  /\ i.parameters >= 1 /\ i.layers >= 1 /\ i.kvHeads >= 1 /\ i.headDim >= 1
      /\ \A d \in DOMAIN t : t[d] >= 1
      /\ t.pp <= i.layers /\ World(i) <= MaxWorld
      /\ r.gpus # None => r.gpus = World(i)
      /\ CeilDiv(i.kvHeads, t.tp) <= HeadsBound(i) /\ HeadsBound(i) <= i.kvHeads
      /\ ShareValid(StageBound(i), t.pp)
      /\ CeilDiv(i.layers, t.pp) <= LayersBound(i) /\ LayersBound(i) <= i.layers
      /\ ShareValid(SharedBound(i), t.tp)
      /\ IF i.experts = None
         THEN r.expertPercent = None /\ t.ep = 1 /\ r.maxExpert = None
         ELSE /\ r.expertPercent # None /\ r.expertPercent > 0 /\ r.expertPercent <= 100
              /\ i.experts >= 1
              /\ i.experts % t.ep = 0 /\ Ranks(i) % t.ep = 0
              /\ ShareValid(ExpertBound(i), t.ep)

\* validate_artifact_totals: the dtypes add up, element for bit.
EvidenceValid(artifact) ==
  LET total(key) == MapThenSumSet(LAMBDA b : artifact.dtypes[b][key], DOMAIN artifact.dtypes)
  IN  /\ artifact.files > 0
      /\ \A b \in DOMAIN artifact.dtypes :
           /\ artifact.dtypes[b].count > 0
           /\ artifact.dtypes[b].elements * b = 8 * artifact.dtypes[b].bytes
      /\ \A key \in {"count", "elements", "bytes"} : total(key) = artifact.all[key]

\* checked_ceil_scaled_bytes, the multiplier a fraction.
Floor(artifact, multiplier) == CeilDiv(artifact.all.bytes * multiplier[1], multiplier[2])

Million == 1000000

\* estimate_internal, of the weights: the larger of estimate and evidence.
BaseWeights(i) ==
  LET parameters == (i.parameters * i.request.bits) \div 8
      floor == IF i.request.artifact = None THEN 0
               ELSE Floor(i.request.artifact, i.request.multiplier)
  IN  IF floor > parameters THEN floor ELSE parameters

WeightsWorstRank(i) ==
  LET base == BaseWeights(i)
  IN  base * (100 - ExpertPercent(i)) * StageBound(i) * SharedBound(i)
      + base * ExpertPercent(i) * StageBound(i) * (IF i.experts = None THEN 0 ELSE ExpertBound(i))
      + base * i.request.overhead * StageBound(i) * 100

\* One sequence of the full context on the worst rank.
KvWorstRank(i) == Million * Product(<<LayersBound(i), HeadsBound(i), i.headDim, i.request.context>>)

Estimate(i) ==
  LET usable == Million * i.request.usable
      fixed == WeightsWorstRank(i) + Million * i.request.runtime
      headroom == usable - fixed - i.request.concurrency * KvWorstRank(i)
  IN  [input |-> i, fits |-> headroom >= 0,
       capacity |-> (IF usable > fixed THEN usable - fixed ELSE 0) \div KvWorstRank(i)]

Accepted(r) ==
  /\ HasGeometry(r) /\ ExpertsAgree(r) /\ Valid(Input(r))
  /\ r.artifact # None => EvidenceValid(r.artifact)

Init == given = {} /\ request \in Bases /\ step = "asked" /\ plan = None

\* The operator gives one more argument.
Give(k) ==
  /\ step = "asked" /\ k \notin given /\ Cardinality(given) < MaxGiven
  /\ \E v \in Options[k] : request' = [request EXCEPT ![k] = v]
  /\ given' = given \cup {k}
  /\ UNCHANGED <<step, plan>>

\* run_capacity
Plan ==
  /\ step = "asked"
  /\ IF Accepted(request) THEN step' = "planned" /\ plan' = Estimate(Input(request))
     ELSE step' = "refused" /\ UNCHANGED plan
  /\ UNCHANGED <<given, request>>

Next == Plan \/ \E k \in DOMAIN Options : Give(k)
Spec == Init /\ [][Next]_vars

-----------------------------------------------------------------------------
(* What there is to be placed, and every way to place it.                  *)

\* The matrices of the model, each with its number of copies.
Matrices(i, tied) ==
  LET field(f) == Field(i.request.config, f)
      q == field("heads") * i.headDim
      kv == i.kvHeads * i.headDim
  IN  {<<"embedding", 1, field("vocab"), field("hidden")>>,
       <<"head", IF tied THEN 0 ELSE 1, field("hidden"), field("vocab")>>,
       <<"query", i.layers, field("hidden"), q>>, <<"output", i.layers, q, field("hidden")>>,
       <<"key", i.layers, field("hidden"), kv>>, <<"value", i.layers, field("hidden"), kv>>,
       <<"gate", i.layers, field("hidden"), field("intermediate")>>,
       <<"up", i.layers, field("hidden"), field("intermediate")>>,
       <<"down", i.layers, field("intermediate"), field("hidden")>>,
       <<"norm", 2 * i.layers + 1, field("hidden"), 1>>}
Size(i, tied) == MapThenSumSet(LAMBDA m : m[2] * m[3] * m[4], Matrices(i, tied))

\* The number of parameters there may be: all the sizes of a config that does
\* not say whether its embeddings are tied, if nothing else is declared.
Sizes(i) ==
  LET r == i.request
  IN  IF r.params # None THEN {r.params}
      ELSE IF Field(r.config, "parameters") # None THEN {Field(r.config, "parameters")}
      ELSE {Size(i, tied) : tied \in IF "tied" \in DOMAIN r.config THEN {TRUE} ELSE BOOLEAN}

SumOf(f) == MapThenSumSet(LAMBDA x : f[x], DOMAIN f)
Splits(n, total, shares, bound) ==
  {f \in [1..n -> shares] : SumOf(f) = total /\ \A k \in 1..n : f[k] <= bound}
\* What the operator vouches for; else one rank may have it all.
Within(i, bound, all) == OrElse(i.request[bound], all)
\* Each head is on a rank or more.
HeadPlacements(i) ==
  {p \in [1..i.kvHeads -> (SUBSET (1..i.topology.tp)) \ {{}}] :
     \A t \in 1..i.topology.tp :
       Cardinality({h \in 1..i.kvHeads : t \in p[h]}) <= Within(i, "maxKvHeads", i.kvHeads)}

StageSplits(i) == Splits(i.topology.pp, 100, Grid, Within(i, "maxStage", 100))
SharedSplits(i) == Splits(i.topology.tp, 100, Grid, Within(i, "maxShared", 100))
ExpertSplits(i) == Splits(i.topology.ep, 100, Grid, Within(i, "maxExpert", 100))
LayerSplits(i) == Splits(i.topology.pp, i.layers, 0..i.layers, Within(i, "maxStageLayers", i.layers))
Heaviest(splits) == Max(UNION {{f[k] : k \in DOMAIN f} : f \in splits})
MostHeads(i) ==
  Max({Cardinality({h \in 1..i.kvHeads : t \in p[h]}) :
         p \in HeadPlacements(i), t \in 1..i.topology.tp})

\* The fullest rank of all placements of a model of n parameters.
FullestRank(i, n, sequences) ==
  LET r == i.request
      floor == IF r.artifact = None THEN 0 ELSE Floor(r.artifact, r.multiplier)
      base == Max({(n * r.bits) \div 8, floor})
      stage == Heaviest(StageSplits(i))
      routed == IF i.experts = None THEN 0 ELSE ExpertPercent(i) * Heaviest(ExpertSplits(i))
  IN  base * stage * ((100 - ExpertPercent(i)) * Heaviest(SharedSplits(i)) + routed + r.overhead * 100)
      + Million * (r.runtime + sequences * Heaviest(LayerSplits(i)) * MostHeads(i)
                               * i.headDim * r.context)

\* What is accepted can be placed within its bounds; it fits exactly when every
\* such placement of every model the config may mean fits on every rank, and
\* the capacity is the number of sequences for which that is so; an artifact
\* makes nothing fit that did not, and experts are never taken for dense.
PlanExact ==
  plan # None =>
    LET i == plan.input
        fits(sequences) == \A n \in Sizes(i) : FullestRank(i, n, sequences) <= Million * request.usable
    IN  /\ {} \notin {StageSplits(i), SharedSplits(i), ExpertSplits(i), LayerSplits(i), HeadPlacements(i)}
        /\ plan.fits <=> fits(request.concurrency)
        /\ plan.capacity > 0 => fits(plan.capacity)
        /\ ~fits(plan.capacity + 1)
        /\ plan.fits => Estimate(Input([request EXCEPT !.artifact = None])).fits
        /\ request.config # None /\ IsMoe(request.config) =>
             request.params # None /\ ExpertPercent(i) > 0
=============================================================================
