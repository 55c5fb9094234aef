----------------------------- MODULE MCPlanning -------------------------------
(* What there is to be run, with what, and what runs: the inspection of an *)
(* artifact, the capacity plan made of its report, the settings of a       *)
(* command, and the fingerprint of processes.  part is the one that is     *)
(* explored.                                                               *)
EXTENDS Artifact, TLC

CONSTANTS a, b, bad, meta, x, y, idx, Clear, BuiltIn

VARIABLES part,
          given, request, step, plan,
          procs, pins, changes, files, todoPids, pid, reading, reads, driver, processes, held,
          command, cli, env, document, damaged, added, phase, chosen, settings

planVars == <<given, request, step, plan>>
printVars == <<procs, pins, changes, files, todoPids, pid, reading, reads, driver, processes, held>>
callVars == <<command, cli, env, document, damaged, added, phase, chosen, settings>>

-----------------------------------------------------------------------------
Entry(n, bits, shape, s, e) == [name |-> n, bits |-> bits, shape |-> shape, start |-> s, end |-> e]
Shapes == {<<>>, <<2>>, <<0>>, <<31, 2>>}
Entries(names) ==
  {Entry(n, w, shape, s, e) : n \in names, w \in {4, 8}, shape \in Shapes, s \in 0..2, e \in 0..2}
Likely(names) == {t \in Entries(names) : t.start <= t.end}
File(f, contents) == [name |-> f, contents |-> contents, stamp |-> 0]
Held(header, payload) == [header |-> header, payload |-> payload]

\* One entry of any form, two of which the offsets are ordered, none, the
\* metadata alone, and three with it; bad is no sound name.
Headers ==
  {<<t>> : t \in Entries({a, bad})} \cup {<<t, u>> : t \in Likely({a}), u \in Likely({a, b})}
  \cup {<<>>, <<Entry(meta, 4, <<>>, 0, 0)>>}
  \cup {<<Entry(a, 8, <<>>, 0, 1), Entry(meta, 4, <<>>, 0, 0), t>> : t \in Likely({b})}
Singles ==
  {[disk |-> (x :> File(x, Held(h, p))) @@ (y :> None) @@ (idx :> None), extra |-> FALSE] :
     h \in Headers, p \in 0..2}

\* Two shards of one tensor or of both, under every index of the two names.
OfA == Entry(a, 8, <<>>, 0, 1)
OfB == Entry(b, 8, <<>>, 0, 1)
Both == <<OfA, Entry(b, 8, <<>>, 1, 2)>>
Shard(s) == {None} \cup {File(s, Held(h, p)) : h \in {<<OfA>>, <<OfB>>, Both}, p \in {1, 2}}
Indexed(map, total, size) == [map |-> map, total |-> total, size |-> size]
Indexes ==
  {File(idx, Indexed(map, total, 1)) :
     map \in UNION {[names -> {x, y}] : names \in SUBSET {a, b}}, total \in 1..2}
Sharded ==
  {[disk |-> (x :> f) @@ (y :> g) @@ (idx :> h), extra |-> more] :
     f \in Shard(x), g \in Shard(y), h \in Indexes \cup {None}, more \in BOOLEAN}

MCLayouts == {l \in Singles \cup Sharded : l.extra => l.disk[x] = None}
MCRewrites == {Held(<<OfA>>, 1), Held(<<OfB>>, 1), Held(<<>>, 0)}
MCIndexRewrites ==
  {Indexed((a :> x) @@ (b :> y), 2, 1), Indexed((a :> x) @@ (b :> x), 1, 1),
   Indexed((a :> x), 2, 1), Indexed((a :> x), 1, 2)}

\* A file that is the only one is not written to: an index shows as much.
ArtifactNext ==
  /\ Next
  /\ disk[idx] = None /\ Cardinality({s \in Shards : disk[s] # None}) = 1 => disk' = disk

-----------------------------------------------------------------------------
Plain == [config |-> None, params |-> 40, layers |-> 2, kvHeads |-> 2, headDim |-> 1, bits |-> 8,
          gpus |-> None, tp |-> None, pp |-> None, dp |-> None, ep |-> None,
          maxKvHeads |-> None, maxStageLayers |-> None, maxShared |-> None, maxStage |-> None,
          maxExpert |-> None, experts |-> None, expertPercent |-> None, overhead |-> 0,
          runtime |-> 1, context |-> 1, concurrency |-> 2, usable |-> 50, artifact |-> None,
          multiplier |-> <<1, 1>>]
Config == ("num_hidden_layers" :> 2) @@ ("num_attention_heads" :> 2) @@ ("hidden_size" :> 2)
          @@ ("intermediate_size" :> 1) @@ ("vocab_size" :> 2) @@ ("audited" :> 1)
From(config) ==
  [Plain EXCEPT !.config = config, !.params = None, !.layers = None, !.kvHeads = None,
                !.headDim = None, !.usable = 70]
Lacking(k) == [key \in DOMAIN Config \ {k} |-> Config[key]]
Configs ==
  {Lacking(k) : k \in {"vocab_size", "audited", "num_hidden_layers"}}
  \cup {(k :> v) @@ Config :
          k \in {"n_layer", "num_key_value_heads", "head_dim", "num_experts", "num_parameters",
                 "tied", "biased", "sparse", "n_routed_experts"}, v \in 0..3}
Evidence(bytes, elements) ==
  [files |-> 1, all |-> [count |-> 1, elements |-> bytes, bytes |-> bytes],
   dtypes |-> (8 :> [count |-> 1, elements |-> elements, bytes |-> bytes])]

Plan == INSTANCE Capacity
  WITH Bases <- {Plain, From(Config)} \cup {From(c) : c \in Configs},
       Options <- [gpus |-> {2, 4}, tp |-> {2, 3}, pp |-> {2, 3}, dp |-> {2}, ep |-> {2},
                   maxKvHeads |-> {1, 2, 3}, maxStageLayers |-> {1, 2}, maxShared |-> {40, 50, 60},
                   maxStage |-> {50, 60}, maxExpert |-> {50, 60}, experts |-> {2, 3},
                   expertPercent |-> {0, 50}, overhead |-> {10}, concurrency |-> {3},
                   usable |-> {30, 100, 1000}, layers |-> {1, 3}, kvHeads |-> {1, 3},
                   headDim |-> {2}, params |-> {60, 0}, multiplier |-> {<<3, 2>>}, bits |-> {16},
                   artifact |-> {Evidence(50, 50), Evidence(50, 49)}, runtime |-> {0}],
       MaxGiven <- 3, MaxWorld <- 4, Grid <- {0, 20, 40, 50, 60, 100}

\* A config that is not the ordinary one is asked for with one more argument.
PlanNext ==
  Plan!Next /\ (step' = "asked" /\ request.config \notin {None, Config} => Cardinality(given') <= 1)

-----------------------------------------------------------------------------
Word_(text) == [text |-> text, inline |-> None]
Inline(text, value) == [text |-> text, inline |-> value]
Words(texts) == [i \in DOMAIN texts |-> Word_(texts[i])]
Library(family, version) == [family |-> family, version |-> version]

\* A flag once, twice, without a value and with a bad one; options before an
\* entry point; a -m that is a script's; more words than are looked at.
Commands ==
  {Words(<<"vllm", "serve", "m", "--tensor-parallel-size", "2">>),
   Words(<<"vllm", "--model", "m">>) \o <<Inline("--tensor-parallel-size", "2")>>
     \o Words(<<"--tensor-parallel-size", "4">>),
   Words(<<"python3", "-W", "-m", "-m", "sglang.launch_server">>) \o <<Inline("--tp-size", "4")>>
     \o Words(<<"--", "--tp-size", "2">>),
   Words(<<"vllm", "serve", "m", "--model", "--dtype", "half">>)
     \o <<Inline("--tensor-parallel-size", "x")>>,
   Words(<<"vllm", "--model">>) \o <<Inline("m", "2")>> \o Words(<<"--tensor-parallel-size">>)
     \o <<Inline("2", "4")>>,
   Words(<<"python3", "train", "-m", "sglang.launch_server">>),
   Words(<<"vllm", "a", "a", "a", "a", "a", "a", "a", "a", "a">>)}
Mapped == {Library("torch", "2"), Library("cuda", None)}
Small == [argv |-> Words(<<"vllm">>), maps |-> {}]
Dead == [argv |-> <<>>, maps |-> {}]
Running ==
  {[argv |-> argv, maps |-> Mapped] : argv \in Commands}
  \cup {[argv |-> Words(<<"vllm", "serve", "m">>), maps |-> maps] :
          maps \in {None, Mapped, {Library("nvinfer", "8"), Library("nvinfer", "other"), Library("c", "6")}}}
  \cup {[argv |-> <<>>, maps |-> Mapped \cup {Library("torch", "1")}], Small, Dead}

Runtime == INSTANCE Fingerprint
  WITH Pids <- {1, 2}, Images <- Running, Zombie <- Dead, Versions <- {"v1", "v2"}, MaxArgs <- 9,
       MaxLibraries <- 2, MaxChanges <- 2, handle <- reading, todo <- todoPids

ASSUME RuntimeAssumption == Runtime!FingerprintAssumption

\* The second process is one of two and does not change; other driver files
\* than two that agree are read where there is no first one.
RuntimeInit ==
  /\ Runtime!Init
  /\ procs[2] # None => procs[2].image \in {Small, Dead}
  /\ files.sys # "v1" \/ files.proc # "v1" => procs[1] = None
RuntimeNext == Runtime!Next /\ (changes' # changes => pid = 1 /\ procs'[1] # procs[1])

-----------------------------------------------------------------------------
\* Of every option a value that a profile and one that the command line gives,
\* and what may be refused beside the value on the other layer.
CliValues ==
  [probes |-> {"remote", Clear}, probeToken |-> {"text", "file", Clear},
   insecureProbes |-> BOOLEAN, warning |-> {85, 95}, critical |-> {92},
   listen |-> {"local", "remote"}, allowRemote |-> BOOLEAN, apiToken |-> {"text", "file", Clear},
   prompt |-> {"words", "prompt", Clear}, workload |-> {"mine"}, expect |-> {"this", Clear},
   key |-> {"text", "file", Clear}, url |-> {"local", "remote"}, model |-> {"m"},
   insecure |-> BOOLEAN, stream |-> BOOLEAN, maxTtft |-> {1, Clear}, count |-> {2},
   concurrency |-> {2}]
ProfileValues ==
  [probes |-> {"local"}, probeToken |-> {"file"}, insecureProbes |-> {TRUE}, warning |-> {95},
   critical |-> {92}, listen |-> {"local", "remote"}, allowRemote |-> BOOLEAN,
   apiToken |-> {"file"}, prompt |-> {"prompt"}, workload |-> {"theirs"}, expect |-> {"that"},
   key |-> {"file"}, url |-> {"remote"}, model |-> {"n"}, insecure |-> BOOLEAN,
   stream |-> BOOLEAN, maxTtft |-> {2}, count |-> {2}, concurrency |-> {2}]

NoOptions == [o \in DOMAIN ProfileValues |-> None]
\* A profile with everything in it, and two that are half way there.
Remote == [NoOptions EXCEPT !.listen = "remote", !.allowRemote = TRUE, !.apiToken = "file",
                            !.probes = "local", !.probeToken = "file"]
Custom == [NoOptions EXCEPT !.prompt = "prompt", !.workload = "theirs", !.expect = "that",
                            !.model = "n", !.key = "file", !.maxTtft = 2]
Document(default, profile) ==
  [wellFormed |-> TRUE, default |-> default,
   profiles |-> [n \in {"local", "other"} |-> IF n = "local" THEN profile ELSE NoOptions]]
Profiles == {Document(n, p) : n \in {None, "local"}, p \in {NoOptions, Remote, Custom}}
         \cup {Document("absent", NoOptions)}
Calls ==
  {[command |-> c, cli |-> [config |-> called[1], profile |-> called[2]] @@ NoOptions,
    env |-> [o \in {"probeToken", "apiToken", "key"} |-> {}], document |-> called[3],
    damaged |-> {}] :
     c \in {"snapshot", "serve", "canary", "benchmark", "history"},
     called \in ({TRUE} \X {None, "local", "missing"} \X (Profiles \cup {None}))
                 \cup ({FALSE} \X {None, "local"} \X {None})}

Call == INSTANCE Settings
  WITH CliChoices <- CliValues, ProfileChoices <- ProfileValues, Requests <- Calls,
       MaxGiven <- 2, given <- added

ASSUME CallAssumption == Call!SettingsAssumption

CallInit ==
  /\ Call!Init
  /\ part = "call" \/ (command = "history" /\ document = None /\ ~cli.config /\ cli.profile = None)
\* The other profile matters only if it is not valid, an option of a profile
\* only to the command that knows it.
CallNext ==
  /\ Call!Next
  /\ document' # document /\ document # None =>
       /\ \A n \in DOMAIN document.profiles \ {"local"} :
            document'.profiles[n] # document.profiles[n] => document'.profiles[n].warning # None
       /\ \A o \in DOMAIN NoOptions \ Call!Known :
            document'.profiles["local"][o] = document.profiles["local"][o]

-----------------------------------------------------------------------------
MCInit ==
  /\ part \in {"artifact", "plan", "fingerprint", "call"}
  /\ part = "artifact" \/ (disk = [f \in Files |-> None] /\ extra = FALSE)
  /\ part = "plan" \/ request = Plain
  /\ \/ part = "fingerprint"
     \/ /\ procs = [p \in {1, 2} |-> None] /\ pins = TRUE
        /\ files = [f \in {"sys", "proc"} |-> "v1"]
  /\ Init /\ Plan!Init /\ RuntimeInit /\ CallInit

MCNext ==
  \/ part = "artifact" /\ ArtifactNext /\ UNCHANGED <<part, planVars, printVars, callVars>>
  \/ part = "plan" /\ PlanNext /\ UNCHANGED <<part, vars, printVars, callVars>>
  \/ part = "fingerprint" /\ RuntimeNext /\ UNCHANGED <<part, vars, planVars, callVars>>
  \/ part = "call" /\ CallNext /\ UNCHANGED <<part, vars, planVars, printVars>>

MCSpec == MCInit /\ [][MCNext]_<<part, vars, planVars, printVars, callVars>>

-----------------------------------------------------------------------------
\* What is reported of an artifact is earned, and a plan accepts it as
\* evidence; it is only refused if it is not well formed.
ReportIsEvidence == InspectionExact /\ (report # None => Plan!EvidenceValid(report))

\* A plan fits exactly if every placement within its bounds does.
PlanExact == Plan!PlanExact

\* What is told of a process was true of one program that ran as it.
FingerprintSound == Runtime!FingerprintSound

\* A command starts with what its layers say, or is refused for a cause.
SettingsSound == Call!SettingsSound
=============================================================================
