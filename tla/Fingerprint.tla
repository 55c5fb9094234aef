----------------------------- MODULE Fingerprint ------------------------------
(***************************************************************************)
(* The runtime fingerprint of selected processes: src/operations/runtime.rs *)
(* over the Linux collector src/telemetry/runtime.rs, which reads stat,    *)
(* cmdline, maps, cmdline and stat of each process through a descriptor of *)
(* its directory, while processes execute other programs, end and have     *)
(* their numbers taken by others.                                          *)
(*                                                                         *)
(* A word of a command line is [text, inline]: inline is what follows its  *)
(* equals sign, or None.  A mapped file is [family, version]: version is   *)
(* None without a suffix and "other" if the suffix is not numeric.  What   *)
(* parses is told by sets of texts.                                        *)
(***************************************************************************)
EXTENDS Integers, Sequences, FiniteSets, TLC

CONSTANTS Pids,       \* the processes that are asked for
          Images,     \* what may run: [argv, maps], maps None if it is unreadable
          Zombie,     \* what is left of a process that nobody waited for
          Versions,   \* of the driver
          MaxArgs,    \* MAX_CMDLINE_ARGS
          MaxLibraries, \* MAX_RUNTIME_FINGERPRINT_LIBRARIES_PER_PROCESS
          MaxChanges, \* bound on what happens to the processes
          None

FingerprintAssumption ==
  /\ MaxChanges \in Nat /\ None \notin Pids \cup [born : Nat, image : Images \cup {Zombie}]
  /\ \A i \in Images \cup {Zombie} : i.argv \in Seq({i.argv[k] : k \in DOMAIN i.argv})

VARIABLES
  procs,   \* number -> None or [born, image]
  pins,    \* whether a read through the descriptor stays with the process it
           \* was opened for; if not, it goes to whoever has the number
  changes, \* how often something happened; a start time that is not reused
  files,   \* the two driver files: a version, Missing or Unavailable
  todo,    \* processes still to be inspected
  pid,     \* the one that is, None between two
  handle,  \* the start time of the process the descriptor was opened for
  reads,   \* what was read of it so far
  driver,  \* driver evidence, None before
  processes, \* number -> fingerprint
  held     \* number -> what had it since its first stat was read, in order

vars == <<procs, pins, changes, files, todo, pid, handle, reads, driver, processes, held>>
world == <<procs, changes, held>>

-----------------------------------------------------------------------------
(* The command line                                                        *)

Engines == [vllm |-> "vllm", tritonserver |-> "triton"]
Modules == ("vllm.entrypoints.openai.api_server" :> "vllm") @@ ("sglang.launch_server" :> "sglang")

AsWord(text) == [text |-> text, inline |-> None]
Plain(word, text) == word = AsWord(text)
Dashed(word) ==
  word.text \in {"-m", "-c", "-W", "-u", "--", "--model", "--model-path", "--model-repository",
                 "--tensor-parallel-size", "--tp-size", "--dtype"}

\* launch_field, of three of the engines and three of the fields.
FlagsOf == [vllm |-> [model |-> {"--model"}, tp |-> {"--tensor-parallel-size"}, dtype |-> {"--dtype"}],
            sglang |-> [model |-> {"--model-path"}, tp |-> {"--tp-size", "--tensor-parallel-size"},
                        dtype |-> {"--dtype"}],
            triton |-> [model |-> {"--model-repository"}, tp |-> {}, dtype |-> {}]]
Fields == {"model", "tp", "dtype"}

\* apply_launch_value: the canonical value of a word; of a model only that
\* there is one.
Canonical == [tp |-> ("2" :> 2) @@ ("4" :> 4), dtype |-> ("half" :> "fp16") @@ ("fp16" :> "fp16")]
Parsed(field, word) ==
  IF word = None THEN None
  ELSE IF field = "model" THEN (IF Plain(word, "") THEN None ELSE TRUE)
  ELSE IF word.inline = None /\ word.text \in DOMAIN Canonical[field]
       THEN Canonical[field][word.text] ELSE None

\* python_entrypoint_engine: the first word that is no option of the
\* interpreter and no value of one must be -m; else nothing is recognized.
OptionValue(argv, i) == i > 2 /\ Plain(argv[i - 1], "-W")
Entry(argv) ==
  {i \in 2..(Len(argv) - 1) :
     /\ Plain(argv[i], "-m") /\ ~OptionValue(argv, i)
     /\ \A j \in 2..(i - 1) : OptionValue(argv, j) \/ \E o \in {"-W", "-u"} : Plain(argv[j], o)}

\* recognize_engines: engine and the last word before its arguments.
Launch(argv) ==
  IF argv = <<>> THEN {}
  ELSE {[engine |-> Engines[e], after |-> 1] : e \in {e \in DOMAIN Engines : Plain(argv[1], e)}}
       \cup {[engine |-> Modules[argv[i + 1].text], after |-> i + 1] :
               i \in {i \in Entry(argv) : /\ Plain(argv[1], "python3")
                                          /\ argv[i + 1].text \in DOMAIN Modules
                                          /\ argv[i + 1].inline = None}}

\* The arguments of the engine: up to a lone --.
Arguments(argv, after) ==
  {i \in (after + 1)..Len(argv) : \A j \in (after + 1)..i : ~Plain(argv[j], "--")}

\* A flag takes the whole next word, an equals sign in it or not, unless it
\* has its value inline; a word it takes is not dashed and so never a flag.
ValueAt(argv, args, i) ==
  IF argv[i].inline # None THEN AsWord(argv[i].inline)
  ELSE IF i + 1 \in args /\ ~Dashed(argv[i + 1]) THEN argv[i + 1] ELSE None

\* Where a field is given, and as what: `vllm serve MODEL` gives a model, too.
Given(argv, launch, field) ==
  LET args == Arguments(argv, launch.after)
  IN  {<<i, Parsed(field, ValueAt(argv, args, i))>> :
         i \in {i \in args : argv[i].text \in FlagsOf[launch.engine][field]}}
      \cup IF field = "model" /\ launch.engine = "vllm"
           THEN {<<-i, TRUE>> : i \in {i \in args : /\ Plain(argv[i], "serve") /\ i + 1 \in args
                                                  /\ ~Dashed(argv[i + 1]) /\ ~Plain(argv[i + 1], "")}}
           ELSE {}

Observation(state, value) == [state |-> state, value |-> value]
NotObserved == [f \in Fields |-> Observation("not_observed", None)]

\* observe_value, over all that is given for a field.
Observed(given) ==
  IF given = {} THEN Observation("not_observed", None)
  ELSE IF Cardinality(given) > 1 THEN Observation("ambiguous", None)
  ELSE LET value == (CHOOSE g \in given : TRUE)[2]
       IN  IF value = None THEN Observation("present_unparsed", None)
           ELSE Observation("observed", value)

\* parse_cmdline
ParseCommand(argv) ==
  LET launches == Launch(argv)
  IN  [engines |-> {l.engine : l \in launches},
       launch |-> IF launches = {} THEN NotObserved
                  ELSE LET l == CHOOSE l \in launches : TRUE
                       IN  [f \in Fields |-> Observed(Given(argv, l, f))]]

-----------------------------------------------------------------------------
(* Sources and fingerprints                                                *)

Source(state, reason) == [state |-> state, reason |-> reason]
NoCommand == [engines |-> {}, launch |-> NotObserved]
NoMaps == [libraries |-> {}, frameworks |-> {}]

\* reduce_cmdline, of two reads.
Command(first, second) ==
  IF "error" \in DOMAIN first
  THEN [source |-> Source("unavailable", first.error), evidence |-> NoCommand]
  ELSE IF "error" \in DOMAIN second
  THEN [source |-> Source("unavailable", second.error), evidence |-> NoCommand]
  ELSE IF first # second
  THEN [source |-> Source("unavailable", "changed"), evidence |-> NoCommand]
  ELSE IF Len(first.ok) > MaxArgs
  THEN [source |-> Source("unavailable", "limit"), evidence |-> NoCommand]
  ELSE [source |-> Source(IF first.ok = <<>> THEN "not_present" ELSE "observed", None),
        evidence |-> ParseCommand(first.ok)]

\* recognize_library and frameworks_from_libraries
FrameworkOf == [torch |-> "pytorch", nvinfer |-> "tensorrt"]
Families == {"cuda", "torch", "nvinfer"}
Libraries(maps) == {l \in maps : l.family \in Families /\ l.version # "other"}
ParseMaps(maps) ==
  [libraries |-> Libraries(maps),
   frameworks |-> {FrameworkOf[l.family] : l \in {l \in Libraries(maps) : l.family \in DOMAIN FrameworkOf}}]

\* reduce_maps
Maps(read) ==
  IF "error" \in DOMAIN read
  THEN [source |-> Source("unavailable", read.error), evidence |-> NoMaps]
  ELSE IF Cardinality(Libraries(read.ok)) > MaxLibraries
  THEN [source |-> Source("unavailable", "limit"), evidence |-> NoMaps]
  ELSE [source |-> Source("observed", None), evidence |-> ParseMaps(read.ok)]

Fingerprint(identity, sources, command, maps) ==
  [identity |-> identity, sources |-> sources, command |-> command, maps |-> maps]

\* unavailable_process and identity_lost_process
Unavailable(reason) ==
  Fingerprint(CASE reason = "exited" -> "exited" [] reason = "reused" -> "reused" [] OTHER -> "unavailable",
              [identity |-> Source("unavailable", reason), command |-> Source("skipped", reason),
               maps |-> Source("skipped", reason)], NoCommand, NoMaps)

\* The end of inspect_process_linux.
\* Seeded fault: that the second stat succeeds is enough.
PublishedUnlessExited(r) ==
  LET command == Command(r[2], r[4])
      maps == Maps(r[3])
  IN  IF "error" \in DOMAIN r[5] THEN Unavailable(r[5].error)
      ELSE Fingerprint("stable", [identity |-> Source("observed", None), command |-> command.source,
                                  maps |-> maps.source], command.evidence, maps.evidence)
Published(r) ==
  LET command == Command(r[2], r[4])
      maps == Maps(r[3])
  IN  IF "error" \in DOMAIN r[5] THEN Unavailable(r[5].error)
      ELSE IF r[1] # r[5] THEN Unavailable("reused")
      ELSE Fingerprint("stable", [identity |-> Source("observed", None), command |-> command.source,
                                  maps |-> maps.source], command.evidence, maps.evidence)

\* inspect_driver
Driver(sys, proc) ==
  LET said == {sys, proc} \cap Versions
  IN  [state |-> IF Cardinality(said) = 2 THEN "conflict"
                 ELSE IF said # {} THEN "observed"
                 ELSE IF {sys, proc} = {"missing"} THEN "not_present" ELSE "unavailable",
       versions |-> said]

\* collection_is_complete
Complete(fingerprints) ==
  /\ DOMAIN fingerprints = Pids
  /\ \A p \in Pids : /\ fingerprints[p].identity = "stable"
                     /\ \A s \in DOMAIN fingerprints[p].sources :
                          fingerprints[p].sources[s] = Source("observed", None)

-----------------------------------------------------------------------------
Init ==
  /\ procs \in [Pids -> {None} \cup {[born |-> 0, image |-> i] : i \in Images}]
  /\ pins \in BOOLEAN /\ changes = 0
  /\ files \in [{"sys", "proc"} -> Versions \cup {"missing", "unavailable"}]
  /\ todo = Pids /\ pid = None /\ handle = None /\ reads = <<>>
  /\ driver = None /\ processes = <<>>
  /\ held = [p \in Pids |-> <<>>]

\* What befalls a process: another program, its end, a successor.
Become(p, process) ==
  /\ changes < MaxChanges /\ changes' = changes + 1
  /\ procs' = [procs EXCEPT ![p] = process]
  /\ held' = IF p = pid /\ reads # <<>> /\ process # None
               THEN [held EXCEPT ![p] = Append(@, process)] ELSE held
  /\ UNCHANGED <<pins, files, todo, pid, handle, reads, driver, processes>>

Exec(p) ==
  /\ procs[p] # None /\ procs[p].image # Zombie
  /\ \E i \in Images \cup {Zombie} : Become(p, [procs[p] EXCEPT !.image = i])
Exit(p) == procs[p] # None /\ Become(p, None)
Spawn(p) == procs[p] = None /\ \E i \in Images : Become(p, [born |-> changes + 1, image |-> i])

InspectDriver ==
  /\ driver = None
  /\ driver' = Driver(files.sys, files.proc)
  /\ UNCHANGED <<world, pins, files, todo, pid, handle, reads, processes>>

\* open_process_directory, of the next number.
Close(p, fingerprint) ==
  /\ processes' = [q \in DOMAIN processes \cup {p} |-> IF q = p THEN fingerprint ELSE processes[q]]
  /\ todo' = todo \ {p} /\ pid' = None /\ handle' = None /\ reads' = <<>>

Open ==
  /\ driver # None /\ pid = None
  /\ \E p \in todo :
       /\ \A q \in todo : p <= q
       /\ IF procs[p] = None
          THEN Close(p, Unavailable("exited"))
          ELSE /\ pid' = p /\ handle' = procs[p].born
               /\ UNCHANGED <<todo, reads, processes>>
  /\ UNCHANGED <<world, pins, files, driver>>

Reachable == procs[pid] # None /\ (pins => procs[pid].born = handle)
Child(name) ==
  IF ~Reachable THEN [error |-> "exited"]
  ELSE CASE name = "stat" -> [ok |-> procs[pid].born]
         [] name = "cmdline" -> [ok |-> procs[pid].image.argv]
         [] name = "maps" -> IF procs[pid].image.maps = None THEN [error |-> "denied"]
                             ELSE [ok |-> procs[pid].image.maps]

\* inspect_process_linux: the five reads.  If the first fails, there is only
\* the last one, and what that says comes before what the first one said.
Order == <<"stat", "cmdline", "maps", "cmdline", "stat">>
Read ==
  /\ pid # None
  /\ IF Len(reads) = 1 /\ "error" \in DOMAIN reads[1]
     THEN LET last == Child("stat")
          IN  Close(pid, Unavailable(IF "error" \in DOMAIN last THEN last.error ELSE reads[1].error))
     ELSE LET r == Append(reads, Child(Order[Len(reads) + 1]))
          IN  IF Len(r) < Len(Order)
              THEN reads' = r /\ UNCHANGED <<todo, pid, handle, processes>>
              ELSE Close(pid, Published(r))
  /\ held' = IF reads = <<>> /\ Reachable THEN [held EXCEPT ![pid] = <<procs[pid]>>] ELSE held
  /\ UNCHANGED <<procs, changes, pins, files, driver>>

Next ==
  \/ InspectDriver \/ Open \/ Read
  \/ \E p \in Pids : Exec(p) \/ Exit(p) \/ Spawn(p)

Spec == Init /\ [][Next]_vars

-----------------------------------------------------------------------------
\* The values of a field that the arguments of an engine hold, told from the
\* words alone.
ValuesOf(argv, engine, field) ==
  LET words == {i \in DOMAIN argv : \E l \in Launch(argv) : l.engine = engine /\ l.after < i}
      end == {i \in words : Plain(argv[i], "--")}
      flags == {i \in words : argv[i].text \in FlagsOf[engine][field] /\ \A j \in end : i < j}
  IN  [count |-> Cardinality(flags),
       values |-> {AsWord(argv[i].inline) : i \in {i \in flags : argv[i].inline # None}}
                  \cup {argv[i + 1] : i \in {i \in flags : i < Len(argv)}}]

\* What is told of a process was true of one and the same program that ran
\* under its number, unless a program came back within the five reads; of a
\* process that ended or whose number was taken nothing is told but that.  An
\* argument is only told when the command line has no second value for it; and
\* a complete report has every process asked for, each with a command line and
\* its mappings.
FingerprintSound ==
  \A p \in DOMAIN processes :
    LET f == processes[p]
        ran == {held[p][k].image : k \in DOMAIN held[p]}
        tells(i) ==
          /\ f.sources.command.state = "observed" => ParseCommand(i.argv) = f.command
          /\ f.sources.maps.state = "observed" => i.maps # None /\ ParseMaps(i.maps) = f.maps
    IN  /\ IF f.identity = "stable" THEN \A k \in DOMAIN held[p] : held[p][k].born = held[p][1].born
           ELSE f.command = NoCommand /\ f.maps = NoMaps
        /\ f.identity = "stable" /\ Len(held[p]) <= 2 => \E i \in ran : tells(i)
        /\ \A e \in f.command.engines, field \in Fields :
             f.command.launch[field].state = "observed" =>
               \E i \in ran :
                 LET said == ValuesOf(i.argv, e, field)
                 IN  /\ e \in ParseCommand(i.argv).engines
                     /\ said.count <= 1
                     /\ field # "model" =>
                          /\ said.count = 1
                          /\ \E v \in said.values :
                               Parsed(field, v) = f.command.launch[field].value
        /\ Complete(processes) => \E i, j \in ran : i.argv # <<>> /\ j.maps # None
        /\ driver.state = "observed" => driver.versions # {} /\ driver.versions \subseteq {files.sys, files.proc}
=============================================================================
