------------------------------- MODULE Settings --------------------------------
(***************************************************************************)
(* The settings of a command: src/config, and what src/application makes   *)
(* of the command line, the environment and the selected profile before    *)
(* anything is collected, served or sent.                                  *)
(*                                                                         *)
(* An option is set on one of three layers, "cli", "env" and "profile", or *)
(* left to its default.  Where the command-line parser itself reads an     *)
(* environment variable (the target and the model of a request, the path   *)
(* of the document) the two layers are one here, "cli".  Values are small: *)
(* an address or a URL is "local" or "remote", a credential or a prompt is *)
(* "text" or a "file", a flag that clears or inverts is the value Clear or *)
(* FALSE of the option.  Commands: "serve", "snapshot" (top resolves its   *)
(* settings the same way), "canary", "benchmark", and "history" for all    *)
(* that know no profile.  One option stands for the others that the same   *)
(* expression resolves: the VRAM thresholds for those of temperature and   *)
(* cache, the TTFT gate for the other gates.                               *)
(***************************************************************************)
EXTENDS Integers, FiniteSets, Sequences

CONSTANTS CliChoices, ProfileChoices,   \* values each option may be given
          Requests,       \* the command and its layers to begin with
          MaxGiven,       \* options a user adds to a request
          BuiltIn,        \* the built-in prompt, its identity and its expectation
          Clear, None

VARIABLES
  command, cli, env,   \* what the command was called with
  document,            \* the file --config names, or None
  damaged,             \* references whose file is missing, unsafe or malformed
  given,               \* options added, bounded by MaxGiven
  phase,               \* where the command is
  chosen,              \* the selected profile, Empty if there is none
  settings             \* what the command will run with

vars == <<command, cli, env, document, damaged, given, phase, chosen, settings>>

Monitors == {"serve", "snapshot"}
Actives == {"canary", "benchmark"}

-----------------------------------------------------------------------------
(* Layers.                                                                 *)

Empty == [o \in DOMAIN ProfileChoices |-> None]

\* Option::or_else
Or(a, b) == IF a # None THEN a ELSE b

\* The layers in their order, for an option no flag can clear ...
Setting(o, default) == Or(cli[o], Or(chosen[o], default))
\* ... and for one that a flag can.
Clearable(o) == IF cli[o] = Clear THEN None ELSE Or(cli[o], chosen[o])

Conflict == [layer |-> Clear, form |-> Clear]

\* credential_inputs: where the credential is, Conflict when both forms are set.
Credential(o) ==
  CASE cli[o] = Clear -> None
    [] cli[o] \notin {Clear, None} -> [layer |-> "cli", form |-> cli[o]]
    [] cli[o] = None /\ Cardinality(env[o]) = 2 -> Conflict
    [] cli[o] = None /\ Cardinality(env[o]) = 1 ->
         [layer |-> "env", form |-> CHOOSE f \in env[o] : TRUE]
    [] cli[o] = None /\ env[o] = {} /\ chosen[o] # None -> [layer |-> "profile", form |-> "file"]
    [] OTHER -> None

\* resolve_secret and resolve_canary_prompt: a text is checked, a file is read
\* once, bounded, and trusted by its owner, its mode and its ancestors.
Sound(ref) == ref = None \/ ref \notin damaged

-----------------------------------------------------------------------------
(* The document.                                                           *)

Ordered(warning, critical) == 0 <= warning /\ warning < critical /\ critical <= 100

\* The defaults the profile is checked against and those it is merged with
\* are written in two places of the source.
ProfileDefault == [warning |-> 90, critical |-> 99, count |-> 1, concurrency |-> 1]
MergedDefault == [warning |-> 90, critical |-> 99, count |-> 1, concurrency |-> 1]

\* validate_profile, validate_monitor_health, validate_canary
ValidProfile(p) ==
  LET value(o) == Or(p[o], ProfileDefault[o])
  IN  /\ p.probes = "remote" => p.insecureProbes = TRUE
      /\ Ordered(value("warning"), value("critical"))
      /\ p.listen = "remote" => p.allowRemote = TRUE
      /\ p.url = "remote" => p.insecure = TRUE
      /\ (p.prompt = None) <=> (p.workload = None)
      /\ 1 <= value("concurrency") /\ value("concurrency") <= value("count")
      /\ p.stream = FALSE => p.maxTtft = None

\* load_config, parse_config and validate_config: the file is a trusted one of
\* its size, the schema's version and fields are known, and every profile is
\* valid, the selected one or not.
Loads(d) ==
  /\ d # None /\ d.wellFormed
  /\ \A n \in DOMAIN d.profiles : ValidProfile(d.profiles[n])
  /\ d.default # None => d.default \in DOMAIN d.profiles

\* select_profile
Selected(d, requested) == Or(requested, d.default)
Selectable(d, requested) == Selected(d, requested) \in DOMAIN d.profiles \cup {None}

\* CONFIG_TEMPLATE
Template ==
  [wellFormed |-> TRUE, default |-> "local",
   profiles |-> [n \in {"local"} |->
     [Empty EXCEPT !.probes = "local", !.insecureProbes = FALSE, !.warning = 90, !.critical = 99,
                   !.listen = "local", !.allowRemote = FALSE, !.url = "local", !.count = 1,
                   !.concurrency = 1, !.stream = TRUE, !.insecure = FALSE, !.expect = BuiltIn]]]
\* What a write that failed half way leaves.
Torn == [wellFormed |-> FALSE, default |-> None, profiles |-> [n \in {} |-> Empty]]

-----------------------------------------------------------------------------
(* The command line.                                                       *)

\* The options a command knows, of those that are modelled.
Known ==
  CASE command = "snapshot" -> {"probes", "probeToken", "insecureProbes", "warning", "critical"}
    [] command = "serve" -> {"probes", "probeToken", "insecureProbes", "warning", "critical",
                             "listen", "allowRemote", "apiToken"}
    [] command = "canary" -> {"prompt", "workload", "expect", "key", "url", "model", "insecure",
                              "stream", "maxTtft", "count", "concurrency"}
    [] command = "benchmark" -> {"prompt", "workload", "expect", "key", "url", "model", "insecure",
                                 "stream"}
    [] OTHER -> {}

\* The conflicts the parser of the command line refuses.
Legal(c) ==
  /\ c.probes = Clear => c.probeToken = None /\ c.insecureProbes = None
  /\ c.prompt = Clear => c.workload = None
  /\ c.stream = FALSE => c.maxTtft \in {None, Clear}

-----------------------------------------------------------------------------
(* What the constants are.                                                 *)

Options ==
  {"probes", "probeToken", "insecureProbes", "warning", "critical", "listen", "allowRemote",
   "apiToken", "prompt", "workload", "expect", "key", "url", "model", "insecure", "stream",
   "maxTtft", "count", "concurrency"}

\* A value of each option is what the parsers accept.
ProfileTyped(p) ==
  /\ p = [o \in Options |-> p[o]]
  /\ p.listen \in {None, "local", "remote"} /\ p.allowRemote \in {None} \cup BOOLEAN
  /\ p.workload # Clear
CliTyped(c) ==
  /\ c = [o \in Options \cup {"config", "profile"} |-> c[o]]
  /\ c.listen \in {None, "local", "remote"} /\ c.allowRemote \in {None} \cup BOOLEAN
  /\ c.prompt \in {None, Clear, "words", "prompt"}
  /\ \A o \in {"probeToken", "apiToken", "key"} : c[o] \in {None, Clear, "text", "file"}
  /\ c.config \in BOOLEAN /\ Legal(c)
DocumentTyped(d) ==
  \/ d = None
  \/ /\ d = [wellFormed |-> d.wellFormed, default |-> d.default, profiles |-> d.profiles]
     /\ d.profiles = [n \in DOMAIN d.profiles |-> d.profiles[n]]
     /\ \A n \in DOMAIN d.profiles : ProfileTyped(d.profiles[n])
EnvTyped(e) == e \in [{"probeToken", "apiToken", "key"} -> SUBSET {"text", "file"}]

SettingsAssumption ==
  /\ DOMAIN ProfileChoices = Options /\ DOMAIN CliChoices = Options
  /\ Clear \notin {None, BuiltIn} /\ None # BuiltIn
  /\ {None, Clear, BuiltIn} \cap BOOLEAN = {}
  /\ {None, Clear, BuiltIn}
       \cap {"local", "remote", "cli", "env", "profile", "words", "prompt"} = {}
  /\ {None, BuiltIn} \cap [layer : {Clear, "cli", "env", "profile"},
                          form : {Clear, "text", "file", "words", "prompt"}] = {}
  /\ CliChoices.listen \subseteq {"local", "remote"} /\ CliChoices.allowRemote \subseteq BOOLEAN
  /\ CliChoices.prompt \subseteq {"words", "prompt", Clear}
  /\ \A o \in {"probeToken", "apiToken", "key"} : CliChoices[o] \subseteq {"text", "file", Clear}
  /\ ProfileChoices.listen \subseteq {"local", "remote"}
  /\ ProfileChoices.allowRemote \subseteq BOOLEAN /\ Clear \notin ProfileChoices.workload
  /\ \A r \in Requests : CliTyped(r.cli) /\ EnvTyped(r.env) /\ DocumentTyped(r.document)

-----------------------------------------------------------------------------
(* The request, and what a user adds to it.                                *)

Idle == [listen |-> None]

Init ==
  /\ \E r \in Requests :
       /\ command = r.command /\ cli = r.cli /\ env = r.env /\ document = r.document
       /\ damaged = r.damaged
  /\ given = 0 /\ phase = "asked" /\ chosen = Empty /\ settings = Idle

Asked == phase = "asked" /\ UNCHANGED <<command, phase, chosen, settings>>
More == given < MaxGiven /\ given' = given + 1

\* A user adds an option on one of the layers.
GiveCli(o, v) ==
  /\ Asked /\ More /\ o \in Known /\ cli[o] = None
  /\ cli' = [cli EXCEPT ![o] = v] /\ Legal(cli')
  /\ UNCHANGED <<env, document, damaged>>
GiveEnv(o, form) ==
  /\ Asked /\ More /\ o \in Known /\ form \notin env[o]
  /\ env' = [env EXCEPT ![o] = @ \cup {form}]
  /\ UNCHANGED <<cli, document, damaged>>
GiveProfile(n, o, v) ==
  /\ Asked /\ More /\ cli.config /\ document # None /\ n \in DOMAIN document.profiles
  /\ document.profiles[n][o] = None
  /\ document' = [document EXCEPT !.profiles[n][o] = v]
  /\ UNCHANGED <<cli, env, damaged>>

\* A file that is named is lost or spoiled.
Spoil(ref) ==
  /\ Asked /\ More /\ damaged' = damaged \cup {ref} /\ damaged' # damaged
  /\ UNCHANGED <<cli, env, document>>

\* init_config never replaces a file, and a write may fail half way.  (Over
\* an existing one it is refused and nothing changes.)
ConfigInit ==
  /\ Asked /\ More /\ cli.config /\ document = None
  /\ document' \in {Template, Torn}
  /\ UNCHANGED <<cli, env, damaged>>

-----------------------------------------------------------------------------
(* The steps of a command.                                                 *)

Given == <<command, cli, env, document, damaged, given>>

Refuse == phase' = "refused" /\ UNCHANGED <<Given, chosen, settings>>

Aware == command \in Monitors \cup Actives

\* run: only some commands know profiles; a profile needs a document.
Dispatched ==
  /\ ~Aware => ~cli.config /\ cli.profile = None
  /\ cli.profile # None => cli.config
  /\ Aware /\ cli.config => Loads(document) /\ Selectable(document, cli.profile)

Load ==
  /\ phase = "asked"
  /\ \/ ~Dispatched /\ Refuse
     \/ /\ Dispatched
        /\ phase' = "loaded"
        /\ LET name == IF cli.config THEN Selected(document, cli.profile) ELSE None
           IN  chosen' = IF name = None THEN Empty ELSE document.profiles[name]
        /\ UNCHANGED <<Given, settings>>

\* resolve_monitor_health, monitor_args and the settings of run_serve.
MonitorSettings ==
  LET probes == Clearable("probes")
      serves == command = "serve"
  IN  [probes |-> probes,
       probeToken |-> IF probes = None THEN None ELSE Credential("probeToken"),
       insecureProbes |-> Setting("insecureProbes", FALSE),
       warning |-> Setting("warning", MergedDefault.warning),
       critical |-> Setting("critical", MergedDefault.critical),
       listen |-> IF serves THEN Setting("listen", "local") ELSE None,
       apiToken |-> IF serves THEN Credential("apiToken") ELSE None,
       unauthenticated |-> serves /\ cli.apiToken = Clear,
       allowRemote |-> serves /\ Setting("allowRemote", FALSE)]

ResolveMonitor ==
  /\ phase = "loaded" /\ command \in Monitors
  /\ LET s == MonitorSettings
         unused == s.probes = None /\ (cli.probeToken # None \/ cli.insecureProbes # None)
     IN  \/ (unused \/ Conflict \in {s.probeToken, s.apiToken}) /\ Refuse
         \/ /\ ~unused /\ Conflict \notin {s.probeToken, s.apiToken}
            /\ settings' = s /\ phase' = "resolved"
            /\ UNCHANGED <<Given, chosen>>

\* validate_args
ValidArgs(s) ==
  /\ s.listen = "remote" => s.allowRemote /\ s.apiToken # None
  /\ s.listen = "local" => s.apiToken # None \/ s.unauthenticated
  /\ Ordered(s.warning, s.critical)

\* The credentials are read only now, that of the listener last: cycle_options,
\* start_exporter.
StartMonitor ==
  /\ phase = "resolved" /\ command \in Monitors
  /\ LET s == settings
         starts == ValidArgs(s) /\ Sound(s.probeToken) /\ Sound(s.apiToken)
     IN  \/ ~starts /\ Refuse
         \/ starts /\ phase' = "started" /\ UNCHANGED <<Given, chosen, settings>>

\* The prompt of run_canary and of the benchmark, which is read at once.
Prompt ==
  CASE cli.prompt = Clear -> BuiltIn
    [] cli.prompt \notin {Clear, None} -> [layer |-> "cli", form |-> cli.prompt]
    [] cli.prompt = None -> IF chosen.prompt = None THEN BuiltIn
                            ELSE [layer |-> "profile", form |-> "prompt"]

CustomOnCli == cli.prompt \in {"words", "prompt"}

\* resolve_canary_workload_id; Clear stands for the refusal.
WorkloadId ==
  IF Prompt = BuiltIn THEN IF cli.workload = None THEN BuiltIn ELSE Clear
  ELSE Or(Or(cli.workload, IF CustomOnCli THEN None ELSE chosen.workload), Clear)

\* Seeded fault: a prompt of the command line keeps the profile's expectation.
ExpectationKept ==
  IF cli.expect = Clear THEN None
  ELSE Or(cli.expect,
          Or(IF cli.prompt = Clear THEN None ELSE chosen.expect,
             IF Prompt = BuiltIn THEN BuiltIn ELSE None))
Expectation ==
  IF cli.expect = Clear THEN None
  ELSE Or(cli.expect,
          Or(IF cli.prompt = Clear \/ CustomOnCli THEN None ELSE chosen.expect,
             IF Prompt = BuiltIn THEN BuiltIn ELSE None))

\* resolve_canary_policy and the options of run_canary; the benchmark has its
\* own plan and gates and takes none of them from the profile.
ActiveSettings ==
  [prompt |-> Prompt, workload |-> WorkloadId, expect |-> Expectation,
   key |-> Credential("key"), url |-> Setting("url", "local"), model |-> Setting("model", None),
   insecure |-> Setting("insecure", FALSE), stream |-> Setting("stream", TRUE),
   maxTtft |-> IF command = "benchmark" \/ cli.stream = FALSE THEN None ELSE Clearable("maxTtft"),
   count |-> IF command = "benchmark" THEN 1 ELSE Setting("count", MergedDefault.count),
   concurrency |-> IF command = "benchmark" THEN 1
                   ELSE Setting("concurrency", MergedDefault.concurrency)]

ResolveActive ==
  /\ phase = "loaded" /\ command \in Actives
  /\ LET s == ActiveSettings
         resolves == /\ Sound(s.prompt) /\ s.workload # Clear /\ s.key # Conflict
                     /\ s.model # None /\ Sound(s.key)
     IN  \/ ~resolves /\ Refuse
         \/ resolves /\ settings' = s /\ phase' = "resolved" /\ UNCHANGED <<Given, chosen>>

\* What validate and the client refuse that depends on more than one layer;
\* the rest of the admission is that of Canary and Saturation.
Admissible(s) ==
  /\ s.concurrency <= s.count
  /\ s.stream = FALSE => s.maxTtft = None
  /\ s.url = "remote" => s.insecure

StartActive ==
  /\ phase = "resolved" /\ command \in Actives
  /\ \/ ~Admissible(settings) /\ Refuse
     \/ Admissible(settings) /\ phase' = "started" /\ UNCHANGED <<Given, chosen, settings>>

\* A command that knows no profile runs on its arguments alone.
StartOther ==
  /\ phase = "loaded" /\ ~Aware
  /\ phase' = "started" /\ UNCHANGED <<Given, chosen, settings>>

Refs == {[layer |-> l, form |-> f] : l \in {"cli", "env", "profile"}, f \in {"text", "file", "prompt"}}

Next ==
  \/ \E o \in DOMAIN CliChoices : \E v \in CliChoices[o] : GiveCli(o, v)
  \/ \E o \in DOMAIN env, form \in {"text", "file"} : GiveEnv(o, form)
  \/ \E o \in DOMAIN ProfileChoices : \E v \in ProfileChoices[o] :
       \E n \in {"local", "other"} : GiveProfile(n, o, v)
  \/ \E ref \in Refs : Spoil(ref)
  \/ ConfigInit
  \/ Load \/ ResolveMonitor \/ StartMonitor \/ ResolveActive \/ StartActive \/ StartOther

Spec == Init /\ [][Next]_vars

-----------------------------------------------------------------------------
(* What a user can rely on.                                                *)

Credentials == {"probeToken", "apiToken", "key"}
Used == {o \in Credentials \cap DOMAIN settings : settings[o] # None}

\* A credential is the one of the highest layer that has one, no flag has
\* cleared it, and it is sound.
CredentialNearest(o) ==
  /\ cli[o] # Clear /\ settings[o] \notin damaged
  /\ cli[o] # None => settings[o].layer = "cli"
  /\ cli[o] = None /\ env[o] # {} => settings[o].layer = "env"

\* Only an explicit permission, not overruled on the command line, opens the
\* listener to others, and never without a credential; without one the
\* listener is local and the command line says so.
ExposureExplicit ==
  command = "serve" =>
    /\ settings.listen = "remote" =>
         /\ settings.apiToken # None
         /\ TRUE \in {cli.allowRemote, chosen.allowRemote} /\ cli.allowRemote # FALSE
    /\ settings.apiToken = None => settings.listen = "local" /\ cli.apiToken = Clear

\* The identity and the expectation of a request belong to its prompt.
PromptCoherent ==
  command \in Actives =>
    LET own == {cli.workload, cli.expect}
        layer == IF settings.prompt = BuiltIn THEN BuiltIn ELSE settings.prompt.layer
    IN  /\ layer = BuiltIn => settings.workload = BuiltIn
        /\ layer = "cli" => settings.workload \in own /\ settings.expect \in own \cup {None}
        /\ cli.prompt = Clear => settings.expect \in own \cup {None, BuiltIn}
        /\ layer = "profile" => settings.expect \in own \cup {None, chosen.expect}

\* A document that was accepted serves without any more arguments, and with
\* streaming switched on or off: what is refused lacks a credential or a
\* model, which a profile may leave out.
RefusedForCause ==
  LET plain == /\ \A o \in Known \ {"apiToken", "model", "stream"} : cli[o] = None
               /\ \A o \in DOMAIN env : env[o] = {}
               /\ damaged = {}
  IN  phase = "refused" /\ plain /\ Dispatched =>
        \/ command = "serve" /\ cli.apiToken = None /\ chosen.apiToken = None
        \/ command = "serve" /\ cli.apiToken = Clear /\ chosen.listen = "remote"
        \/ command \in Actives /\ None = cli.model /\ None = chosen.model

\* What a command starts with is what the layers say, each part of it from
\* the layer that may decide it, and a refusal has a cause: config/validation.rs
\* and application/mod.rs decide about the same settings before and after the
\* layers are merged.
SettingsSound ==
  /\ phase = "started" /\ Aware =>
       /\ \A o \in Used : CredentialNearest(o)
       /\ ExposureExplicit /\ PromptCoherent
       /\ command \in Monitors => settings.warning < settings.critical
       /\ \A o \in (Known \cap DOMAIN settings) \ Credentials :
            cli[o] \notin {None, Clear} /\ o # "prompt" => settings[o] = cli[o]
  /\ RefusedForCause
================================================================================
