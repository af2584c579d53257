--------------------------- MODULE ConfigLoading ---------------------------
(***************************************************************************)
(* The configuration of the orchestrator (src/internal/config and          *)
(* loadConfig of cmd/orchestrator): defaults, file, environment and flags  *)
(* are merged and validated at the start, and again without the flags at   *)
(* each SIGHUP.                                                            *)
(*                                                                         *)
(* A configuration is valid when each of its sections is, and sections do  *)
(* not read each other: a behaviour follows one section, of the kind that  *)
(* stands for all fields treated in the same way.  A field the file leaves *)
(* out has the zero value of its type.  Paths are sequences of pieces of   *)
(* text: a path is a textual prefix of another, not always its parent.     *)
(***************************************************************************)
EXTENDS Integers, Sequences

CONSTANTS
    NoConfigFile,     \* the file does not exist
    Unreadable,       \* not YAML, empty, of another type, or another section is invalid
    NotSet,           \* an environment variable without value; a map the file leaves out
    Unparsable,       \* text that does not parse as a number
    MaxPort,          \* 65535 of the code
    Numbers,          \* numbers that file, environment and flags give
    Sizes,            \* sizes that the file gives
    Texts,            \* texts that they give, "" where none
    Storages, Homes,  \* storage paths and paths of users that the file gives, << >> where none
    EnvStorages,      \* storage paths that the environment gives
    DefaultNames,     \* names of the default provider, "" where none
    ProvidersWritten  \* maps of model providers that the file gives, NotSet where none

\* The first part is a fact of TLA+, written down because the provers do not know it.
ASSUME CfAssumption ==
    /\ {"true", "info", "debug", "std", "/users"} \subseteq STRING
    /\ NotSet \notin STRING /\ NotSet \notin Int
    /\ Unparsable \notin STRING /\ Unparsable \notin Int /\ Unparsable # NotSet
    /\ Numbers \subseteq Int /\ Sizes \subseteq Int /\ Texts \subseteq STRING /\ DefaultNames \subseteq STRING
    /\ Storages \subseteq Seq(STRING) /\ Homes \subseteq Seq(STRING)
    /\ EnvStorages \subseteq Seq(STRING) \ {<< >>} /\ NotSet \notin EnvStorages
    /\ \A w \in ProvidersWritten \ {NotSet} : w \in [DOMAIN w -> {"off", "none", "placeholder", "key"}]

VARIABLES
    section,     \* the section followed
    written,     \* what the file says of it
    environ,     \* the environment of the process
    flags,       \* the flags of the process
    running,     \* o.cfg and the reloader's currentConfig, NotSet when no process runs
    loadedFrom,  \* history: the file the running configuration came from
    reloaded     \* history: it came from a reload

cfVars == <<section, written, environ, flags, running, loadedFrom, reloaded>>

CfSections == {"level", "port", "retries", "tls", "persistence", "audit", "memory", "llm"}

-----------------------------------------------------------------------------
(* The inputs.                                                             *)

FileValues(sec) ==
    CASE sec \in {"level", "tls"}    -> Texts
      [] sec \in {"port", "retries"} -> Numbers
      [] sec = "persistence" -> BOOLEAN
      [] sec = "audit"       -> [on : BOOLEAN, format : Texts, compress : BOOLEAN]
      [] sec = "memory"      -> [storage : Storages, on : BOOLEAN, size : Sizes, users : Homes]
      [] sec = "llm"         -> [on : BOOLEAN, default : DefaultNames, providers : ProvidersWritten]

EnvSwitches == {NotSet, "true", "yes"}

EnvValues(sec) ==
    CASE sec \in {"level", "tls"}      -> {NotSet} \cup (Texts \ {""})
      [] sec = "port"                  -> {NotSet, Unparsable} \cup Numbers
      [] sec \in {"retries", "audit"}  -> {NotSet}
      [] sec = "persistence"           -> EnvSwitches
      [] sec = "memory" -> [storage : {NotSet} \cup EnvStorages, on : EnvSwitches]
      [] sec = "llm"    -> [on : EnvSwitches, default : {NotSet} \cup (DefaultNames \ {""}),
                            keys : SUBSET {"anthropic", "openai"}]

FlagValues(sec) ==
    CASE sec = "level" -> Texts
      [] sec = "port"  -> Numbers
      [] OTHER         -> {NotSet}

-----------------------------------------------------------------------------
(* Defaults.                                                               *)

DefaultPath == <<"std">>
Users(storage) == storage \o <<"/users">>

DefaultAuditConfig == [on |-> FALSE, format |-> "json", compress |-> TRUE]
DefaultMemoryConfig == [storage |-> DefaultPath, users |-> Users(DefaultPath), on |-> TRUE, size |-> 100]
DefaultLLMConfig == [on |-> FALSE, default |-> "anthropic",
                     providers |-> [p \in {"anthropic", "openai"} |-> "none"]]

DefaultConfig(sec) ==
    CASE sec = "level"       -> "info"
      [] sec = "port"        -> 8080
      [] sec = "retries"     -> 3
      [] sec = "tls"         -> ""
      [] sec = "persistence" -> TRUE
      [] sec = "audit"       -> DefaultAuditConfig
      [] sec = "memory"      -> DefaultMemoryConfig
      [] sec = "llm"         -> DefaultLLMConfig

Or(value, zero, default) == IF value = zero THEN default ELSE value

\* ${LOG_LEVEL:-debug}, written here as "reference".
Referred(e) == Or(e, NotSet, "debug")

\* Before the defaults.  The keys of model providers are not among the fields looked at.
Interpolate(sec, v, e) == IF sec = "level" /\ v = "reference" THEN Referred(e) ELSE v

\* An empty section gets all defaults, also the flag; otherwise the flag stays as read.
DefaultMemory(v) ==
    LET storage == Or(v.storage, << >>, DefaultPath)
    IN  IF v = [storage |-> << >>, users |-> << >>, on |-> FALSE, size |-> 0]
        THEN DefaultMemoryConfig
        ELSE [v EXCEPT !.storage = storage, !.size = Or(@, 0, 100),
                       !.users = Or(@, << >>, Users(storage))]

\* The booleans of a missing audit section were to get their defaults, but the test
\* comes after the fields it reads were filled.
DefaultAudit(v) == [v EXCEPT !.format = Or(@, "", "json")]

DefaultLLM(v) ==
    [v EXCEPT !.default = Or(@, "", "anthropic"),
              !.providers = Or(@, NotSet, DefaultLLMConfig.providers)]

ApplyDefaults(sec, v) ==
    CASE sec = "level"       -> Or(v, "", DefaultConfig(sec))
      [] sec \in {"port", "retries"} -> Or(v, 0, DefaultConfig(sec))
      [] sec \in {"tls", "persistence"} -> v
      [] sec = "audit"       -> DefaultAudit(v)
      [] sec = "memory"      -> DefaultMemory(v)
      [] sec = "llm"         -> DefaultLLM(v)

-----------------------------------------------------------------------------
(* Environment and flags.                                                  *)

\* Whatever is not "true" or "1" is false.
EnvFlag(v, e) == IF e = NotSet THEN v ELSE e = "true"

\* Paths that begin with the text of the old storage path move to the new one.
Under(old, p) == Len(old) <= Len(p) /\ SubSeq(p, 1, Len(old)) = old
Moved(new, old, p) == IF Under(old, p) THEN new \o SubSeq(p, Len(old) + 1, Len(p)) ELSE p

EnvMemory(v, e) ==
    LET storage == Or(e.storage, NotSet, v.storage)
    IN  [v EXCEPT !.storage = storage, !.users = Moved(storage, v.storage, @), !.on = EnvFlag(@, e.on)]

\* Keys are taken for the providers that are configured.
EnvLLM(v, e) ==
    [v EXCEPT !.on = EnvFlag(@, e.on), !.default = Or(e.default, NotSet, @),
              !.providers = [p \in DOMAIN @ |-> IF p \in e.keys /\ @[p] # "off" THEN "key" ELSE @[p]]]

\* A variable that does not parse is as good as not set.
EnvText(v, e) == IF e \in {NotSet, Unparsable} THEN v ELSE e

\* The TLS paths are assigned without the test of the other fields.
EnvTLS(v, e) == Or(e, NotSet, "")

ApplyEnvOverrides(sec, v, e) ==
    CASE sec \in {"level", "port"} -> EnvText(v, e)
      [] sec \in {"retries", "audit"} -> v
      [] sec = "tls"         -> EnvTLS(v, e)
      [] sec = "persistence" -> EnvFlag(v, e)
      [] sec = "memory"      -> EnvMemory(v, e)
      [] sec = "llm"         -> EnvLLM(v, e)

\* A plausible slip: flags fill only what is still the default.
ApplyOverridesWeakly(sec, v, f) ==
    CASE sec = "level" -> IF v = "info" THEN Or(f, "", v) ELSE v
      [] sec = "port"  -> IF f > 0 /\ v = 8080 THEN f ELSE v
      [] OTHER         -> v

ApplyOverrides(sec, v, f) ==
    CASE sec = "level" -> Or(f, "", v)
      [] sec = "port"  -> IF f > 0 THEN f ELSE v
      [] OTHER         -> v

-----------------------------------------------------------------------------
(* Validation and loading.                                                 *)

HasKey(p, key, e) == key # "none" \/ p \in e.keys

\* Only when it is on; a key may still come from the environment.
ValidLLM(v, e) ==
    v.on => /\ v.default \in DOMAIN v.providers
            /\ \A p \in DOMAIN v.providers : HasKey(p, v.providers[p], e)

Validate(sec, v, e) ==
    CASE sec = "level"   -> v \in {"debug", "info", "warn", "error"}
      [] sec = "port"    -> v \in 1..MaxPort
      [] sec = "retries" -> v >= 0
      [] sec \in {"tls", "persistence"} -> TRUE
      [] sec = "audit"   -> v.on => v.format \in {"json", "text"}
      [] sec = "memory"  -> v.storage # << >> /\ v.size > 0
      [] sec = "llm"     -> ValidLLM(v, e)

\* LoadFromFile succeeds: what the file says is valid before the environment is read.
FileLoads(sec, w, e) ==
    /\ w \notin {NoConfigFile, Unreadable}
    /\ Validate(sec, ApplyDefaults(sec, Interpolate(sec, w, e)), e)

FromFile(sec, w, e) == ApplyEnvOverrides(sec, ApplyDefaults(sec, Interpolate(sec, w, e)), e)

\* Load, or LoadWithPath when a path was given: then the file has to exist.
Loads(sec, w, e, path) ==
    IF w = NoConfigFile THEN ~path /\ Validate(sec, ApplyEnvOverrides(sec, DefaultConfig(sec), e), e)
    ELSE FileLoads(sec, w, e) /\ Validate(sec, FromFile(sec, w, e), e)

LoadedConfig(sec, w, e) ==
    IF w = NoConfigFile THEN ApplyEnvOverrides(sec, DefaultConfig(sec), e) ELSE FromFile(sec, w, e)

\* Reloader.Reload does not validate after the environment; the callback does, in UpdateConfig.
ReloadAccepts(sec, w, e) == FileLoads(sec, w, e) /\ Validate(sec, FromFile(sec, w, e), e)

-----------------------------------------------------------------------------
CfInit ==
    /\ section \in CfSections
    /\ written = NoConfigFile
    /\ environ = NotSet /\ flags = NotSet
    /\ running = NotSet /\ loadedFrom = NoConfigFile /\ reloaded = FALSE

\* External: an administrator edits the file.
EditConfig ==
    /\ \E w \in {NoConfigFile, Unreadable} \cup FileValues(section) : written' = w
    /\ UNCHANGED <<section, environ, flags, running, loadedFrom, reloaded>>

\* loadConfig; when it fails the process ends.
StartProcess ==
    /\ running = NotSet
    /\ \E e \in EnvValues(section), f \in FlagValues(section), path \in BOOLEAN :
           /\ Loads(section, written, e, path)
           /\ environ' = e /\ flags' = f
           /\ running' = ApplyOverrides(section, LoadedConfig(section, written, e), f)
    /\ loadedFrom' = written /\ reloaded' = FALSE
    /\ UNCHANGED <<section, written>>

\* A SIGHUP whose file is accepted: the flags are not applied again.  Any other is without effect.
ReloadConfig ==
    /\ running # NotSet
    /\ ReloadAccepts(section, written, environ)
    /\ running' = FromFile(section, written, environ)
    /\ loadedFrom' = written /\ reloaded' = TRUE
    /\ UNCHANGED <<section, written, environ, flags>>

ProcessEnds ==
    /\ running # NotSet
    /\ running' = NotSet /\ environ' = NotSet /\ flags' = NotSet
    /\ loadedFrom' = NoConfigFile /\ reloaded' = FALSE
    /\ UNCHANGED <<section, written>>

CfNext == EditConfig \/ StartProcess \/ ReloadConfig \/ ProcessEnds

CfSpec == CfInit /\ [][CfNext]_cfVars

-----------------------------------------------------------------------------
ProcessRuns == running # NotSet

\* What runs has the shape of its section, with every field filled that has a default.
CfTypeOK ==
    /\ section \in CfSections
    /\ written \in {NoConfigFile, Unreadable} \cup FileValues(section)
    /\ ProcessRuns =>
          /\ environ \in EnvValues(section) /\ flags \in FlagValues(section)
          /\ section = "port" => running \in Int \ {0}
          /\ section = "level" => running # ""
          /\ section = "memory" => running.users # << >>
          /\ section = "llm" => running.default # ""

\* The sources of a value, strongest first: a value that was given and is not NotSet.
Strongest(values) ==
    values[CHOOSE i \in DOMAIN values : values[i] # NotSet /\ \A j \in 1..i-1 : values[j] = NotSet]

\* "CLI flags, environment variables, YAML configuration file, built-in defaults"
\* (examples/config.yaml): the strongest source that says something is what runs.  Once
\* a process has reloaded, this is claimed without flags only.
StrongestWins ==
    ProcessRuns /\ section \in {"level", "port"} =>
        LET zero == IF section = "level" THEN "" ELSE 0
            none == IF section = "level" THEN flags = "" ELSE flags <= 0
            flag == IF none THEN NotSet ELSE flags
            env  == IF environ = Unparsable THEN NotSet ELSE environ
            said == IF loadedFrom \in {NoConfigFile, zero} THEN NotSet ELSE Interpolate(section, loadedFrom, environ)
        IN  none \/ ~reloaded => running = Strongest(<<flag, env, said, DefaultConfig(section)>>)

\* What runs is valid, however file and environment were combined, except for a flag,
\* which nothing validates, until a reload drops it.
RunsValid == ProcessRuns => Validate(section, running, environ) \/ (~reloaded /\ running = flags)

\* No path is left under a storage path that is not used: the paths that the file put
\* under its storage path or left out are under the one that runs.
MemoryUnmixed ==
    ProcessRuns /\ section = "memory" =>
        LET said == IF loadedFrom = NoConfigFile THEN << >> ELSE loadedFrom.users
        IN  said = << >> \/ (loadedFrom.storage # << >> /\ Under(loadedFrom.storage, said)) =>
                Under(running.storage, running.users)

\* The same precedence for switches and the TLS paths: a variable that is set decides,
\* and nothing is off that a file switches on or that no source mentions.  What a file
\* says by leaving a switch out is not claimed.
SwitchesObey ==
    ProcessRuns =>
        /\ section = "tls" /\ environ # NotSet => running = environ
        /\ section = "persistence" =>
              /\ environ # NotSet => (running <=> environ = "true")
              /\ environ = NotSet /\ loadedFrom \in {NoConfigFile, TRUE} => running
        /\ section = "memory" =>
              /\ environ.on # NotSet => (running.on <=> environ.on = "true")
              /\ environ.on = NotSet /\ (loadedFrom = NoConfigFile \/ loadedFrom.on) => running.on
        /\ section = "audit" /\ (loadedFrom = NoConfigFile \/ loadedFrom.compress) => running.compress

\* When models are in use the default provider is configured and none that is switched
\* on lacks a key, whichever of file and environment the three came from.
ProvidersHaveKeys ==
    ProcessRuns /\ section = "llm" /\ running.on =>
        /\ running.default \in DOMAIN running.providers
        /\ \A p \in DOMAIN running.providers : running.providers[p] # "none"

\* Which of flag, environment, file and default wins, and what, over reloads too, then
\* holds of the configuration that runs (config.go, loader.go, reload.go).
ConfigSafe ==
    /\ CfTypeOK
    /\ StrongestWins
    /\ RunsValid
    /\ SwitchesObey
    /\ MemoryUnmixed
    /\ ProvidersHaveKeys
=============================================================================
