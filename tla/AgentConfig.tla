---------------------------- MODULE AgentConfig ----------------------------
(***************************************************************************)
(* How the agent arrives at its configuration (internal/agent/config,       *)
(* Load): the defaults, over them the YAML file, the NEXWATCH_ variables    *)
(* and the flags given on the command line, each source replacing what the  *)
(* one below says of an option, before any value is looked at.              *)
(* Durations are in units of the interval's floor.                          *)
(***************************************************************************)
EXTENDS Integers, Sequences, FiniteSets

CONSTANTS
    ConfigSources   \* the sources an agent may start with: records of file, env and flag

VARIABLE
    given           \* what the sources say: chosen once

\* A raw value: a YAML boolean, integer or float, or a string that reads as a boolean,
\* as a duration, as decimal digits (the empty string among them, as 0), or as nothing.
RawKind == {"bool", "int", "float", "bool_text", "duration_text", "digits", "junk"}

Option ==
    [interval |-> "duration", cve_scan_interval |-> "duration",
     docker_update_checks |-> "bool", auto_update_enabled |-> "bool",
     update_require_signature |-> "bool", cve_scan_enabled |-> "bool", logs_enabled |-> "bool",
     cve_scan_max_images |-> "int", logs_max_lines_per_sec |-> "int"]

\* Options with a flag of their own: the others come from the file or the environment.
HasFlag == {"interval", "docker_update_checks", "auto_update_enabled", "update_require_signature"}

DefaultConfig ==
    [interval |-> 10, cve_scan_interval |-> 43200,
     docker_update_checks |-> TRUE, auto_update_enabled |-> TRUE,
     update_require_signature |-> FALSE, cve_scan_enabled |-> TRUE, logs_enabled |-> TRUE,
     cve_scan_max_images |-> 10, logs_max_lines_per_sec |-> 200]

\* Sources that name other keys are read alike; what they say of those has no effect.
ASSUME SourcesAssumption ==
    \A sources \in ConfigSources : \A s \in {"file", "env", "flag"} :
        /\ DOMAIN sources = {"file", "env", "flag"} /\ DOMAIN sources[s] \subseteq DOMAIN Option
        /\ \A o \in DOMAIN sources[s] :
             LET raw == sources[s][o] IN
             /\ raw.kind \in {"int", "float", "duration_text", "digits"} => raw.value \in Int
             /\ raw.kind \in {"bool", "bool_text"} => raw.value \in BOOLEAN

ConfigInit(sources) == given \in sources

configVars == <<given>>

-----------------------------------------------------------------------------
\* What a source says of an option: <<raw>>, or nothing.  A file that cannot be read
\* or parsed says nothing; of the flags only the ones given count.
Says(source, o) ==
    IF o \in DOMAIN given[source] /\ (source = "flag" => o \in HasFlag) THEN <<given[source][o]>> ELSE <<>>

\* Mutant: the file overrides the environment.
MutantMerged(o) ==
    IF Says("flag", o) # <<>> THEN Says("flag", o)
    ELSE IF Says("file", o) # <<>> THEN Says("file", o) ELSE Says("env", o)

\* The three loads of koanf: the last one that says something of the option.
Merged(o) ==
    IF Says("flag", o) # <<>> THEN Says("flag", o)
    ELSE IF Says("env", o) # <<>> THEN Says("env", o) ELSE Says("file", o)

\* The switches over the raw value's type, after an Unmarshal that leaves an option it
\* cannot decode as it was: numbers and digits are seconds, a string that is no
\* boolean changes nothing, nor does a negative number in a string, which is no digits.
\* (Numerals only Unmarshal understands, hexadecimal ones, are left out.)
ReadDuration(raw, default) ==
    IF raw.kind \in {"int", "float", "duration_text", "digits"} THEN raw.value ELSE default

ReadBool(raw, default) ==
    IF raw.kind \in {"bool", "bool_text"} THEN raw.value ELSE default

ReadInt(raw, default) ==
    IF raw.kind \in {"int", "float", "digits"} THEN raw.value ELSE default

ReadOption(o) ==
    LET raw == Merged(o)[1] IN
    IF Merged(o) = <<>> THEN DefaultConfig[o]
    ELSE CASE Option[o] = "duration" -> ReadDuration(raw, DefaultConfig[o])
           [] Option[o] = "bool" -> ReadBool(raw, DefaultConfig[o])
           [] Option[o] = "int" -> ReadInt(raw, DefaultConfig[o])

\* The floors at the end: an hour between scans, a second between collections; a
\* limit of zero or less is the default one.
Clamp(o, value) ==
    CASE o = "interval" -> IF value < 1 THEN 1 ELSE value
      [] o = "cve_scan_interval" -> IF value < 3600 THEN 3600 ELSE value
      [] Option[o] = "int" -> IF value <= 0 THEN DefaultConfig[o] ELSE value
      [] OTHER -> value

LoadConfig == [o \in DOMAIN Option |-> Clamp(o, ReadOption(o))]

-----------------------------------------------------------------------------
Sound(o, raw) ==
    /\ Option[o] = "bool" => raw.kind \in {"bool", "bool_text"}
    /\ Option[o] = "duration" => raw.kind \in {"int", "float", "digits", "duration_text"} /\ raw.value >= 3600
    /\ Option[o] = "int" => raw.kind \in {"int", "float", "digits"} /\ raw.value > 0

Order == <<"flag", "env", "file">>
Named == UNION {DOMAIN given[source] : source \in DOMAIN given}

\* config.go:127-129, "CLI flags > environment variables > config file > defaults",
\* and no source can push an option out of its range:
\* a usable value of the strongest source that names the option is the one in force,
\* and whatever junk, zeros or negative numbers the sources hold, the agent neither
\* spins, nor scans all the time, nor ships nothing.
ConfigInForce ==
    LET config == LoadConfig IN
    /\ \A o \in Named : \A i \in 1..3 :
         /\ Says(Order[i], o) # <<>> /\ Sound(o, Says(Order[i], o)[1])
         /\ \A j \in 1..(i - 1) : Says(Order[j], o) = <<>>
         => config[o] = Says(Order[i], o)[1].value
    /\ config.interval >= 1 /\ config.cve_scan_interval >= 3600
    /\ config.cve_scan_max_images > 0 /\ config.logs_max_lines_per_sec > 0
=============================================================================
