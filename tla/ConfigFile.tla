----------------------------- MODULE ConfigFile ------------------------------
(***************************************************************************)
(* ConfigParser: a configuration file, read line by line into one record   *)
(* per section; [DEFAULT] fills in what a section leaves out.              *)
(*   src/src/config_parser.cpp, src/include/config_parser.h                *)
(***************************************************************************)
EXTENDS Integers, FiniteSetsExt, Sequences

CONSTANTS
  ConfigFiles,   \* sequences of lines
  Texts,         \* what a key can be given
  Blank,         \* the empty text
  Yes,           \* "true"
  FIX44,         \* "FIX.4.4"
  Atoi           \* std::atoi on each text

Names == {"host", "begin_string", "sender_comp_id", "target_comp_id"}
Numbers == {"port", "heartbeat_interval"}
Keys == Names \cup Numbers \cup {"reset_on_logon"}

\* Lines that are neither a section nor an assignment leave no trace and are left out.
SectionLine(name) == [section |-> TRUE, key |-> name, value |-> Blank]
KeyLine(key, value) == [section |-> FALSE, key |-> key, value |-> value]

ASSUME ConfigAssumption ==
  /\ {Blank, Yes, FIX44} \subseteq Texts
  /\ Atoi \in [Texts -> Int]
  /\ \A f \in ConfigFiles : f \in Seq([section : BOOLEAN, key : STRING, value : Texts])

VARIABLES
  config_file,  \* the file
  next,         \* the next line
  section_name, defaults, sessions

configVars == <<config_file, next, section_name, defaults, sessions>>

\* The member initialisers of SessionConfig.
SessionConfig ==
  [k \in Keys |-> CASE k = "port" -> 0
                    [] k = "heartbeat_interval" -> 30
                    [] k = "begin_string" -> FIX44
                    [] k = "reset_on_logon" -> FALSE
                    [] OTHER -> Blank]

Convert(key, value) ==
  CASE key \in Numbers -> Atoi[value]
    [] key = "reset_on_logon" -> value = Yes
    [] OTHER -> value

\* One assignment; an unknown key changes nothing.
Assign(config, l) ==
  IF l.key \in Keys THEN [config EXCEPT ![l.key] = Convert(l.key, l.value)] ELSE config

\* Mutant: a section is created without the defaults.
SectionConfigBare(name) ==
  IF name \in DOMAIN sessions THEN sessions[name] ELSE SessionConfig

\* The first assignment of a section, to whatever key, creates it from the defaults
\* read so far.
SectionConfig(name) ==
  IF name \in DOMAIN sessions THEN sessions[name] ELSE defaults

ConfigInit ==
  /\ config_file \in ConfigFiles
  /\ next = 1
  /\ section_name = "DEFAULT"
  /\ defaults = SessionConfig
  /\ sessions = << >>

\* One turn of load.
ReadLine ==
  /\ next <= Len(config_file)
  /\ next' = next + 1
  /\ LET l == config_file[next] IN
     \/ /\ l.section
        /\ section_name' = IF l.key = "" THEN "DEFAULT" ELSE l.key
        /\ UNCHANGED <<defaults, sessions>>
     \/ /\ ~l.section /\ section_name = "DEFAULT"
        /\ defaults' = Assign(defaults, l)
        /\ UNCHANGED <<section_name, sessions>>
     \/ /\ ~l.section /\ section_name # "DEFAULT"
        /\ sessions' = [s \in DOMAIN sessions \cup {section_name} |->
             IF s = section_name THEN Assign(SectionConfig(s), l) ELSE sessions[s]]
        /\ UNCHANGED <<section_name, defaults>>
  /\ UNCHANGED config_file

Loaded == next > Len(config_file)

-----------------------------------------------------------------------------
(* What the file says, read as a whole                                     *)

\* The section line i is in.
SectionAt(i) ==
  LET heads == {j \in 1..i : config_file[j].section /\ j <= i} IN
  IF heads = {} \/ config_file[Max(heads)].key = "" THEN "DEFAULT" ELSE config_file[Max(heads)].key

LinesOf(name) ==
  {i \in DOMAIN config_file : ~config_file[i].section /\ SectionAt(i) = name}

\* The last assignment in the section; if there is none, the last in [DEFAULT] above
\* the section's first line; if there is none, the built-in value.
Written(name, key) ==
  LET own   == {i \in LinesOf(name) : config_file[i].key = key}
      above == {i \in LinesOf("DEFAULT") : config_file[i].key = key /\ i < Min(LinesOf(name))}
  IN CASE own # {} -> Convert(key, config_file[Max(own)].value)
       [] own = {} /\ above # {} -> Convert(key, config_file[Max(above)].value)
       [] OTHER -> SessionConfig[key]
=============================================================================
