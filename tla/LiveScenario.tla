---------------------------- MODULE LiveScenario -----------------------------
(***************************************************************************)
(* A live run from the command line to the last scenario line: the         *)
(* configuration is read, the session of args.session_name chosen, the     *)
(* Logon built from it, and every line of the scenario files sent with the *)
(* session's header and generated identifiers.                             *)
(*   src/src/application.cpp  run, run_scenarios                           *)
(*   src/src/fix_message.cpp  build_message, build_logon, build_from_fields*)
(* What comes in meanwhile is in FixSession.                               *)
(***************************************************************************)
EXTENDS ConfigFile, FixTemplate

CONSTANTS
  SessionName,   \* args.session_name
  Scenarios,     \* sequences of files, a file is a sequence of lines of fields
  FirstNumbers,  \* outbound numbers a run may begin with
  MaxPause,      \* bound: time between two messages
  MaxAnswers     \* bound: messages sent while the Logon is not answered

ASSUME LiveAssumption ==
  /\ FirstNumbers \subseteq Nat /\ MaxPause \in Nat /\ MaxAnswers \in Nat
  /\ \A s \in Scenarios : s \in Seq(Seq(Seq([tag : Nat, value : Texts \cup {OrgClrId, Empty}])))

VARIABLES
  stage,        \* load, logon, answer, lines, ended
  config,       \* the session's SessionConfig
  scenario, file, line,
  org,          \* runtime.state.org_clord_id
  outbound_seq,
  clock,        \* the time of day
  first,        \* history: outbound_seq at the start
  sent          \* history: messages sent: fields by position, before and after the template

runVars == <<config, scenario, file, line, org, outbound_seq, clock, first, sent>>
vars == <<configVars, stage, runVars>>

Init ==
  /\ ConfigInit
  /\ stage = "load"
  /\ config = SessionConfig
  /\ scenario = <<>> /\ file = 1 /\ line = 1
  /\ org = NoId
  /\ outbound_seq \in FirstNumbers /\ first = outbound_seq
  /\ clock = 0
  /\ sent = <<>>

\* ConfigParser::load.
Load == stage = "load" /\ ReadLine /\ UNCHANGED <<stage, runVars>>

End == stage' = "ended"

\* The file cannot be read, or the session is not in it: an exception ends the program.
ConfigFails ==
  /\ stage = "load"
  /\ \/ next = 1
     \/ Loaded /\ SessionName \notin DOMAIN sessions
  /\ End
  /\ UNCHANGED <<configVars, runVars>>

\* get_session. A heartbeat_interval must be positive; then the connection and the
\* token file must be there.
GetSession ==
  /\ stage = "load" /\ Loaded /\ SessionName \in DOMAIN sessions
  /\ config' = sessions[SessionName]
  /\ stage' \in {"ended"} \cup (IF config'["heartbeat_interval"] <= 0 THEN {} ELSE {"logon"})
  /\ UNCHANGED <<configVars, scenario, file, line, org, outbound_seq, clock, first, sent>>

\* build_message builds nothing for a session without names.
CanBuild == \A k \in {"begin_string", "sender_comp_id", "target_comp_id"} : config[k] # Blank

Field(tag, value) == [tag |-> tag, value |-> value]

\* The header of build_message, before the fields of the caller.
Message(time, body) ==
  <<Field(8, config["begin_string"]), Field(34, outbound_seq), Field(49, config["sender_comp_id"]),
    Field(56, config["target_comp_id"]), Field(52, time)>> \o body

\* build_logon.
Logon ==
  Message(clock, <<Field(108, config["heartbeat_interval"])>>
          \o (IF config["reset_on_logon"] THEN <<Field(141, Yes)>> ELSE <<>>))

\* Mutant: a message takes no number.
NumberKept == outbound_seq' = outbound_seq

NumberTaken == outbound_seq' = outbound_seq + 1

\* send_current_message.
Send(fields, template) ==
  /\ sent' = Append(sent, [file |-> file, fields |-> fields, template |-> template])
  /\ NumberTaken

SendLogon ==
  /\ stage = "logon"
  /\ \/ CanBuild /\ Send(Logon, Logon) /\ stage' = "answer"
     \/ End /\ UNCHANGED <<outbound_seq, sent>>
  /\ UNCHANGED <<configVars, config, scenario, file, line, org, clock, first>>

Pass == \E pause \in 0..MaxPause : clock' = clock + pause

\* While the Logon is not answered, a gap is answered with a ResendRequest, a
\* TestRequest with a Heartbeat, a Logout with a Logout. Each takes a number of its own;
\* its body is left out. (What is sent again on a ResendRequest keeps its old number.)
SendAnswer ==
  /\ stage = "answer" /\ Len(sent) <= MaxAnswers
  /\ Pass
  /\ LET answer == Message(clock', <<>>) IN Send(answer, answer)
  /\ UNCHANGED <<configVars, stage, config, scenario, file, line, org, first>>

\* The Logon is answered, or it is not: a timeout, a failure, a message that ends the
\* session.
LogonAnswered ==
  /\ stage = "answer"
  /\ \/ scenario' \in Scenarios /\ stage' = "lines"
     \/ End /\ UNCHANGED scenario
  /\ UNCHANGED <<configVars, config, file, line, org, outbound_seq, clock, first, sent>>

InFile == stage = "lines" /\ file <= Len(scenario)

runtime ==
  [begin_string |-> config["begin_string"], sender_comp_id |-> config["sender_comp_id"],
   target_comp_id |-> config["target_comp_id"], msg_seq_num |-> outbound_seq,
   sending_time_utc |-> clock', org |-> org]

\* build_from_fields: 8 comes first, 9 and 10 are rebuilt by the encoding. The other
\* fields keep the positions they have in the line.
build_from_fields(fields) ==
  [i \in {0} \cup {j \in DOMAIN fields : fields[j].tag \notin {8, 9, 10}} |->
     IF i = 0 THEN Field(8, config["begin_string"]) ELSE fields[i]]

\* A line of run_scenarios; without any field it is skipped.
SendLine ==
  /\ InFile /\ line <= Len(scenario[file])
  /\ line' = line + 1
  /\ Pass
  /\ LET fields == scenario[file][line] IN
     \/ fields = <<>> /\ UNCHANGED <<stage, org, outbound_seq, sent>>
     \/ /\ fields # <<>>
        /\ org' = NewOrg(runtime, fields)
        /\ Send(build_from_fields(fix_template_apply(runtime, fields)), build_from_fields(fields))
        /\ UNCHANGED stage
     \/ fields # <<>> /\ End /\ UNCHANGED <<org, outbound_seq, sent>>
  /\ UNCHANGED <<configVars, config, scenario, file, first>>

\* Mutant: the identifier of one file is used in the next.
OrgOfNextFileKept == org' = org

OrgOfNextFile == org' = NoId

\* The end of a file, or a file that cannot be opened.
NextFile ==
  /\ InFile /\ (line > Len(scenario[file]) \/ line = 1)
  /\ file' = file + 1 /\ line' = 1
  /\ OrgOfNextFile
  /\ UNCHANGED <<configVars, stage, config, scenario, outbound_seq, clock, first, sent>>

Next ==
  \/ Load \/ ConfigFails \/ GetSession
  \/ SendLogon \/ SendAnswer \/ LogonAnswered
  \/ SendLine \/ NextFile

Spec == Init /\ [][Next]_vars

-----------------------------------------------------------------------------
(* Properties                                                              *)

\* The run is in bounds, and every number taken is the number of one message.
TypeOK ==
  /\ stage \in {"load", "logon", "answer", "lines", "ended"}
  /\ DOMAIN config = Keys
  /\ next \in 1..Len(config_file) + 1
  /\ outbound_seq = first + Len(sent)
  /\ \A m \in DOMAIN sent : sent[m].file <= file
  /\ org # NoId => org[1] = "CL"

\* Reading line by line gives every section what the file says of it, and exactly the
\* sections that assign something exist (config_parser.cpp:48-58).
LoadedAsWritten ==
  Loaded =>
    /\ DOMAIN sessions = {s \in {SectionAt(i) : i \in DOMAIN config_file} \ {"DEFAULT"} : LinesOf(s) # {}}
    /\ \A s \in DOMAIN sessions : \A k \in Keys : sessions[s][k] = Written(s, k)

\* The fields of a tag in a message.
Fields(m, tag) == {i \in DOMAIN m.fields : m.fields[i].tag = tag}

\* The message has the tag where its line has it, and nowhere else; the first field of
\* the tag has this value.
Carries(m, tag, value) ==
  /\ Fields(m, tag) = {i \in DOMAIN m.template : m.template[i].tag = tag}
  /\ Fields(m, tag) # {} => m.fields[Min(Fields(m, tag))].value = value

\* Each message begins with the session's version. Where it has SenderCompID,
\* TargetCompID or MsgSeqNum, they are the names the configuration file gives the
\* session and the number of its turn, whatever the scenario line has there, and
\* whatever the session sent before its Logon was answered. A header field that the
\* line leaves out the message leaves out too (fix_template.cpp:137-165).
SentAsConfigured ==
  \A m \in DOMAIN sent :
    /\ Fields(sent[m], 8) # {}
    /\ Carries(sent[m], 8, Written(SessionName, "begin_string"))
    /\ Carries(sent[m], 49, Written(SessionName, "sender_comp_id"))
    /\ Carries(sent[m], 56, Written(SessionName, "target_comp_id"))
    /\ Carries(sent[m], 34, first + m - 1)

\* Where ${ORG_CLRID} was written in the lines sent, as <<message, field>>.
OrgFields ==
  UNION {{m} \X {i \in DOMAIN sent[m].template : IsOrg(sent[m].template[i])} : m \in DOMAIN sent}

\* Messages so close that their numbers differ modulo SeqMod.
Close(m, n) == m - n < SeqMod /\ n - m < SeqMod

\* ${ORG_CLRID} names one order within a file, in tag 11 as in tag 41, and, in a run of
\* at most SeqMod messages, never one of another file (fix_template.h:15-18).
OriginalOfFile ==
  \A f, g \in OrgFields :
    LET Id(x) == sent[x[1]].fields[x[2]].value IN
    /\ sent[f[1]].file = sent[g[1]].file => Id(f) = Id(g)
    /\ sent[f[1]].file # sent[g[1]].file /\ Close(1, Len(sent)) => Id(f) # Id(g)

\* Two ClOrdIDs that are the same, of one message or of two: one of them repeats the
\* file's ${ORG_CLRID}, or the messages are SeqMod numbers apart, or the message has
\* more than CountMod of them (fix_template.cpp:58).
ClOrdIdOfOneOrder ==
  \A m, n \in DOMAIN sent : Close(m, n) =>
    \A i \in Fields(sent[m], 11), j \in Fields(sent[n], 11) :
      /\ <<m, i>> # <<n, j>>
      /\ m = n => Cardinality(Fields(sent[m], 11)) <= CountMod
      /\ sent[m].fields[i].value = sent[n].fields[j].value
      => <<m, i>> \in OrgFields \/ <<n, j>> \in OrgFields
=============================================================================
