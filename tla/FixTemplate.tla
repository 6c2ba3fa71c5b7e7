----------------------------- MODULE FixTemplate -----------------------------
(***************************************************************************)
(* fix_template_apply: a scenario line with the session's header fields,   *)
(* the number, the time and the generated identifiers filled in.           *)
(*   src/src/fix_template.cpp                                              *)
(* A field is a tag and a value. Texts are model values; a number, a time  *)
(* and an identifier stand for themselves.                                 *)
(***************************************************************************)
EXTENDS Integers, FiniteSets, Sequences

CONSTANTS
  TimeMod,    \* the last 11 digits of the time: 10^11 ms, the month without its name
  SeqMod,     \* msg_seq_num % 10000
  CountMod,   \* counter % 100
  OrgClrId,   \* "${ORG_CLRID}"
  Empty,      \* an empty value
  NoId        \* org_clord_id as yet empty

ASSUME TemplateAssumption ==
  /\ TimeMod \in Nat \ {0} /\ SeqMod \in Nat \ {0} /\ CountMod \in Nat \ {0}
  /\ NoId \notin {"CL"} \X Nat \X Nat \X Nat

\* Mutant: the time alone makes an identifier.
TimeId(prefix, time, seq, counter) == <<prefix, time % TimeMod, 0, counter % CountMod>>

\* Three numbers of fixed width behind a prefix: their text determines them.
make_unique_id(prefix, time, seq, counter) ==
  <<prefix, time % TimeMod, seq % SeqMod, counter % CountMod>>

\* The fields of a header that are overwritten, in the first field of their tag.
Header(runtime) ==
  [t \in {8, 49, 56, 34, 52} |-> CASE t = 8  -> runtime.begin_string
                                   [] t = 49 -> runtime.sender_comp_id
                                   [] t = 56 -> runtime.target_comp_id
                                   [] t = 34 -> runtime.msg_seq_num
                                   [] OTHER  -> runtime.sending_time_utc]

\* Mutant: a value that is there is kept.
OverwrittenIfEmpty(fields, i) ==
  /\ fields[i].tag \in {8, 49, 56, 34, 52}
  /\ fields[i].value = Empty

Overwritten(fields, i) ==
  /\ fields[i].tag \in {8, 49, 56, 34, 52}
  /\ \A j \in 1..(i - 1) : fields[j].tag # fields[i].tag

IsOrg(field) == field.tag \in {11, 41} /\ field.value = OrgClrId

\* org_clord_id after the message: made for the first ${ORG_CLRID} of a file, with
\* the counter of the first generated ClOrdID.
NewOrg(runtime, fields) ==
  IF runtime.org = NoId /\ (\E i \in DOMAIN fields : IsOrg(fields[i]))
  THEN make_unique_id("CL", runtime.sending_time_utc, runtime.msg_seq_num, 1)
  ELSE runtime.org

\* clord_counter, cross_counter at field i.
Counter(fields, i) ==
  Cardinality({j \in 1..i : fields[j].tag = fields[i].tag /\ ~IsOrg(fields[j])})

Value(runtime, fields, i) ==
  LET field == fields[i]
      Id(prefix) == make_unique_id(prefix, runtime.sending_time_utc, runtime.msg_seq_num,
                                   Counter(fields, i))
  IN CASE Overwritten(fields, i)                -> Header(runtime)[field.tag]
       [] field.tag = 60 /\ field.value = Empty -> runtime.sending_time_utc
       [] IsOrg(field)                          -> NewOrg(runtime, fields)
       [] field.tag = 11 /\ ~IsOrg(field)       -> Id("CL")
       [] field.tag = 548                       -> Id("X")
       [] OTHER                                 -> field.value

fix_template_apply(runtime, fields) ==
  [i \in DOMAIN fields |-> [tag |-> fields[i].tag, value |-> Value(runtime, fields, i)]]
=============================================================================
